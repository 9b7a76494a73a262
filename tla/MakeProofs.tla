----------------------------- MODULE MakeProofs -----------------------------
(***************************************************************************)
(* Proofs about the Makefile for every set of sources and targets, every   *)
(* map between them, every number of makes that run at the same time, and  *)
(* any number of edits (MaxTime is arbitrary).                             *)
(***************************************************************************)
EXTENDS Make, TLAPS

LEMMA TypeInit == Init => TypeOK
BY Rules DEF Init, TypeOK, File, Reading, Reading, Kind, Prereq, Absent, Unread

LEMMA Grows == ASSUME NEW n \in Nat, NEW k \in Nat, n <= k
               PROVE  File(n) \subseteq File(k) /\ Reading(n) \subseteq Reading(k)
BY DEF File, Reading

LEMMA ReadingTypes ==
  ASSUME TypeOK
  PROVE  /\ Unread \in Reading(now)
         /\ \A t \in Target :
              /\ LdReads(t) \in Reading(now)
              /\ [from |-> source[SourceOf[t]].at, also |-> HeaderOf(t), kind |-> source[SourceOf[t]].kind,
                  hit |-> FALSE] \in Reading(now)
BY Rules DEF TypeOK, LdReads, HeaderOf, Unread, File, Reading, Kind

(* What opening an output can make of it. *)
LEMMA OpenedForms ==
  ASSUME NEW m, NEW t, NEW f, NEW r, NEW n, NEW g \in Opened(m, t, f, r, n)
  PROVE  \/ g = NewFile(m, r, n)
         \/ f.kind = "partial" /\ g = Shared(m, t, f, r, n)
BY DEF Opened

LEMMA OpenedType ==
  ASSUME NEW n \in Nat, NEW m \in Maker, NEW t, NEW f \in File(n), NEW r \in Reading(n)
  PROVE  Absent \in File(n) /\ Opened(m, t, f, r, n) \subseteq File(n)
<1>1. NewFile(m, r, n) \in File(n)
  BY DEF NewFile, File, Reading, Kind
<1>2. Shared(m, t, f, r, n) \in File(n)
  BY DEF Shared, File, Reading, Kind
<1> QED BY <1>1, <1>2, OpenedForms DEF Absent, File, Kind

LEMMA HitType == ASSUME NEW n \in Nat, read \in [Maker -> [Target -> Reading(n)]], NEW S, NEW T
                 PROVE  Hit(S, T) \in [Maker -> [Target -> Reading(n)]]
<1> SUFFICES ASSUME NEW m \in Maker, NEW t \in Target
             PROVE  [read[m][t] EXCEPT !.hit = TRUE] \in Reading(n)
  BY DEF Hit
<1>1. read[m][t] \in Reading(n)
  OBVIOUS
<1> QED BY <1>1 DEF Reading

LEMMA FinishedType ==
  ASSUME NEW n \in Nat, NEW m \in Maker, NEW t \in Target, NEW f \in File(n), read[m][t] \in Reading(n)
  PROVE  Finished(m, t, f, n) \in File(n)
BY DEF Finished, File, Reading, Kind

LEMMA TypeNext == TypeOK /\ [Next]_vars => TypeOK'
<1> SUFFICES ASSUME TypeOK, [Next]_vars PROVE TypeOK'
  OBVIOUS
<1> USE Rules DEF TypeOK, inputs
<1>a. now + 1 \in Nat /\ File(now) \subseteq File(now + 1) /\ Reading(now) \subseteq Reading(now + 1)
  BY Grows
<1>b. read \in [Maker -> [Target -> Reading(now + 1)]]
  BY <1>a
<1>c. \A S, T : Hit(S, T) \in [Maker -> [Target -> Reading(now + 1)]]
  BY <1>a, <1>b, HitType
<1>d. Absent \in File(now) /\ Unread \in Reading(now) /\ Unread \in Reading(now + 1)
  BY <1>a, OpenedType, ReadingTypes DEF Absent, Unread, File, Reading, Kind
<1>e. ASSUME NEW m \in Maker, NEW t \in Target
      PROVE  /\ Finished(m, t, exe[t], now) \in File(now)
             /\ Finished(m, t, object[t], now + 1) \in File(now + 1)
             /\ Opened(m, t, exe[t], LdReads(t), now) \subseteq File(now)
             /\ Opened(m, t, object[t], read[m][t], now + 1) \subseteq File(now + 1)
  <2>1. object[t] \in File(now) /\ exe[t] \in File(now) /\ read[m][t] \in Reading(now)
    OBVIOUS
  <2>2. object[t] \in File(now + 1) /\ read[m][t] \in Reading(now + 1)
    BY <1>a, <2>1
  <2>3. LdReads(t) \in Reading(now)
    BY ReadingTypes
  <2> QED BY <1>a, <2>1, <2>2, <2>3, FinishedType, OpenedType
<1>f. ASSUME NEW m \in Maker, NEW t \in Target PROVE Look(m, t) \in [Prereq -> 0 .. now]
  BY DEF Look, Written, Prereq
<1>1. ASSUME NEW s \in Src, Edit(s) PROVE TypeOK'
  <2> DEFINE Texts == [at : 1 .. now + 1, kind : {"good", "syntax", "link"}, built : SUBSET (1 .. now + 1)]
  <2>1. ASSUME NEW k \in {"good", "syntax", "link"} PROVE Saved(s, k, now + 1) \in Texts
    BY DEF Saved
  <2>2. source' \in [Src -> Texts]
    BY <1>1, <2>1 DEF Edit, UserWrites
  <2> QED BY <1>1, <1>a, <1>c, <2>2 DEF Edit, UserWrites
<1>2. CASE EditHeader
  BY <1>2, <1>a, <1>c DEF EditHeader, UserWrites
<1>3. CASE ReplaceArchives
  BY <1>3, <1>a, <1>c DEF ReplaceArchives, UserWrites
<1>4. ASSUME NEW m \in Maker, Start(m) PROVE TypeOK'
  BY <1>4 DEF Start
<1>5. ASSUME NEW m \in Maker, NEW t \in Target, Recipe(m, t) PROVE TypeOK'
  <2>1. CASE Skip(m, t)
    BY <2>1, <1>f DEF Skip, Consider
  <2>2. CASE Compile(m, t)
    BY <2>2, <1>f, ReadingTypes DEF Compile, Consider
  <2>3. CASE Assemble(m, t)
    <3>1. PICK g \in Opened(m, t, object[t], read[m][t], now + 1) : object' = [object EXCEPT ![t] = g]
      BY <2>3 DEF Assemble
    <3>2. g \in File(now + 1)
      BY <1>e
    <3> QED BY <2>3, <3>1, <3>2, <1>a, <1>c DEF Assemble
  <2>4. CASE Compiled(m, t)
    <3>1. CASE m \in object[t].by
      <4>1. now' = now + 1 /\ object' = [object EXCEPT ![t] = Finished(m, t, object[t], now + 1)]
        BY <2>4, <3>1 DEF Compiled
      <4> QED BY <2>4, <4>1, <1>a, <1>b, <1>d, <1>e DEF Compiled, Ends
    <3>2. CASE m \notin object[t].by
      BY <2>4, <3>2, <1>d DEF Compiled, Ends
    <3> QED BY <3>1, <3>2
  <2>5. CASE CompileFails(m, t)
    BY <2>5, <1>d DEF CompileFails, Ends, AfterCompileFails
  <2>6. CASE Relink(m, t) \/ Link(m, t)
    <3>1. PICK g \in Opened(m, t, exe[t], LdReads(t), now) : exe' = [exe EXCEPT ![t] = g]
      BY <2>6 DEF Relink, Link, RunLd
    <3>2. g \in File(now) /\ LdReads(t) \in Reading(now)
      BY <1>e, ReadingTypes
    <3>3. /\ stage' = [stage EXCEPT ![m][t] = "link"] /\ read' = [read EXCEPT ![m][t] = LdReads(t)]
          /\ seen' = seen \/ seen' = [seen EXCEPT ![m] = Look(m, t)]
          /\ UNCHANGED <<now, inputs, object, quiet, run>>
      BY <2>6 DEF Relink, Link, Consider, RunLd
    <3>4. exe' \in [Target -> File(now)]
      BY <3>1, <3>2
    <3>5. read' \in [Maker -> [Target -> Reading(now)]]
      BY <3>2, <3>3
    <3>6. stage' \in [Maker -> [Target -> {"none", "wait", "compile", "write", "exe", "link", "done"}]]
      BY <3>3
    <3>7. seen' \in [Maker -> [Prereq -> 0 .. now]]
      <4>1. Look(m, t) \in [Prereq -> 0 .. now] /\ seen \in [Maker -> [Prereq -> 0 .. now]]
        BY <1>f
      <4> QED BY <3>3, <4>1
    <3> QED BY <3>3, <3>4, <3>5, <3>6, <3>7
  <2>7. CASE Linked(m, t)
    BY <2>7, <1>d, <1>e DEF Linked, Ends
  <2>8. CASE LinkFails(m, t)
    BY <2>8, <1>d DEF LinkFails, Ends
  <2> QED BY <1>5, <2>1, <2>2, <2>3, <2>4, <2>5, <2>6, <2>7, <2>8 DEF Recipe
<1>6. ASSUME NEW m \in Maker, Exit(m) PROVE TypeOK'
  <2>1. CASE run[m] = "all" /\ AllDone(m) /\ run' = [run EXCEPT ![m] = "ok"] /\ UNCHANGED stage
    BY <1>6, <2>1, <1>d DEF Exit, Stops, AllDone
  <2>2. CASE run[m] = "failing" /\ Waited(m) /\ Fails(m)
    BY <1>6, <2>2, <1>d DEF Exit, Stops, Fails
  <2> QED BY <1>6, <2>1, <2>2 DEF Exit
<1>7. ASSUME NEW m \in Maker, Interrupt(m) PROVE TypeOK'
  BY <1>7, <1>d DEF Interrupt, Stops, Fails
<1>8. ASSUME NEW m \in Maker, CleanObjects(m) PROVE TypeOK'
  BY <1>8, <1>d DEF CleanObjects
<1>9. ASSUME NEW m \in Maker, CleanTargets(m) PROVE TypeOK'
  BY <1>9, <1>d DEF CleanTargets
<1>10. CASE UNCHANGED vars
  BY <1>10 DEF vars, progress
<1> QED
  BY <1>1, <1>2, <1>3, <1>4, <1>5, <1>6, <1>7, <1>8, <1>9, <1>10 DEF Next, Working

(* Every variable of the build keeps its type; no file is dated ahead. *)
THEOREM TypeCorrect == Spec => []TypeOK
BY TypeInit, TypeNext, PTL DEF Spec
-----------------------------------------------------------------------------
SameReading(r, q) == r.from = q.from /\ r.also = q.also /\ r.kind = q.kind

(* Marking a recipe as hit changes nothing of what it has read. *)
LEMMA HitKeeps ==
  ASSUME TypeOK, NEW S, NEW T, NEW m \in Maker, NEW t \in Target
  PROVE  SameReading(Hit(S, T)[m][t], read[m][t]) /\ (read[m][t].hit => Hit(S, T)[m][t].hit)
<1>1. read[m][t] \in Reading(now)
  BY DEF TypeOK
<1>2. /\ SameReading([read[m][t] EXCEPT !.hit = TRUE], read[m][t])
      /\ [read[m][t] EXCEPT !.hit = TRUE].hit
  BY <1>1 DEF Reading, SameReading
<1> QED BY <1>2 DEF Hit, SameReading

(* A write by a user. *)
LEMMA UserFrame ==
  ASSUME TypeOK, (\E s \in Src : Edit(s)) \/ EditHeader \/ ReplaceArchives
  PROVE  /\ now' = now + 1 /\ UNCHANGED <<object, exe, run, stage, seen>>
         /\ \A m \in Maker : ~quiet'[m]
         /\ \A m \in Maker, t \in Target : SameReading(read'[m][t], read[m][t]) /\ (read[m][t].hit => read'[m][t].hit)
<1>1. \E S, T : read' = Hit(S, T)
  BY DEF Edit, EditHeader, ReplaceArchives
<1> QED BY <1>1, HitKeeps DEF Edit, EditHeader, ReplaceArchives, UserWrites

(* A step of the recipe of t in m leaves the other files and recipes alone. *)
LEMMA RecipeFrame ==
  ASSUME TypeOK, NEW m \in Maker, NEW t \in Target, Recipe(m, t)
  PROVE  /\ UNCHANGED <<source, header, archive, quiet>> /\ now' \in {now, now + 1}
         /\ \A u \in Target : u # t => object'[u] = object[u] /\ exe'[u] = exe[u]
         /\ \A j \in Maker : j # m => run'[j] = run[j] /\ seen'[j] = seen[j]
         /\ \A j \in Maker, u \in Target : j # m \/ u # t =>
              /\ stage'[j][u] = stage[j][u]
              /\ SameReading(read'[j][u], read[j][u]) /\ (read[j][u].hit => read'[j][u].hit)
<1> USE DEF TypeOK, inputs
<1>s. \A j \in Maker, u \in Target : SameReading(read[j][u], read[j][u])
  BY DEF SameReading
<1>1. CASE Skip(m, t) \/ Compile(m, t)
  BY <1>s, <1>1 DEF Skip, Compile, Consider
<1>2. CASE Assemble(m, t)
  <2>1. \A j \in Maker, u \in Target : SameReading(read'[j][u], read[j][u]) /\ (read[j][u].hit => read'[j][u].hit)
    BY <1>2, HitKeeps DEF Assemble
  <2>2. UNCHANGED <<source, header, archive, quiet, exe, run, seen>> /\ now' = now + 1
        /\ \E g : object' = [object EXCEPT ![t] = g]
        /\ stage' = [stage EXCEPT ![m][t] = "write"]
    BY <1>2 DEF Assemble
  <2> QED BY <2>1, <2>2
<1>3. CASE Compiled(m, t)
  BY <1>s, <1>3 DEF Compiled, Ends
<1>4. CASE CompileFails(m, t)
  BY <1>s, <1>4 DEF CompileFails, Ends
<1>5. CASE Relink(m, t) \/ Link(m, t)
  BY <1>s, <1>5 DEF Relink, Link, Consider, RunLd
<1>6. CASE Linked(m, t) \/ LinkFails(m, t)
  BY <1>s, <1>6 DEF Linked, LinkFails, Ends
<1> QED BY <1>1, <1>2, <1>3, <1>4, <1>5, <1>6 DEF Recipe

(* A make that ends, is interrupted or cleans removes files, and recipes. *)
LEMMA StopFrame ==
  ASSUME TypeOK, NEW m \in Maker, Exit(m) \/ Interrupt(m) \/ CleanObjects(m) \/ CleanTargets(m)
  PROVE  /\ UNCHANGED <<now, source, header, archive>>
         /\ \A u \in Target : /\ object'[u] = object[u] \/ object'[u] = Absent
                              /\ exe'[u] = exe[u] \/ exe'[u] = Absent
         /\ \A j \in Maker : j # m => run'[j] = run[j]
         /\ \A j \in Maker, u \in Target :
              /\ j # m => stage'[j][u] = stage[j][u] /\ read'[j][u] = read[j][u]
              /\ stage'[j][u] \in {"compile", "write", "link"} =>
                   stage'[j][u] = stage[j][u] /\ read'[j][u] = read[j][u]
              /\ read'[j][u] \in {read[j][u], Unread}
<1> USE DEF TypeOK, inputs
<1>1. CASE Exit(m)
  <2>1. \A u \in Target : stage'[m][u] \in {"none", "done"}
    BY <1>1 DEF Exit, Fails, AllDone
  <2>2. \A j \in Maker, u \in Target : j # m => stage'[j][u] = stage[j][u]
    BY <1>1 DEF Exit, Fails
  <2>3. \A j \in Maker : j # m => run'[j] = run[j]
    BY <1>1 DEF Exit, Fails
  <2> QED BY <1>1, <2>1, <2>2, <2>3 DEF Exit, Stops
<1>2. CASE Interrupt(m)
  BY <1>2 DEF Interrupt, Fails, Stops
<1>3. CASE CleanObjects(m)
  BY <1>3 DEF CleanObjects
<1>4. CASE CleanTargets(m)
  BY <1>4 DEF CleanTargets
<1> QED BY <1>1, <1>2, <1>3, <1>4
-----------------------------------------------------------------------------
(* A make that is not at work has no target under way and remembers nothing. *)
Resting == \A m \in Maker : run[m] \notin {"all", "failing"} =>
             /\ \A t \in Target : stage[m][t] \in {"none", "done"}
             /\ \A p \in Prereq : seen[m][p] = 0

(* A file that is being written is there, and is not yet marked as one an input
   of which was written; an object is not known by a text exactly if it is a mix. *)
FormedAt(t) ==
  /\ object[t].by # {} => object[t].at # 0
  /\ object[t].at = 0 => object[t].kind = "none"
  /\ object[t].kind = "partial" => ~object[t].raced
  /\ object[t].kind = "mixed" => object[t].from = 0
  /\ object[t].kind = "good" => object[t].from # 0
  /\ exe[t].by # {} => exe[t].at # 0
  /\ exe[t].kind = "partial" => ~exe[t].raced
  /\ exe[t].also = 0 => exe[t].from = 0
  /\ exe[t].by = {} /\ exe[t].at # 0 => exe[t].kind \in {"good", "mixed"}

WellFormed == \A t \in Target : FormedAt(t)

ReadAt(m, t) ==
  /\ read[m][t].kind = "mixed" => read[m][t].from = 0
  /\ read[m][t].kind = "good" => read[m][t].from # 0
  /\ stage[m][t] \in {"compile", "write"} =>
       read[m][t].kind \in {"good", "syntax", "link"} /\ read[m][t].from # 0

WellRead == \A m \in Maker, t \in Target : ReadAt(m, t)

Owned == TypeOK /\ Resting /\ NoPartialLeft /\ WellRead /\ WellFormed

LEMMA RestingNext == TypeOK /\ Resting /\ [Next]_vars => Resting'
<1> SUFFICES ASSUME TypeOK, Resting, [Next]_vars PROVE Resting'
  OBVIOUS
<1> USE Rules DEF TypeOK, Resting
<1>1. CASE (\E s \in Src : Edit(s)) \/ EditHeader \/ ReplaceArchives
  BY <1>1, UserFrame
<1>2. ASSUME NEW m \in Maker, Start(m) PROVE Resting'
  BY <1>2 DEF Start
<1>3. ASSUME NEW m \in Maker, NEW t \in Target, Recipe(m, t) PROVE Resting'
  <2>1. stage[m][t] \notin {"none", "done"}
    BY <1>3 DEF Recipe, Skip, Compile, Relink, Consider, Assemble, Compiled, CompileFails, Link, Linked, LinkFails
  <2>2. run'[m] \in {"all", "failing"}
    BY <1>3, <2>1 DEF Recipe, Skip, Compile, Relink, Consider, Assemble, Compiled, CompileFails, Link, Linked, LinkFails
  <2>3. \A j \in Maker : j # m => run'[j] = run[j] /\ seen'[j] = seen[j] /\ \A u \in Target : stage'[j][u] = stage[j][u]
    BY <1>3, RecipeFrame
  <2>4. ASSUME NEW j \in Maker, run'[j] \notin {"all", "failing"}
        PROVE  /\ \A u \in Target : stage'[j][u] \in {"none", "done"}
               /\ \A p \in Prereq : seen'[j][p] = 0
    <3> HIDE DEF TypeOK
    <3>1. j # m
      BY <2>2, <2>4
    <3>2. run[j] \notin {"all", "failing"}
      BY <2>3, <2>4, <3>1
    <3> QED BY <2>3, <3>1, <3>2
  <2> QED BY <2>4
<1>4. ASSUME NEW m \in Maker, Exit(m) PROVE Resting'
  <2>1. CASE run[m] = "all" /\ AllDone(m) /\ run' = [run EXCEPT ![m] = "ok"] /\ UNCHANGED stage
    BY <1>4, <2>1 DEF Exit, Stops, AllDone
  <2>2. CASE run[m] = "failing" /\ Waited(m) /\ Fails(m)
    BY <1>4, <2>2 DEF Exit, Stops, Fails
  <2> QED BY <1>4, <2>1, <2>2 DEF Exit
<1>5. ASSUME NEW m \in Maker, Interrupt(m) PROVE Resting'
  BY <1>5 DEF Interrupt, Stops, Fails
<1>6. ASSUME NEW m \in Maker, CleanObjects(m) \/ CleanTargets(m) PROVE Resting'
  BY <1>6 DEF CleanObjects, CleanTargets, Active
<1>7. CASE UNCHANGED vars
  BY <1>7 DEF vars, progress
<1> QED BY <1>1, <1>2, <1>3, <1>4, <1>5, <1>6, <1>7 DEF Next, Working

LEMMA PartialNext == TypeOK /\ Resting /\ WellRead /\ NoPartialLeft /\ [Next]_vars => NoPartialLeft'
<1> SUFFICES ASSUME TypeOK, Resting, WellRead, NoPartialLeft, [Next]_vars PROVE NoPartialLeft'
  OBVIOUS
<1> USE Rules DEF NoPartialLeft, Active
<1>1. CASE (\E s \in Src : Edit(s)) \/ EditHeader \/ ReplaceArchives
  BY <1>1, UserFrame
<1>2. ASSUME NEW m \in Maker, Start(m) PROVE NoPartialLeft'
  BY <1>2 DEF Start, TypeOK, File
<1>3. ASSUME NEW m \in Maker, NEW t \in Target, Recipe(m, t) PROVE NoPartialLeft'
  <2>1. run[m] \in {"all", "failing"} /\ run'[m] \in {"all", "failing"}
    <3>1. stage[m][t] \notin {"none", "done"}
      BY <1>3 DEF Recipe, Skip, Compile, Relink, Consider, Assemble, Compiled, CompileFails, Link, Linked, LinkFails
    <3>2. run[m] \in {"all", "failing"}
      BY <3>1 DEF Resting
    <3> QED BY <1>3, <3>2 DEF TypeOK, Recipe, Skip, Compile, Relink, Consider, Assemble, Compiled, CompileFails, Link, Linked, LinkFails
  <2>2. ASSUME NEW u \in Target, NEW j \in Maker, j # m \/ u # t
        PROVE  stage'[j][u] = stage[j][u] /\ (Active(j) => Active(j)')
    BY <1>3, <2>1, <2>2, RecipeFrame
  <2>3. ASSUME NEW u \in Target, u # t
        PROVE  object'[u] = object[u] /\ exe'[u] = exe[u]
    BY <1>3, <2>3, RecipeFrame
  <2>4. /\ object'[t].by \subseteq object[t].by \cup {m} /\ exe'[t].by \subseteq exe[t].by \cup {m}
        /\ m \in object'[t].by => stage'[m][t] = "write"
        /\ m \in exe'[t].by => stage'[m][t] = "link"
        /\ object'[t].kind = "partial" => object'[t].by # {}
        /\ exe'[t].kind = "partial" => exe'[t].by # {}
    <3> USE DEF TypeOK, File, Reading
    <3>1. CASE Skip(m, t)
      BY <3>1 DEF Skip, Consider
    <3>2. CASE Compile(m, t)
      BY <3>2 DEF Compile, Consider
    <3>3. CASE Assemble(m, t)
      <4>1. PICK g \in Opened(m, t, object[t], read[m][t], now + 1) : object' = [object EXCEPT ![t] = g]
        BY <3>3 DEF Assemble
      <4>2. m \in g.by /\ g.by \subseteq object[t].by \cup {m}
        BY OpenedForms DEF NewFile, Shared
      <4>3. stage'[m][t] = "write" /\ stage[m][t] = "compile" /\ UNCHANGED exe
        BY <3>3 DEF Assemble
      <4> QED BY <4>1, <4>2, <4>3
    <3>4. CASE Compiled(m, t)
      <4>0. stage[m][t] = "write" /\ stage'[m][t] = "exe" /\ UNCHANGED exe
        BY <3>4 DEF Compiled, Ends
      <4>1. read[m][t].kind # "partial"
        <5> HIDE DEF TypeOK, NoPartialLeft
        <5> QED BY <4>0 DEF WellRead, ReadAt
      <4>2. CASE m \in object[t].by
        <5>1. object'[t] = Finished(m, t, object[t], now')
          BY <3>4, <4>2 DEF Compiled
        <5> QED BY <4>0, <4>1, <5>1 DEF Finished
      <4>3. CASE m \notin object[t].by
        BY <3>4, <4>0, <4>3 DEF Compiled
      <4> QED BY <4>2, <4>3
    <3>5. CASE CompileFails(m, t)
      BY <3>5 DEF CompileFails, Ends, AfterCompileFails
    <3>6. CASE Relink(m, t) \/ Link(m, t)
      <4>1. PICK g \in Opened(m, t, exe[t], LdReads(t), now) : exe' = [exe EXCEPT ![t] = g]
        BY <3>6 DEF Relink, Link, RunLd
      <4>2. m \in g.by /\ g.by \subseteq exe[t].by \cup {m}
        BY OpenedForms DEF NewFile, Shared
      <4>3. stage'[m][t] = "link" /\ stage[m][t] \in {"wait", "exe"} /\ UNCHANGED object
        BY <3>6 DEF Relink, Link, RunLd, Consider
      <4> QED BY <4>1, <4>2, <4>3
    <3>7. CASE Linked(m, t)
      <4>1. stage[m][t] = "link" /\ stage'[m][t] = "done" /\ UNCHANGED object /\ read[m][t].kind # "partial"
        BY <3>7 DEF Linked, Ends, Linkable
      <4>2. CASE m \in exe[t].by
        <5>1. exe'[t] = Finished(m, t, exe[t], now)
          BY <3>7, <4>2 DEF Linked
        <5> QED BY <4>1, <5>1 DEF Finished
      <4>3. CASE m \notin exe[t].by
        BY <3>7, <4>1, <4>3 DEF Linked
      <4> QED BY <4>2, <4>3
    <3>8. CASE LinkFails(m, t)
      BY <3>8 DEF LinkFails, Ends, Absent
    <3> QED BY <1>3, <3>1, <3>2, <3>3, <3>4, <3>5, <3>6, <3>7, <3>8 DEF Recipe
  <2>5. ASSUME NEW u \in Target, NEW j \in Maker
        PROVE  /\ j \in object'[u].by => Active(j)' /\ stage'[j][u] = "write"
               /\ j \in exe'[u].by => Active(j)' /\ stage'[j][u] = "link"
    <3>1. CASE j = m /\ u = t
      BY <2>1, <2>4, <3>1
    <3>2. CASE j # m \/ u # t
      <4>1. /\ j \in object'[u].by => j \in object[u].by
            /\ j \in exe'[u].by => j \in exe[u].by
        BY <2>3, <2>4, <3>2
      <4> QED BY <2>2, <3>2, <4>1
    <3> QED BY <3>1, <3>2
  <2>6. ASSUME NEW u \in Target
        PROVE  /\ object'[u].by \subseteq Maker /\ exe'[u].by \subseteq Maker
               /\ object'[u].kind = "partial" => object'[u].by # {}
               /\ exe'[u].kind = "partial" => exe'[u].by # {}
    <3>1. object[u].by \subseteq Maker /\ exe[u].by \subseteq Maker
      BY DEF TypeOK, File
    <3> QED BY <2>3, <2>4, <3>1
  <2> QED BY <2>5, <2>6
<1>4. ASSUME NEW m \in Maker, Exit(m) \/ Interrupt(m) \/ CleanObjects(m) \/ CleanTargets(m)
      PROVE  NoPartialLeft'
  <2>1. \A u \in Target : /\ object'[u] = object[u] \/ object'[u] = Absent
                          /\ exe'[u] = exe[u] \/ exe'[u] = Absent
    BY <1>4, StopFrame
  <2>0. \A u \in Target : /\ m \in object[u].by => stage[m][u] = "write"
                          /\ m \in exe[u].by => stage[m][u] = "link"
    OBVIOUS
  <2>2. \A u \in Target : m \notin object'[u].by /\ m \notin exe'[u].by
    <3>1. CASE Exit(m)
      <4>1. \A u \in Target : stage[m][u] \notin {"write", "link"}
        BY <3>1 DEF Exit, AllDone, Waited, Busy
      <4> QED BY <2>0, <2>1, <4>1 DEF Absent
    <3>2. CASE Interrupt(m)
      BY <2>1, <3>2 DEF Interrupt, Unfinished, TypeOK, Absent
    <3>3. CASE CleanObjects(m) \/ CleanTargets(m)
      <4>1. \A u \in Target : stage[m][u] \in {"none", "done"}
        BY <3>3 DEF CleanObjects, CleanTargets, Resting
      <4> QED BY <2>0, <2>1, <4>1 DEF Absent
    <3> QED BY <1>4, <3>1, <3>2, <3>3
  <2>3. \A j \in Maker, u \in Target : j # m => stage'[j][u] = stage[j][u] /\ run'[j] = run[j]
    BY <1>4, StopFrame
  <2>4. ASSUME NEW u \in Target, NEW j
        PROVE  /\ j \in object'[u].by => Active(j)' /\ stage'[j][u] = "write"
               /\ j \in exe'[u].by => Active(j)' /\ stage'[j][u] = "link"
    <3>1. j \in object'[u].by \cup exe'[u].by => j \in Maker /\ j # m
      <4>1. object[u].by \subseteq Maker /\ exe[u].by \subseteq Maker
        BY DEF TypeOK, File
      <4> QED BY <2>1, <2>2, <4>1 DEF Absent
    <3>2. /\ j \in object'[u].by => j \in object[u].by
          /\ j \in exe'[u].by => j \in exe[u].by
      BY <2>1 DEF Absent
    <3> QED BY <2>3, <3>1, <3>2
  <2>5. ASSUME NEW u \in Target
        PROVE  /\ object'[u].kind = "partial" => object'[u].by # {}
               /\ exe'[u].kind = "partial" => exe'[u].by # {}
    BY <2>1 DEF Absent
  <2> QED BY <2>4, <2>5
<1>5. CASE UNCHANGED vars
  BY <1>5 DEF vars, progress
<1> QED BY <1>1, <1>2, <1>3, <1>4, <1>5 DEF Next, Working

LEMMA ReadNext == TypeOK /\ WellFormed /\ WellRead /\ [Next]_vars => WellRead'
<1> SUFFICES ASSUME TypeOK, WellFormed, WellRead, [Next]_vars,
                    NEW j \in Maker, NEW u \in Target
             PROVE  ReadAt(j, u)'
  BY DEF WellRead
<1>0. ASSUME SameReading(read'[j][u], read[j][u]),
             stage'[j][u] \in {"compile", "write"} => stage[j][u] \in {"compile", "write"}
      PROVE  ReadAt(j, u)'
  BY <1>0 DEF WellRead, ReadAt, SameReading
<1>1. CASE (\E s \in Src : Edit(s)) \/ EditHeader \/ ReplaceArchives
  BY <1>0, <1>1, UserFrame
<1>2. ASSUME NEW m \in Maker, Start(m)
      PROVE  SameReading(read'[j][u], read[j][u])
             /\ (stage'[j][u] \in {"compile", "write"} => stage[j][u] \in {"compile", "write"})
  BY <1>2 DEF Start, TypeOK, SameReading
<1>3. ASSUME NEW m \in Maker, NEW t \in Target, Recipe(m, t)
      PROVE  ReadAt(j, u)'
  <2>1. CASE j # m \/ u # t
    BY <1>0, <1>3, <2>1, RecipeFrame
  <2>2. CASE j = m /\ u = t
    <3>1. CASE Skip(m, t)
      BY <2>2, <3>1 DEF Skip, Consider, TypeOK, WellRead, ReadAt
    <3>2. CASE Compile(m, t)
      <4>1. /\ read'[m][t].kind = source[SourceOf[t]].kind /\ read'[m][t].from = source[SourceOf[t]].at
            /\ source[SourceOf[t]].kind \in {"good", "syntax", "link"} /\ source[SourceOf[t]].at # 0
        BY <3>2, Rules DEF Compile, TypeOK
      <4> QED BY <2>2, <4>1 DEF ReadAt
    <3>3. CASE Assemble(m, t)
      <4>1. SameReading(read'[m][t], read[m][t]) /\ stage[m][t] = "compile"
        BY <3>3, HitKeeps DEF Assemble
      <4> QED BY <1>0, <2>2, <4>1
    <3>4. CASE Compiled(m, t) \/ CompileFails(m, t) \/ Linked(m, t) \/ LinkFails(m, t)
      <4>1. read'[m][t] = Unread /\ stage'[m][t] \in {"exe", "done"}
        BY <3>4 DEF Compiled, CompileFails, Linked, LinkFails, Ends, TypeOK
      <4> QED BY <2>2, <4>1 DEF Unread, ReadAt
    <3>5. CASE Relink(m, t) \/ Link(m, t)
      <4>1. read'[m][t].kind = object[t].kind /\ read'[m][t].from = object[t].from /\ stage'[m][t] = "link"
        BY <3>5 DEF Relink, Link, RunLd, LdReads, TypeOK
      <4> QED BY <2>2, <4>1 DEF WellFormed, FormedAt, ReadAt
    <3> QED BY <1>3, <3>1, <3>2, <3>3, <3>4, <3>5 DEF Recipe
  <2> QED BY <2>1, <2>2
<1>4. ASSUME NEW m \in Maker, Exit(m) \/ Interrupt(m) \/ CleanObjects(m) \/ CleanTargets(m)
      PROVE  ReadAt(j, u)'
  <2>1. /\ read'[j][u] \in {read[j][u], Unread}
        /\ stage'[j][u] \in {"compile", "write"} => stage'[j][u] = stage[j][u] /\ read'[j][u] = read[j][u]
    BY <1>4, StopFrame
  <2> QED BY <2>1 DEF Unread, WellRead, ReadAt
<1>5. CASE UNCHANGED vars
  BY <1>5 DEF vars, progress, WellRead, ReadAt
<1> QED BY <1>0, <1>1, <1>2, <1>3, <1>4, <1>5 DEF Next, Working

LEMMA FormedNext == TypeOK /\ WellRead /\ NoPartialLeft /\ WellFormed /\ [Next]_vars => WellFormed'
<1> SUFFICES ASSUME TypeOK, WellRead, NoPartialLeft, WellFormed, [Next]_vars, NEW u \in Target
             PROVE  FormedAt(u)'
  BY DEF WellFormed, FormedAt
<1>0. FormedAt(u)
  BY DEF WellFormed, FormedAt
<1>s. object'[u] = object[u] /\ exe'[u] = exe[u] => FormedAt(u)'
  BY <1>0 DEF FormedAt
<1>1. CASE (\E s \in Src : Edit(s)) \/ EditHeader \/ ReplaceArchives
  BY <1>s, <1>1, UserFrame
<1>2. ASSUME NEW m \in Maker, Start(m) PROVE FormedAt(u)'
  BY <1>s, <1>2 DEF Start
<1>3. ASSUME NEW m \in Maker, NEW t \in Target, Recipe(m, t) PROVE FormedAt(u)'
  <2>1. CASE u # t
    BY <1>s, <1>3, <2>1, RecipeFrame
  <2>2. CASE u = t
    <3>1. CASE Skip(m, t) \/ Compile(m, t) \/ CompileFails(m, t)
      BY <1>s, <2>2, <3>1 DEF Skip, Compile, Consider, CompileFails, AfterCompileFails, Ends, TypeOK
    <3>2. CASE Assemble(m, t)
      <4>1. PICK g \in Opened(m, t, object[t], read[m][t], now + 1) : object' = [object EXCEPT ![t] = g]
        BY <3>2 DEF Assemble
      <4>2. g.at = now + 1 /\ g.kind = "partial" /\ ~g.raced
        BY OpenedForms DEF NewFile, Shared
      <4>3. object'[t] = g /\ UNCHANGED exe /\ now + 1 # 0
        BY <3>2, <4>1 DEF Assemble, TypeOK
      <4> QED BY <1>0, <2>2, <4>2, <4>3 DEF FormedAt
    <3>3. CASE Compiled(m, t)
      <4>1. stage[m][t] = "write" /\ UNCHANGED exe
        BY <3>3 DEF Compiled, Ends
      <4>2. read[m][t].kind \in {"good", "syntax", "link"}
        BY <4>1 DEF WellRead, ReadAt
      <4>3. CASE m \in object[t].by
        <5>1. object'[t] = Finished(m, t, object[t], now + 1) /\ now + 1 # 0
          BY <3>3, <4>3 DEF Compiled, TypeOK
        <5> QED BY <1>0, <2>2, <4>1, <4>2, <5>1 DEF FormedAt, Finished
      <4>4. CASE m \notin object[t].by
        BY <1>s, <2>2, <3>3, <4>1, <4>4 DEF Compiled
      <4> QED BY <4>3, <4>4
    <3>4. CASE Relink(m, t) \/ Link(m, t)
      <4>1. PICK g \in Opened(m, t, exe[t], LdReads(t), now) : exe' = [exe EXCEPT ![t] = g]
        BY <3>4 DEF Relink, Link, RunLd
      <4>2. g.at = now /\ g.kind = "partial" /\ ~g.raced /\ m \in g.by
        BY OpenedForms DEF NewFile, Shared
      <4>3. g.also = 0 => g.from = 0
        <5>1. CASE g = NewFile(m, LdReads(t), now)
          BY <5>1 DEF NewFile, LdReads, TypeOK
        <5>2. CASE g = Shared(m, t, exe[t], LdReads(t), now)
          BY <1>0, <2>2, <5>2 DEF Shared, FormedAt
        <5> QED BY <5>1, <5>2, OpenedForms
      <4>4. exe'[t] = g /\ UNCHANGED object /\ now # 0
        BY <3>4, <4>1 DEF Relink, Link, Consider, TypeOK
      <4> QED BY <1>0, <2>2, <4>2, <4>3, <4>4 DEF FormedAt
    <3>5. CASE Linked(m, t)
      <4>1. stage[m][t] = "link" /\ UNCHANGED object /\ read[m][t].kind \in {"good", "mixed"}
        BY <3>5 DEF Linked, Ends, Linkable
      <4>2. CASE m \in exe[t].by
        <5>1. exe'[t] = Finished(m, t, exe[t], now) /\ now # 0
          BY <3>5, <4>2 DEF Linked, TypeOK
        <5> QED BY <1>0, <2>2, <4>1, <5>1 DEF FormedAt, Finished
      <4>3. CASE m \notin exe[t].by
        BY <1>s, <2>2, <3>5, <4>1, <4>3 DEF Linked
      <4> QED BY <4>2, <4>3
    <3>6. CASE LinkFails(m, t)
      <4>1. exe'[t] = Absent /\ UNCHANGED object
        BY <3>6 DEF LinkFails, TypeOK
      <4> QED BY <1>0, <2>2, <4>1 DEF FormedAt, Absent
    <3> QED BY <1>3, <3>1, <3>2, <3>3, <3>4, <3>5, <3>6 DEF Recipe
  <2> QED BY <2>1, <2>2
<1>4. ASSUME NEW m \in Maker, Exit(m) \/ Interrupt(m) \/ CleanObjects(m) \/ CleanTargets(m)
      PROVE  FormedAt(u)'
  <2>1. (object'[u] = object[u] \/ object'[u] = Absent) /\ (exe'[u] = exe[u] \/ exe'[u] = Absent)
    BY <1>4, StopFrame
  <2> QED BY <1>0, <2>1 DEF FormedAt, Absent
<1>5. CASE UNCHANGED vars
  BY <1>s, <1>5 DEF vars
<1> QED BY <1>1, <1>2, <1>3, <1>4, <1>5 DEF Next, Working

LEMMA OwnedInvariant == Spec => []Owned
<1>1. Init => Resting /\ NoPartialLeft /\ WellRead /\ WellFormed
  BY DEF Init, Resting, NoPartialLeft, WellRead, ReadAt, WellFormed, FormedAt, Absent, Unread
<1>2. Owned /\ [Next]_vars => Owned'
  BY TypeNext, RestingNext, PartialNext, ReadNext, FormedNext DEF Owned
<1> QED BY <1>1, <1>2, TypeInit, PTL DEF Spec, Owned

(* No half-written file outlives the recipes that write it. *)
THEOREM PartialNeverStays == Spec => []NoPartialLeft
<1>1. Owned => NoPartialLeft
  BY DEF Owned
<1> QED BY <1>1, OwnedInvariant, PTL
-----------------------------------------------------------------------------
(* What a running recipe has read is current, or a write hit it meanwhile. *)
InFlightAt(m, t) ==
  ~read[m][t].hit =>
    /\ stage[m][t] \in {"compile", "write"} =>
         /\ read[m][t].from = source[SourceOf[t]].at /\ read[m][t].also = HeaderOf(t)
         /\ read[m][t].kind = source[SourceOf[t]].kind
    /\ stage[m][t] = "link" /\ Linkable(m, t) =>
         /\ read[m][t].also = archive
         /\ object[t].at # 0 => object[t].kind # "partial" /\ object[t].from = read[m][t].from

InFlight == \A m \in Maker, t \in Target : InFlightAt(m, t)

LEMMA InFlightNext == Owned /\ InFlight /\ [Next]_vars => InFlight'
<1> SUFFICES ASSUME Owned, InFlight, [Next]_vars, NEW j \in Maker, NEW u \in Target
             PROVE  InFlightAt(j, u)'
  BY DEF InFlight
<1>o. TypeOK /\ WellRead
  BY DEF Owned
<1>i. InFlightAt(j, u)
  BY DEF InFlight
<1> USE Rules DEF inputs
<1>0. ASSUME UNCHANGED <<source, header, archive>>,
             stage'[j][u] \in {"compile", "write", "link"} =>
               /\ SameReading(read'[j][u], read[j][u]) /\ (read[j][u].hit => read'[j][u].hit)
               /\ stage[j][u] = stage'[j][u] \/ (stage[j][u] = "compile" /\ stage'[j][u] = "write"),
             \/ object'[u] = object[u] \/ object'[u].at = 0
             \/ stage'[j][u] = "link" => read'[j][u].hit
             \/ object'[u].from = object[u].from /\ object'[u].kind # "partial" /\ object[u].at # 0
      PROVE  InFlightAt(j, u)'
  BY <1>i, <1>0 DEF InFlightAt, SameReading, HeaderOf, Linkable
<1>1. ASSUME NEW s \in Src, Edit(s) PROVE InFlightAt(j, u)'
  <2>1. UNCHANGED <<header, archive, object, stage>> /\ SameReading(read'[j][u], read[j][u])
        /\ (read[j][u].hit => read'[j][u].hit)
    BY <1>o, <1>1, UserFrame DEF Edit, UserWrites
  <2>2. CASE SourceOf[u] # s
    <3>1. source'[SourceOf[u]] = source[SourceOf[u]]
      BY <1>o, <1>1, <2>2 DEF Edit, TypeOK
    <3> QED BY <1>i, <2>1, <3>1 DEF InFlightAt, SameReading, HeaderOf, Linkable
  <2>3. CASE SourceOf[u] = s
    <3>1. stage[j][u] \in {"compile", "write"} => read'[j][u].hit
      BY <1>o, <1>1, <2>3 DEF Edit, Hit, TypeOK, Reading
    <3> QED BY <1>i, <2>1, <3>1 DEF InFlightAt, SameReading, HeaderOf, Linkable
  <2> QED BY <2>2, <2>3
<1>2. CASE EditHeader
  <2>1. UNCHANGED <<source, archive, object, stage>> /\ SameReading(read'[j][u], read[j][u])
        /\ (read[j][u].hit => read'[j][u].hit)
    BY <1>o, <1>2, UserFrame DEF EditHeader, UserWrites
  <2>2. SourceOf[u] \in Includes /\ stage[j][u] \in {"compile", "write"} => read'[j][u].hit
    BY <1>o, <1>2 DEF EditHeader, Hit, TypeOK, Reading
  <2> QED BY <1>i, <2>1, <2>2 DEF InFlightAt, SameReading, HeaderOf, Linkable
<1>3. CASE ReplaceArchives
  <2>1. UNCHANGED <<source, header, object, stage>> /\ SameReading(read'[j][u], read[j][u])
        /\ (read[j][u].hit => read'[j][u].hit)
    BY <1>o, <1>3, UserFrame DEF ReplaceArchives, UserWrites
  <2>2. stage[j][u] = "link" => read'[j][u].hit
    BY <1>o, <1>3 DEF ReplaceArchives, Hit, TypeOK, Reading
  <2> QED BY <1>i, <2>1, <2>2 DEF InFlightAt, SameReading, HeaderOf, Linkable
<1>4. ASSUME NEW m \in Maker, Start(m) PROVE InFlightAt(j, u)'
  <2>1. UNCHANGED <<source, header, archive, object, read>>
        /\ (stage'[j][u] \in {"compile", "write", "link"} => stage'[j][u] = stage[j][u])
    BY <1>o, <1>4 DEF Start, TypeOK
  <2> QED BY <1>0, <2>1 DEF SameReading
<1>5. ASSUME NEW m \in Maker, NEW t \in Target, Recipe(m, t) PROVE InFlightAt(j, u)'
  <2>0. /\ UNCHANGED <<source, header, archive>>
        /\ u # t => object'[u] = object[u]
        /\ j # m \/ u # t => /\ stage'[j][u] = stage[j][u]
                             /\ SameReading(read'[j][u], read[j][u]) /\ (read[j][u].hit => read'[j][u].hit)
    BY <1>o, <1>5, RecipeFrame
  <2>1. CASE u # t
    BY <1>0, <2>0, <2>1
  <2>2. CASE u = t /\ j # m
    <3>1. CASE Assemble(m, t)
      <4>1. stage[j][u] = "link" => read'[j][u].hit
        BY <1>o, <2>2, <3>1 DEF Assemble, Hit, TypeOK, Reading
      <4> QED BY <1>0, <2>0, <2>2, <4>1
    <3>2. CASE Compiled(m, t) /\ m \in object[t].by
      <4>1. object'[t] = Finished(m, t, object[t], now + 1) /\ read[m][t].kind # "partial"
        BY <1>o, <3>2 DEF Compiled, TypeOK, WellRead, ReadAt
      <4>2. object[t].at # 0
        BY <3>2 DEF Owned, WellFormed, FormedAt
      <4> QED BY <1>0, <2>0, <2>2, <4>1, <4>2 DEF Finished
    <3>3. CASE \/ Skip(m, t) \/ Compile(m, t) \/ (Compiled(m, t) /\ m \notin object[t].by)
               \/ CompileFails(m, t) \/ Relink(m, t) \/ Link(m, t) \/ Linked(m, t) \/ LinkFails(m, t)
      <4>1. object'[u] = object[u]
        BY <1>o, <2>2, <3>3 DEF Skip, Compile, Consider, Compiled, CompileFails, AfterCompileFails,
                                Relink, Link, Linked, LinkFails, TypeOK
      <4> QED BY <1>0, <2>0, <2>2, <4>1
    <3> QED BY <1>5, <3>1, <3>2, <3>3 DEF Recipe
  <2>3. CASE u = t /\ j = m
    <3>1. CASE \/ Skip(m, t) \/ Compiled(m, t) \/ CompileFails(m, t) \/ Linked(m, t) \/ LinkFails(m, t)
      <4>1. stage'[m][t] \in {"done", "exe"}
        BY <1>o, <3>1 DEF Skip, Consider, Compiled, CompileFails, Linked, LinkFails, Ends, TypeOK
      <4> QED BY <2>3, <4>1 DEF InFlightAt
    <3>2. CASE Compile(m, t)
      <4>1. /\ stage'[m][t] = "compile" /\ read'[m][t].from = source[SourceOf[t]].at
            /\ read'[m][t].also = HeaderOf(t) /\ read'[m][t].kind = source[SourceOf[t]].kind
        BY <1>o, <3>2 DEF Compile, TypeOK
      <4> QED BY <2>0, <2>3, <4>1 DEF InFlightAt, HeaderOf
    <3>3. CASE Assemble(m, t)
      <4>1. stage'[m][t] = "write" /\ stage[m][t] = "compile" /\ SameReading(read'[m][t], read[m][t])
            /\ (read[m][t].hit => read'[m][t].hit)
        BY <1>o, <3>3, HitKeeps DEF Assemble, TypeOK
      <4> QED BY <1>i, <2>0, <2>3, <4>1 DEF InFlightAt, SameReading, HeaderOf
    <3>4. CASE Relink(m, t) \/ Link(m, t)
      <4>1. stage'[m][t] = "link" /\ read'[m][t] = LdReads(t) /\ UNCHANGED <<archive, object>>
        BY <1>o, <3>4 DEF Relink, Link, Consider, RunLd, TypeOK
      <4> QED BY <2>3, <4>1 DEF InFlightAt, Linkable, LdReads
    <3> QED BY <1>5, <3>1, <3>2, <3>3, <3>4 DEF Recipe
  <2> QED BY <2>1, <2>2, <2>3
<1>6. ASSUME NEW m \in Maker, Exit(m) \/ Interrupt(m) \/ CleanObjects(m) \/ CleanTargets(m)
      PROVE  InFlightAt(j, u)'
  <2>1. /\ UNCHANGED <<source, header, archive>>
        /\ object'[u] = object[u] \/ object'[u] = Absent
        /\ stage'[j][u] \in {"compile", "write", "link"} =>
             stage'[j][u] = stage[j][u] /\ read'[j][u] = read[j][u]
    BY <1>o, <1>6, StopFrame
  <2> QED BY <1>0, <2>1 DEF Absent, SameReading
<1>7. CASE UNCHANGED vars
  BY <1>0, <1>7 DEF vars, progress, SameReading
<1> QED BY <1>1, <1>2, <1>3, <1>4, <1>5, <1>6, <1>7 DEF Next, Working

(* Those who write an object or an executable have read what it is made from;
   one that is not known by that had two writers, one of whom is late. *)
ObjectWriters(t) ==
  /\ object[t].from # 0 => \A m \in object[t].by : /\ read[m][t].from = object[t].from
                                                   /\ read[m][t].also = object[t].also
  /\ object[t].from = 0 /\ object[t].at # 0 => object[t].raced \/ \E m \in object[t].by : read[m][t].hit

ExeWriters(t) ==
  /\ exe[t].also # 0 => \A m \in exe[t].by : read[m][t].from = exe[t].from /\ read[m][t].also = exe[t].also
  /\ exe[t].also = 0 /\ exe[t].at # 0 => exe[t].raced \/ \E m \in exe[t].by : read[m][t].hit \/ ~Linkable(m, t)
  /\ exe[t].kind = "mixed" => exe[t].from = 0

Writers == \A t \in Target : ObjectWriters(t) /\ ExeWriters(t)

(* A new output is known by what its writers have read. *)
LEMMA AssembleWriters ==
  ASSUME Owned, InFlight, Writers, NEW m \in Maker, NEW t \in Target, Assemble(m, t)
  PROVE  ObjectWriters(t)'
<1> DEFINE r == read[m][t]
           f == object[t]
<1>1. PICK g \in Opened(m, t, f, r, now + 1) : object' = [object EXCEPT ![t] = g]
  BY DEF Assemble
<1>2. object'[t] = g /\ stage[m][t] = "compile" /\ r \in Reading(now) /\ f \in File(now)
  BY <1>1 DEF Owned, TypeOK, Assemble
<1>3. \A j \in Maker : SameReading(read'[j][t], read[j][t]) /\ (read[j][t].hit => read'[j][t].hit)
  BY HitKeeps DEF Assemble, Owned
<1>4. r.from # 0 /\ (~r.hit => /\ r.from = source[SourceOf[t]].at /\ r.also = HeaderOf(t)
                               /\ r.kind = source[SourceOf[t]].kind)
  BY <1>2 DEF Owned, WellRead, ReadAt, InFlight, InFlightAt
<1>5. CASE g = NewFile(m, r, now + 1)
  BY <1>2, <1>3, <1>4, <1>5 DEF NewFile, ObjectWriters, SameReading
<1>6. CASE f.kind = "partial" /\ g = Shared(m, t, f, r, now + 1)
  <2>1. f.by # {} /\ f.by \subseteq Maker /\ ~f.raced /\ f.at # 0
    BY <1>2, <1>6 DEF Owned, NoPartialLeft, WellFormed, FormedAt, File
  <2>2. \A j \in f.by : stage[j][t] = "write"
    BY DEF Owned, NoPartialLeft
  <2>3. CASE \A j \in f.by : read[j][t] = r
    <3>1. g.from = f.from /\ g.also = f.also /\ g.by = f.by \cup {m}
      BY <1>6, <2>3 DEF Shared
    <3>2. f.from # 0 => r.from = f.from /\ r.also = f.also
      BY <2>1, <2>3 DEF Writers, ObjectWriters
    <3>3. f.from = 0 => \E j \in f.by : read[j][t].hit
      BY <2>1 DEF Writers, ObjectWriters
    <3>4. \A j \in g.by : j \in Maker /\ read[j][t] = r
      BY <2>1, <2>3, <3>1
    <3> QED BY <1>2, <1>3, <2>1, <3>1, <3>2, <3>3, <3>4 DEF ObjectWriters, SameReading
  <2>4. CASE ~\A j \in f.by : read[j][t] = r
    <3>1. PICK j \in f.by : read[j][t] # r
      BY <2>4
    <3>2. g.from = 0 /\ g.by = f.by \cup {m}
      BY <1>6, <2>4 DEF Shared
    <3>3. j \in Maker /\ read[j][t] \in Reading(now)
      BY <2>1 DEF Owned, TypeOK
    <3>4. ~read[j][t].hit => /\ read[j][t].from = source[SourceOf[t]].at /\ read[j][t].also = HeaderOf(t)
                             /\ read[j][t].kind = source[SourceOf[t]].kind
      BY <2>2, <3>3 DEF InFlight, InFlightAt
    <3>5. read[j][t].hit \/ r.hit
      BY <1>2, <1>4, <3>1, <3>3, <3>4 DEF Reading
    <3> QED BY <1>2, <1>3, <3>2, <3>3, <3>5 DEF ObjectWriters
  <2> QED BY <2>3, <2>4
<1> QED BY <1>5, <1>6, OpenedForms

LEMMA RunLdWriters ==
  ASSUME Owned, InFlight, Writers, NEW m \in Maker, NEW t \in Target, Relink(m, t) \/ Link(m, t)
  PROVE  ExeWriters(t)'
<1> DEFINE r == LdReads(t)
           f == exe[t]
<1>1. PICK g \in Opened(m, t, f, r, now) : exe' = [exe EXCEPT ![t] = g]
  BY DEF Relink, Link, RunLd
<1>2. exe'[t] = g /\ stage[m][t] \in {"wait", "exe"} /\ f \in File(now) /\ archive # 0 /\ r \in Reading(now)
  <2>1. r \in Reading(now)
    BY ReadingTypes DEF Owned
  <2> QED BY <1>1, <2>1 DEF Owned, TypeOK, Relink, Link, Consider
<1>3. read'[m][t] = r /\ \A j \in Maker : j # m => read'[j][t] = read[j][t]
  BY DEF Relink, Link, RunLd, Owned, TypeOK
<1>4. r.also = archive /\ ~r.hit /\ r.kind = object[t].kind /\ r.from = object[t].from
  BY DEF LdReads
<1>5. CASE g = NewFile(m, r, now)
  BY <1>2, <1>3, <1>4, <1>5 DEF NewFile, ExeWriters
<1>6. CASE f.kind = "partial" /\ g = Shared(m, t, f, r, now)
  <2>1. f.by # {} /\ f.by \subseteq Maker /\ ~f.raced /\ f.at # 0
    BY <1>2, <1>6 DEF Owned, NoPartialLeft, WellFormed, FormedAt, File
  <2>2. \A j \in f.by : stage[j][t] = "link" /\ j # m
    BY <1>2 DEF Owned, NoPartialLeft
  <2>3. CASE \A j \in f.by : read[j][t] = r
    <3>1. g.from = f.from /\ g.also = f.also /\ g.by = f.by \cup {m} /\ g.kind = "partial"
      BY <1>6, <2>3 DEF Shared
    <3>2. f.also # 0 => r.from = f.from /\ r.also = f.also
      BY <2>1, <2>3 DEF Writers, ExeWriters
    <3>3. f.also = 0 => \E j \in f.by : read[j][t].hit \/ ~Linkable(j, t)
      BY <2>1 DEF Writers, ExeWriters
    <3>4. \A j \in g.by : j \in Maker /\ read'[j][t] = r
      BY <1>3, <2>1, <2>2, <2>3, <3>1
    <3>5. \A j \in f.by : j \in g.by /\ read'[j][t] = read[j][t]
      BY <1>3, <2>1, <2>2, <3>1
    <3> QED BY <1>2, <3>1, <3>2, <3>3, <3>4, <3>5 DEF ExeWriters, Linkable
  <2>4. CASE ~\A j \in f.by : read[j][t] = r
    <3>1. PICK j \in f.by : read[j][t] # r
      BY <2>4
    <3>2. g.also = 0 /\ g.from = 0 /\ g.by = f.by \cup {m} /\ g.kind = "partial"
      BY <1>6, <2>4 DEF Shared
    <3>3. j \in Maker /\ j # m /\ read[j][t] \in Reading(now) /\ stage[j][t] = "link"
      BY <2>1, <2>2 DEF Owned, TypeOK
    <3>4. CASE read[j][t].hit \/ ~Linkable(j, t)
      <4>1. read'[j][t] = read[j][t] /\ j \in g.by
        BY <1>3, <3>2, <3>3
      <4> QED BY <1>2, <3>2, <3>4, <4>1 DEF ExeWriters, Linkable
    <3>5. CASE r.kind \notin {"good", "mixed"}
      <4>1. ~Linkable(m, t)' /\ m \in g.by
        BY <1>3, <3>2, <3>5 DEF Linkable
      <4> QED BY <1>2, <3>2, <4>1 DEF ExeWriters
    <3>6. CASE r.kind \in {"good", "mixed"} /\ ~read[j][t].hit /\ Linkable(j, t)
      <4>1. object[t].at # 0 /\ (r.kind = "mixed" => r.from = 0) /\ (r.kind = "good" => r.from # 0)
        BY <1>4, <3>6 DEF Owned, WellFormed, FormedAt
      <4>2. read[j][t].also = archive /\ read[j][t].from = object[t].from
        BY <3>3, <3>6, <4>1 DEF InFlight, InFlightAt
      <4>3. (read[j][t].kind = "mixed" => read[j][t].from = 0) /\ (read[j][t].kind = "good" => read[j][t].from # 0)
        BY <3>3 DEF Owned, WellRead, ReadAt
      <4>4. read[j][t].kind = r.kind
        BY <1>4, <3>6, <4>1, <4>2, <4>3 DEF Linkable
      <4> QED BY <1>2, <1>4, <3>1, <3>3, <3>6, <4>2, <4>4 DEF Reading
    <3> QED BY <3>4, <3>5, <3>6
  <2> QED BY <2>3, <2>4
<1> QED BY <1>5, <1>6, OpenedForms

(* Where a file stays and no writer has forgotten what it read, so do its
   writers. *)
LEMMA WritersKept ==
  ASSUME NEW t \in Target,
         \A m \in object[t].by \cup exe[t].by :
           SameReading(read'[m][t], read[m][t]) /\ (read[m][t].hit => read'[m][t].hit)
  PROVE  /\ object'[t] = object[t] /\ ObjectWriters(t) => ObjectWriters(t)'
         /\ exe'[t] = exe[t] /\ ExeWriters(t) => ExeWriters(t)'
<1>1. ASSUME object'[t] = object[t], ObjectWriters(t) PROVE ObjectWriters(t)'
  <2>1. \A m \in object[t].by : /\ read'[m][t].from = read[m][t].from /\ read'[m][t].also = read[m][t].also
                                /\ read[m][t].hit => read'[m][t].hit
    BY DEF SameReading
  <2> QED BY <1>1, <2>1 DEF ObjectWriters
<1>2. ASSUME exe'[t] = exe[t], ExeWriters(t) PROVE ExeWriters(t)'
  <2>1. \A m \in exe[t].by : /\ read'[m][t].from = read[m][t].from /\ read'[m][t].also = read[m][t].also
                             /\ read'[m][t].kind = read[m][t].kind /\ (read[m][t].hit => read'[m][t].hit)
    BY DEF SameReading
  <2> QED BY <1>2, <2>1 DEF ExeWriters, Linkable
<1> QED BY <1>1, <1>2

LEMMA CompiledWriters ==
  ASSUME Owned, Writers, NEW m \in Maker, NEW t \in Target, Compiled(m, t), m \in object[t].by
  PROVE  ObjectWriters(t)'
<1>1. object'[t] = Finished(m, t, object[t], now + 1) /\ object[t].by \subseteq Maker /\ object[t].at # 0
  BY DEF Owned, TypeOK, File, Compiled, WellFormed, FormedAt
<1>2. \A j \in Maker : j # m => read'[j][t] = read[j][t]
  BY DEF Compiled, Ends, Owned, TypeOK
<1>3. object'[t].by = object[t].by \ {m} /\ object'[t].from = object[t].from /\ object'[t].also = object[t].also
      /\ object'[t].raced = (object[t].raced \/ read[m][t].hit)
  BY <1>1 DEF Finished
<1>4. \A j \in object'[t].by : j \in object[t].by /\ read'[j][t] = read[j][t]
  BY <1>1, <1>2, <1>3
<1>5. object'[t].from # 0 => \A j \in object'[t].by : /\ read'[j][t].from = object'[t].from
                                                      /\ read'[j][t].also = object'[t].also
  BY <1>3, <1>4 DEF Writers, ObjectWriters
<1>6. object'[t].from = 0 => object'[t].raced \/ \E j \in object'[t].by : read'[j][t].hit
  <2>1. object[t].from = 0 => object[t].raced \/ \E j \in object[t].by : read[j][t].hit
    BY <1>1 DEF Writers, ObjectWriters
  <2>2. \A j \in object[t].by : j = m \/ (j \in object'[t].by /\ read'[j][t] = read[j][t])
    BY <1>3, <1>4
  <2> QED BY <1>3, <2>1, <2>2
<1> QED BY <1>5, <1>6 DEF ObjectWriters

LEMMA LinkedWriters ==
  ASSUME Owned, Writers, NEW m \in Maker, NEW t \in Target, Linked(m, t), m \in exe[t].by
  PROVE  ExeWriters(t)'
<1>1. exe'[t] = Finished(m, t, exe[t], now) /\ exe[t].by \subseteq Maker /\ exe[t].at # 0 /\ Linkable(m, t)
  BY DEF Owned, TypeOK, File, Linked, WellFormed, FormedAt
<1>2. \A j \in Maker : j # m => read'[j][t] = read[j][t]
  BY DEF Linked, Ends, Owned, TypeOK
<1>3. exe'[t].by = exe[t].by \ {m} /\ exe'[t].from = exe[t].from /\ exe'[t].also = exe[t].also
      /\ exe'[t].raced = (exe[t].raced \/ read[m][t].hit)
      /\ exe'[t].kind = (IF exe[t].from = 0 THEN "mixed" ELSE read[m][t].kind)
  BY <1>1 DEF Finished
<1>4. \A j \in exe'[t].by : j \in exe[t].by /\ read'[j][t] = read[j][t]
  BY <1>1, <1>2, <1>3
<1>5. exe'[t].also # 0 => \A j \in exe'[t].by : /\ read'[j][t].from = exe'[t].from
                                                /\ read'[j][t].also = exe'[t].also
  BY <1>3, <1>4 DEF Writers, ExeWriters
<1>6. exe'[t].also = 0 => exe'[t].raced \/ \E j \in exe'[t].by : read'[j][t].hit \/ ~Linkable(j, t)'
  <2>1. exe[t].also = 0 => exe[t].raced \/ \E j \in exe[t].by : read[j][t].hit \/ ~Linkable(j, t)
    BY <1>1 DEF Writers, ExeWriters
  <2>2. \A j \in exe[t].by : j = m \/ (j \in exe'[t].by /\ read'[j][t] = read[j][t])
    BY <1>3, <1>4
  <2> QED BY <1>1, <1>3, <2>1, <2>2 DEF Linkable
<1>7. exe'[t].kind = "mixed" => exe'[t].from = 0
  <2>1. CASE exe[t].from # 0
    <3>1. exe[t].also # 0
      BY <2>1 DEF Owned, WellFormed, FormedAt
    <3>2. read[m][t].from # 0
      BY <2>1, <3>1 DEF Writers, ExeWriters
    <3>3. read[m][t].kind # "mixed"
      BY <3>2 DEF Owned, WellRead, ReadAt
    <3> QED BY <1>3, <2>1, <3>3
  <2> QED BY <1>3, <2>1
<1> QED BY <1>5, <1>6, <1>7 DEF ExeWriters

LEMMA WritersNext == Owned /\ Owned' /\ InFlight /\ Writers /\ [Next]_vars => Writers'
<1> SUFFICES ASSUME Owned, Owned', InFlight, Writers, [Next]_vars, NEW u \in Target
             PROVE  ObjectWriters(u)' /\ ExeWriters(u)'
  BY DEF Writers
<1>o. /\ TypeOK /\ ObjectWriters(u) /\ ExeWriters(u)
      /\ object[u].by \subseteq Maker /\ exe[u].by \subseteq Maker
  BY DEF Owned, Writers, TypeOK, File
<1>p. /\ \A m \in object[u].by : stage[m][u] = "write"
      /\ \A m \in exe[u].by : stage[m][u] = "link"
      /\ \A m \in object'[u].by : stage'[m][u] = "write"
      /\ \A m \in exe'[u].by : stage'[m][u] = "link"
  BY DEF Owned, NoPartialLeft
<1>1. CASE (\E s \in Src : Edit(s)) \/ EditHeader \/ ReplaceArchives
  BY <1>o, <1>1, UserFrame, WritersKept
<1>2. ASSUME NEW m \in Maker, Start(m) PROVE ObjectWriters(u)' /\ ExeWriters(u)'
  <2>1. UNCHANGED <<object, exe, read>>
    BY <1>2 DEF Start
  <2> QED BY <1>o, <2>1, WritersKept DEF SameReading
<1>3. ASSUME NEW m \in Maker, NEW t \in Target, Recipe(m, t) PROVE ObjectWriters(u)' /\ ExeWriters(u)'
  <2>0. \A j \in Maker : j # m \/ u # t =>
          SameReading(read'[j][u], read[j][u]) /\ (read[j][u].hit => read'[j][u].hit)
    BY <1>3, <1>o, RecipeFrame
  <2>1. CASE u # t
    <3>1. object'[u] = object[u] /\ exe'[u] = exe[u]
      BY <1>3, <1>o, <2>1, RecipeFrame
    <3> QED BY <1>o, <2>0, <2>1, <3>1, WritersKept
  <2>2. ASSUME u = t, \/ m \notin object[t].by /\ m \notin exe[t].by
                      \/ SameReading(read'[m][t], read[m][t]) /\ (read[m][t].hit => read'[m][t].hit)
        PROVE  /\ object'[t] = object[t] => ObjectWriters(u)'
               /\ exe'[t] = exe[t] => ExeWriters(u)'
    <3>1. \A j \in object[u].by \cup exe[u].by :
            SameReading(read'[j][u], read[j][u]) /\ (read[j][u].hit => read'[j][u].hit)
      BY <1>o, <2>0, <2>2
    <3> QED BY <1>o, <2>2, <3>1, WritersKept
  <2>3. CASE u = t
    <3>1. CASE Skip(m, t) \/ Compile(m, t) \/ CompileFails(m, t)
      <4>1. stage[m][t] \in {"wait", "compile"} /\ object'[t] = object[t] /\ exe'[t] = exe[t]
        BY <1>o, <3>1 DEF Skip, Compile, CompileFails, AfterCompileFails, Consider, Ends, TypeOK
      <4> QED BY <1>p, <2>2, <2>3, <4>1
    <3>2. CASE Assemble(m, t)
      <4>1. SameReading(read'[m][t], read[m][t]) /\ (read[m][t].hit => read'[m][t].hit) /\ UNCHANGED exe
        BY <1>o, <3>2, HitKeeps DEF Assemble
      <4> QED BY <2>2, <2>3, <3>2, <4>1, AssembleWriters
    <3>3. CASE Compiled(m, t)
      <4>1. stage[m][t] = "write" /\ UNCHANGED exe /\ m \notin exe[t].by
        BY <1>p, <2>3, <3>3 DEF Compiled
      <4>2. \A j \in exe[u].by : SameReading(read'[j][u], read[j][u]) /\ (read[j][u].hit => read'[j][u].hit)
        BY <1>o, <2>0, <2>3, <4>1
      <4>3. ExeWriters(u)'
        BY <1>o, <4>1, <4>2 DEF ExeWriters, SameReading, Linkable
      <4>4. CASE m \in object[t].by
        BY <2>3, <3>3, <4>3, <4>4, CompiledWriters
      <4>5. CASE m \notin object[t].by
        BY <2>2, <2>3, <3>3, <4>1, <4>3, <4>5 DEF Compiled
      <4> QED BY <4>4, <4>5
    <3>4. CASE Relink(m, t) \/ Link(m, t)
      <4>1. stage[m][t] \in {"wait", "exe"} /\ UNCHANGED object
        BY <3>4 DEF Relink, Link, Consider
      <4> QED BY <1>p, <2>2, <2>3, <3>4, <4>1, RunLdWriters
    <3>5. CASE Linked(m, t) \/ LinkFails(m, t)
      <4>1. stage[m][t] = "link" /\ UNCHANGED object /\ m \notin object[t].by
        BY <1>p, <2>3, <3>5 DEF Linked, LinkFails
      <4>2. \A j \in object[u].by : SameReading(read'[j][u], read[j][u]) /\ (read[j][u].hit => read'[j][u].hit)
        BY <1>o, <2>0, <2>3, <4>1
      <4>3. ObjectWriters(u)'
        BY <1>o, <4>1, <4>2 DEF ObjectWriters, SameReading
      <4>4. CASE LinkFails(m, t)
        <5>1. exe'[t] = Absent
          BY <1>o, <4>4 DEF LinkFails, TypeOK
        <5> QED BY <2>3, <4>3, <5>1 DEF ExeWriters, Absent
      <4>5. CASE Linked(m, t) /\ m \in exe[t].by
        BY <2>3, <4>3, <4>5, LinkedWriters
      <4>6. CASE Linked(m, t) /\ m \notin exe[t].by
        BY <2>2, <2>3, <4>1, <4>3, <4>6 DEF Linked
      <4> QED BY <3>5, <4>4, <4>5, <4>6
    <3> QED BY <1>3, <3>1, <3>2, <3>3, <3>4, <3>5 DEF Recipe
  <2> QED BY <2>1, <2>3
<1>4. ASSUME NEW m \in Maker, Exit(m) \/ Interrupt(m) \/ CleanObjects(m) \/ CleanTargets(m)
      PROVE  ObjectWriters(u)' /\ ExeWriters(u)'
  <2>1. /\ object'[u] = object[u] \/ object'[u] = Absent
        /\ exe'[u] = exe[u] \/ exe'[u] = Absent
        /\ \A j \in Maker : stage'[j][u] \in {"compile", "write", "link"} => read'[j][u] = read[j][u]
    BY <1>4, <1>o, StopFrame
  <2>2. ObjectWriters(u)'
    <3>1. CASE object'[u] = Absent
      BY <3>1 DEF ObjectWriters, Absent
    <3>2. CASE object'[u] = object[u]
      <4>1. \A j \in object[u].by : read'[j][u] = read[j][u]
        BY <1>o, <1>p, <2>1, <3>2
      <4> QED BY <1>o, <3>2, <4>1 DEF ObjectWriters
    <3> QED BY <2>1, <3>1, <3>2
  <2>3. ExeWriters(u)'
    <3>1. CASE exe'[u] = Absent
      BY <3>1 DEF ExeWriters, Absent
    <3>2. CASE exe'[u] = exe[u]
      <4>1. \A j \in exe[u].by : read'[j][u] = read[j][u]
        BY <1>o, <1>p, <2>1, <3>2
      <4> QED BY <1>o, <3>2, <4>1 DEF ExeWriters, Linkable
    <3> QED BY <2>1, <3>1, <3>2
  <2> QED BY <2>2, <2>3
<1>5. CASE UNCHANGED vars
  BY <1>o, <1>5, WritersKept DEF vars, progress, SameReading
<1> QED BY <1>1, <1>2, <1>3, <1>4, <1>5 DEF Next, Working

(* The parts of StaleIsVisible and HeaderStaleIsOlder that concern one target. *)
ObjectFresh(t) ==
  object[t].by = {} =>
    /\ object[t].from # source[SourceOf[t]].at => ObjectOutdated(t) \/ object[t].raced
    /\ object[t].at # 0 /\ object[t].also # HeaderOf(t) => object[t].at < header \/ object[t].raced

ExeFresh(t) ==
  exe[t].by = {} /\ (exe[t].from # object[t].from \/ exe[t].also # archive) => ExeOutdated(t) \/ exe[t].raced

Fresh == \A t \in Target : ObjectFresh(t) /\ ExeFresh(t)

(* A file that is finished and not marked as hit was made from what is there. *)
LEMMA CompiledFresh ==
  ASSUME Owned, InFlight, Writers, Fresh, NEW m \in Maker, NEW t \in Target, Compiled(m, t)
  PROVE  ObjectFresh(t)' /\ ExeFresh(t)'
<1>o. TypeOK /\ ObjectFresh(t) /\ ExeFresh(t)
  BY DEF Owned, Fresh
<1>1. UNCHANGED <<source, header, archive, exe>> /\ stage[m][t] = "write"
  BY DEF Compiled, Ends, inputs
<1>2. CASE m \notin object[t].by
  <2>1. UNCHANGED object
    BY <1>2 DEF Compiled
  <2> QED BY <1>o, <1>1, <2>1 DEF ObjectFresh, ExeFresh, ObjectOutdated, ExeOutdated, HeaderOf
<1>3. CASE m \in object[t].by
  <2>1. object'[t] = Finished(m, t, object[t], now + 1) /\ object[t].at # 0
    BY <1>o, <1>3 DEF Compiled, TypeOK, Owned, WellFormed, FormedAt
  <2>2. object'[t].at = now + 1 /\ object'[t].from = object[t].from /\ object'[t].also = object[t].also
        /\ object'[t].by = object[t].by \ {m} /\ object'[t].raced = (object[t].raced \/ read[m][t].hit)
    BY <2>1 DEF Finished
  <2>3. ExeFresh(t)'
    <3>1. exe[t].at \in 0 .. now /\ now \in Nat
      BY <1>o DEF TypeOK, File
    <3> QED BY <1>1, <2>2, <3>1 DEF ExeFresh, ExeOutdated
  <2>4. ObjectFresh(t)'
    <3> SUFFICES ASSUME object'[t].by = {}, ~object'[t].raced
                 PROVE  object'[t].from = source[SourceOf[t]].at /\ object'[t].also = HeaderOf(t)
      BY <1>1 DEF ObjectFresh, HeaderOf
    <3>1. object[t].by = {m} /\ ~object[t].raced /\ ~read[m][t].hit
      BY <1>3, <2>2
    <3>2. object[t].from # 0
      BY <2>1, <3>1 DEF Writers, ObjectWriters
    <3>3. read[m][t].from = object[t].from /\ read[m][t].also = object[t].also
      BY <1>3, <3>2 DEF Writers, ObjectWriters
    <3>4. read[m][t].from = source[SourceOf[t]].at /\ read[m][t].also = HeaderOf(t)
      BY <1>1, <3>1 DEF InFlight, InFlightAt
    <3> QED BY <2>2, <3>3, <3>4
  <2> QED BY <2>3, <2>4
<1> QED BY <1>2, <1>3

LEMMA LinkedFresh ==
  ASSUME Owned, InFlight, Writers, Fresh, NEW m \in Maker, NEW t \in Target, Linked(m, t)
  PROVE  ObjectFresh(t)' /\ ExeFresh(t)'
<1>o. TypeOK /\ ObjectFresh(t) /\ ExeFresh(t)
  BY DEF Owned, Fresh
<1>1. UNCHANGED <<source, header, archive, object>> /\ stage[m][t] = "link" /\ Linkable(m, t)
  BY DEF Linked, Ends, inputs
<1>2. ObjectFresh(t)'
  BY <1>o, <1>1 DEF ObjectFresh, ObjectOutdated, HeaderOf
<1>3. CASE m \notin exe[t].by
  <2>1. UNCHANGED exe
    BY <1>3 DEF Linked
  <2> QED BY <1>o, <1>1, <1>2, <2>1 DEF ExeFresh, ObjectOutdated, ExeOutdated
<1>4. CASE m \in exe[t].by
  <2>1. exe'[t] = Finished(m, t, exe[t], now) /\ exe[t].at # 0
    BY <1>o, <1>4 DEF Linked, TypeOK, Owned, WellFormed, FormedAt
  <2>2. exe'[t].from = exe[t].from /\ exe'[t].also = exe[t].also
        /\ exe'[t].by = exe[t].by \ {m} /\ exe'[t].raced = (exe[t].raced \/ read[m][t].hit)
    BY <2>1 DEF Finished
  <2>3. CASE object[t].at = 0
    <3>1. ObjectOutdated(t)'
      BY <1>o, <1>1, <2>3, Rules DEF ObjectOutdated, TypeOK
    <3> QED BY <1>2, <3>1 DEF ExeFresh, ExeOutdated
  <2>4. CASE object[t].at # 0
    <3> SUFFICES ASSUME exe'[t].by = {}, ~exe'[t].raced
                 PROVE  exe'[t].from = object[t].from /\ exe'[t].also = archive
      BY <1>1, <1>2 DEF ExeFresh
    <3>1. exe[t].by = {m} /\ ~exe[t].raced /\ ~read[m][t].hit
      BY <1>4, <2>2
    <3>2. exe[t].also # 0
      BY <1>1, <2>1, <3>1 DEF Writers, ExeWriters
    <3>3. read[m][t].from = exe[t].from /\ read[m][t].also = exe[t].also
      BY <1>4, <3>2 DEF Writers, ExeWriters
    <3>4. read[m][t].also = archive /\ object[t].from = read[m][t].from
      BY <1>1, <2>4, <3>1 DEF InFlight, InFlightAt
    <3> QED BY <2>2, <3>3, <3>4
  <2> QED BY <2>3, <2>4
<1> QED BY <1>3, <1>4

LEMMA FreshNext == Owned /\ Owned' /\ InFlight /\ Writers /\ Fresh /\ [Next]_vars => Fresh'
<1> SUFFICES ASSUME Owned, Owned', InFlight, Writers, Fresh, [Next]_vars, NEW u \in Target
             PROVE  ObjectFresh(u)' /\ ExeFresh(u)'
  BY DEF Fresh
<1>o. TypeOK /\ ObjectFresh(u) /\ ExeFresh(u)
  BY DEF Owned, Fresh
<1>t. /\ now \in Nat /\ SourceOf[u] \in Src /\ header \in 1 .. now /\ archive \in 1 .. now
      /\ source[SourceOf[u]].at \in 1 .. now /\ object[u].at \in 0 .. now /\ exe[u].at \in 0 .. now
  BY <1>o, Rules DEF TypeOK, File
<1>s. UNCHANGED <<source, header, archive>> /\ object'[u] = object[u] /\ exe'[u] = exe[u]
        => ObjectFresh(u)' /\ ExeFresh(u)'
  BY <1>o DEF ObjectFresh, ExeFresh, ObjectOutdated, ExeOutdated, HeaderOf
<1>1. ASSUME NEW s \in Src, Edit(s) PROVE ObjectFresh(u)' /\ ExeFresh(u)'
  <2>1. UNCHANGED <<header, archive, object, exe>>
    BY <1>1 DEF Edit, UserWrites
  <2>2. CASE SourceOf[u] # s
    <3>1. source'[SourceOf[u]] = source[SourceOf[u]]
      BY <1>o, <1>1, <2>2 DEF Edit, TypeOK
    <3> QED BY <1>o, <2>1, <3>1 DEF ObjectFresh, ExeFresh, ObjectOutdated, ExeOutdated, HeaderOf
  <2>3. CASE SourceOf[u] = s
    <3>1. source'[SourceOf[u]].at = now + 1
      BY <1>o, <1>1, <2>3 DEF Edit, UserWrites, Saved, TypeOK
    <3>2. ObjectOutdated(u)'
      BY <1>t, <2>1, <3>1 DEF ObjectOutdated
    <3> QED BY <1>o, <2>1, <3>2 DEF ObjectFresh, ExeFresh, ExeOutdated, HeaderOf
  <2> QED BY <2>2, <2>3
<1>2. CASE EditHeader
  <2>1. UNCHANGED <<source, archive, object, exe>> /\ header' = now + 1
    BY <1>2 DEF EditHeader, UserWrites
  <2> QED BY <1>o, <1>t, <2>1 DEF ObjectFresh, ExeFresh, ObjectOutdated, ExeOutdated, HeaderOf
<1>3. CASE ReplaceArchives
  <2>1. UNCHANGED <<source, header, object, exe>> /\ archive' = now + 1
    BY <1>3 DEF ReplaceArchives, UserWrites
  <2> QED BY <1>o, <1>t, <2>1 DEF ObjectFresh, ExeFresh, ObjectOutdated, ExeOutdated, HeaderOf
<1>4. ASSUME NEW m \in Maker, Start(m) PROVE ObjectFresh(u)' /\ ExeFresh(u)'
  BY <1>s, <1>4 DEF Start, inputs
<1>5. ASSUME NEW m \in Maker, NEW t \in Target, Recipe(m, t) PROVE ObjectFresh(u)' /\ ExeFresh(u)'
  <2>0. UNCHANGED <<source, header, archive>> /\ (u # t => object'[u] = object[u] /\ exe'[u] = exe[u])
    BY <1>o, <1>5, RecipeFrame
  <2>1. CASE u # t
    BY <1>s, <2>0, <2>1
  <2>2. CASE u = t
    <3>1. CASE Skip(m, t) \/ Compile(m, t) \/ CompileFails(m, t)
      <4>1. object'[t] = object[t] /\ exe'[t] = exe[t]
        BY <1>o, <3>1 DEF Skip, Compile, CompileFails, AfterCompileFails, Consider, Ends, TypeOK
      <4> QED BY <1>s, <2>0, <2>2, <4>1
    <3>2. CASE Assemble(m, t)
      <4>1. PICK g \in Opened(m, t, object[t], read[m][t], now + 1) : object' = [object EXCEPT ![t] = g]
        BY <3>2 DEF Assemble
      <4>2. m \in g.by /\ g.at = now + 1
        BY OpenedForms DEF NewFile, Shared
      <4>3. object'[t] = g /\ UNCHANGED exe
        BY <1>o, <3>2, <4>1 DEF Assemble, TypeOK
      <4>4. ObjectFresh(u)'
        BY <2>2, <4>2, <4>3 DEF ObjectFresh
      <4>5. ExeOutdated(u)'
        BY <1>t, <2>2, <4>2, <4>3 DEF ExeOutdated
      <4> QED BY <4>4, <4>5 DEF ExeFresh
    <3>3. CASE Compiled(m, t)
      BY <2>2, <3>3, CompiledFresh
    <3>4. CASE Relink(m, t) \/ Link(m, t)
      <4>1. PICK g \in Opened(m, t, exe[t], LdReads(t), now) : exe' = [exe EXCEPT ![t] = g]
        BY <3>4 DEF Relink, Link, RunLd
      <4>2. m \in g.by
        BY OpenedForms DEF NewFile, Shared
      <4>3. exe'[t] = g /\ UNCHANGED object
        BY <1>o, <3>4, <4>1 DEF Relink, Link, Consider, TypeOK
      <4> QED BY <1>o, <2>0, <2>2, <4>2, <4>3 DEF ObjectFresh, ExeFresh, ObjectOutdated, HeaderOf
    <3>5. CASE Linked(m, t)
      BY <2>2, <3>5, LinkedFresh
    <3>6. CASE LinkFails(m, t)
      <4>1. exe'[t] = Absent /\ UNCHANGED object
        BY <1>o, <3>6 DEF LinkFails, TypeOK
      <4>2. ExeOutdated(u)'
        BY <1>t, <2>0, <2>2, <4>1 DEF ExeOutdated, Absent
      <4> QED BY <1>o, <2>0, <2>2, <4>1, <4>2 DEF ObjectFresh, ExeFresh, ObjectOutdated, HeaderOf
    <3> QED BY <1>5, <3>1, <3>2, <3>3, <3>4, <3>5, <3>6 DEF Recipe
  <2> QED BY <2>1, <2>2
<1>6. ASSUME NEW m \in Maker, Exit(m) \/ Interrupt(m) \/ CleanObjects(m) \/ CleanTargets(m)
      PROVE  ObjectFresh(u)' /\ ExeFresh(u)'
  <2>1. /\ UNCHANGED <<source, header, archive>>
        /\ object'[u] = object[u] \/ object'[u] = Absent
        /\ exe'[u] = exe[u] \/ exe'[u] = Absent
    BY <1>o, <1>6, StopFrame
  <2>2. CASE object'[u] = Absent
    <3>1. object'[u].at = 0 /\ ObjectOutdated(u)'
      BY <1>t, <2>1, <2>2 DEF ObjectOutdated, Absent
    <3> QED BY <3>1 DEF ObjectFresh, ExeFresh, ExeOutdated
  <2>3. CASE object'[u] = object[u] /\ exe'[u] = Absent
    <3>1. ExeOutdated(u)'
      BY <1>t, <2>1, <2>3 DEF ExeOutdated, Absent
    <3> QED BY <1>o, <2>1, <2>3, <3>1 DEF ObjectFresh, ExeFresh, ObjectOutdated, HeaderOf
  <2> QED BY <1>s, <2>1, <2>2, <2>3
<1>7. CASE UNCHANGED vars
  BY <1>s, <1>7 DEF vars, inputs
<1> QED BY <1>1, <1>2, <1>3, <1>4, <1>5, <1>6, <1>7 DEF Next, Working

LEMMA FreshInvariant == Spec => [](InFlight /\ Writers /\ Fresh)
<1>1. Init => InFlight /\ Writers /\ Fresh
  <2>1. Init => InFlight
    BY DEF Init, InFlight, InFlightAt
  <2>2. Init => Writers
    BY DEF Init, Writers, ObjectWriters, ExeWriters, Absent
  <2>3. Init => Fresh
    BY Rules DEF Init, Fresh, ObjectFresh, ExeFresh, ObjectOutdated, ExeOutdated, Absent
  <2> QED BY <2>1, <2>2, <2>3
<1> QED BY <1>1, OwnedInvariant, InFlightNext, WritersNext, FreshNext, PTL DEF Spec

(* A finished file that is stale shows it by its time, unless an input of it was
   written while a recipe that wrote it ran (Makefile:18-44). *)
THEOREM StalenessIsVisible == Spec => []StaleIsVisible
<1>1. Fresh => StaleIsVisible
  BY DEF Fresh, ObjectFresh, ExeFresh, StaleIsVisible
<1> QED BY <1>1, FreshInvariant, PTL

(* A finished object of an older header is older than the header, unless the
   header or the source was saved while it was being made: then it is as new as
   the header and stale all the same (Makefile:18-25). *)
THEOREM HeaderStalenessIsOld == Spec => []HeaderStaleIsOlder
<1>1. Fresh => HeaderStaleIsOlder
  BY DEF Fresh, ObjectFresh, HeaderStaleIsOlder
<1> QED BY <1>1, FreshInvariant, PTL
-----------------------------------------------------------------------------
(* A quiet make is alone, what it remembers is current, and it has brought
   each target as far as its stage says. *)
Alone == \A m \in Maker : quiet[m] => \A j \in Maker : j # m => ~Active(j)

Current(t) == ~ObjectOutdated(t) /\ ~ExeOutdated(t) /\ exe[t].by = {}

Stands(m, t) ==
  /\ stage[m][t] = "write" => object[t].by = {m}
  /\ stage[m][t] = "link" => exe[t].by = {m}
  /\ run[m] = "all" /\ stage[m][t] \in {"exe", "link"} => ~ObjectOutdated(t)
  /\ run[m] \in {"all", "ok"} /\ stage[m][t] = "done" => Current(t)

Progress ==
  \A m \in Maker : quiet[m] =>
    /\ run[m] # "clean"
    /\ \A p \in Prereq : seen[m][p] # 0 => seen[m][p] = Written(p)
    /\ \A t \in Target : Stands(m, t)

(* Where the files of t stay, so does what m has made of it. *)
LEMMA StandsKept ==
  ASSUME NEW m \in Maker, NEW t \in Target, Stands(m, t),
         UNCHANGED source, UNCHANGED archive, object'[t] = object[t], exe'[t] = exe[t],
         stage'[m][t] = stage[m][t], run[m] = run'[m] \/ run'[m] \notin {"all", "ok"}
  PROVE  Stands(m, t)'
BY DEF Stands, Current, ObjectOutdated, ExeOutdated

(* A step of the recipe of t, by a make that is alone. *)
LEMMA RecipeStands ==
  ASSUME Owned, NEW m \in Maker, NEW t \in Target, Recipe(m, t), Stands(m, t),
         \A p \in Prereq : seen[m][p] # 0 => seen[m][p] = Written(p),
         \A j \in Maker : j # m => ~Active(j)
  PROVE  Stands(m, t)'
<1>t. /\ TypeOK /\ now \in Nat /\ SourceOf[t] \in Src /\ SourceOf[t] # "archives" /\ archive \in 1 .. now
      /\ source[SourceOf[t]].at \in 1 .. now /\ object[t].at \in 0 .. now /\ exe[t].at \in 0 .. now
      /\ object[t].by \subseteq Maker /\ exe[t].by \subseteq Maker
  BY Rules DEF Owned, TypeOK, File
<1>b. /\ object[t].by \subseteq {m} /\ m \in object[t].by => stage[m][t] = "write"
      /\ exe[t].by \subseteq {m} /\ m \in exe[t].by => stage[m][t] = "link"
  BY <1>t DEF Owned, NoPartialLeft
<1>c. object[t].by \subseteq {m} /\ exe[t].by \subseteq {m}
  BY <1>t DEF Owned, NoPartialLeft
<1>l. \A p \in {SourceOf[t], "archives"} : Look(m, t)[p] = Written(p)
  BY <1>t DEF Look, Prereq
<1>w. Written(SourceOf[t]) = source[SourceOf[t]].at /\ Written("archives") = archive
  BY <1>t DEF Written
<1>1. CASE Skip(m, t)
  <2>1. /\ UNCHANGED <<source, archive>> /\ object'[t] = object[t] /\ exe'[t] = exe[t] /\ stage'[m][t] = "done"
        /\ ~OlderObject(t, Look(m, t)) /\ ~OlderExe(t, Look(m, t)) /\ stage[m][t] = "wait"
    BY <1>t, <1>1 DEF Skip, Consider, inputs, TypeOK
  <2>2. ~ObjectOutdated(t) /\ ~ExeOutdated(t)
    BY <1>l, <1>w, <2>1 DEF OlderObject, OlderExe, ObjectOutdated, ExeOutdated
  <2>3. exe[t].by = {}
    BY <1>c, <2>1 DEF Owned, NoPartialLeft
  <2> QED BY <2>1, <2>2, <2>3 DEF Stands, Current, ObjectOutdated, ExeOutdated
<1>2. CASE Compile(m, t)
  BY <1>t, <1>2 DEF Compile, Consider, TypeOK, Stands
<1>3. CASE Assemble(m, t)
  <2>1. PICK g \in Opened(m, t, object[t], read[m][t], now + 1) : object' = [object EXCEPT ![t] = g]
    BY <1>3 DEF Assemble
  <2>2. m \in g.by /\ g.by \subseteq object[t].by \cup {m}
    BY OpenedForms DEF NewFile, Shared
  <2>3. object'[t] = g /\ stage'[m][t] = "write"
    BY <1>t, <1>3, <2>1 DEF Assemble, TypeOK
  <2>4. object'[t].by = {m}
    BY <1>c, <2>2, <2>3
  <2> QED BY <2>3, <2>4 DEF Stands
<1>4. CASE Compiled(m, t)
  <2>1. object[t].by = {m} /\ stage'[m][t] = "exe" /\ UNCHANGED source
    BY <1>t, <1>4 DEF Compiled, Ends, Stands, TypeOK, inputs
  <2>2. object'[t] = Finished(m, t, object[t], now + 1)
    BY <1>t, <1>4, <2>1 DEF Compiled, TypeOK
  <2>3. object'[t].at = now + 1
    BY <2>2 DEF Finished
  <2>4. ~ObjectOutdated(t)'
    BY <1>t, <2>1, <2>3 DEF ObjectOutdated
  <2> QED BY <2>1, <2>4 DEF Stands
<1>5. CASE CompileFails(m, t)
  BY <1>t, <1>5 DEF CompileFails, Ends, TypeOK, Stands
<1>6. CASE Relink(m, t) \/ Link(m, t)
  <2>1. PICK g \in Opened(m, t, exe[t], LdReads(t), now) : exe' = [exe EXCEPT ![t] = g]
    BY <1>6 DEF Relink, Link, RunLd
  <2>2. m \in g.by /\ g.by \subseteq exe[t].by \cup {m}
    BY OpenedForms DEF NewFile, Shared
  <2>3. exe'[t] = g /\ stage'[m][t] = "link" /\ UNCHANGED <<source, object>>
    BY <1>t, <1>6, <2>1 DEF Relink, Link, Consider, RunLd, TypeOK, inputs
  <2>4. exe'[t].by = {m}
    BY <1>c, <2>2, <2>3
  <2>5. ~ObjectOutdated(t)
    <3>1. CASE Relink(m, t)
      BY <1>l, <1>w, <3>1 DEF Relink, OlderObject, ObjectOutdated
    <3>2. CASE Link(m, t)
      BY <3>2 DEF Link, Stands
    <3> QED BY <1>6, <3>1, <3>2
  <2> QED BY <2>3, <2>4, <2>5 DEF Stands, ObjectOutdated
<1>7. CASE Linked(m, t)
  <2>1. exe[t].by = {m} /\ stage'[m][t] = "done" /\ UNCHANGED <<source, archive, object, run>>
        /\ stage[m][t] = "link"
    BY <1>t, <1>7 DEF Linked, Ends, Stands, TypeOK, inputs
  <2>2. exe'[t] = Finished(m, t, exe[t], now)
    BY <1>t, <1>7, <2>1 DEF Linked, TypeOK
  <2>3. exe'[t].at = now /\ exe'[t].by = {}
    BY <2>1, <2>2 DEF Finished
  <2>4. run[m] = "all" => Current(t)'
    BY <1>t, <2>1, <2>3 DEF Stands, Current, ObjectOutdated, ExeOutdated
  <2>5. run[m] # "ok"
    BY <2>1 DEF Owned, Resting
  <2> QED BY <2>1, <2>4, <2>5 DEF Stands
<1>8. CASE LinkFails(m, t)
  BY <1>t, <1>8 DEF LinkFails, Ends, TypeOK, Stands
<1> QED BY <1>1, <1>2, <1>3, <1>4, <1>5, <1>6, <1>7, <1>8 DEF Recipe

LEMMA ProgressNext == Owned /\ Alone /\ Progress /\ [Next]_vars => (Alone /\ Progress)'
<1> SUFFICES ASSUME Owned, Alone, Progress, [Next]_vars PROVE (Alone /\ Progress)'
  OBVIOUS
<1>o. TypeOK
  BY DEF Owned
<1>n. (\A m \in Maker : ~quiet'[m]) => (Alone /\ Progress)'
  BY DEF Alone, Progress
<1>1. CASE (\E s \in Src : Edit(s)) \/ EditHeader \/ ReplaceArchives
  BY <1>o, <1>n, <1>1, UserFrame
<1>2. ASSUME NEW m \in Maker, Start(m) PROVE (Alone /\ Progress)'
  <2>1. \A k \in Maker : quiet'[k] => k = m /\ \A j \in Maker : ~Active(j)
    BY <1>2 DEF Start
  <2>2. /\ run'[m] = "all" /\ \A j \in Maker : j # m => run'[j] = run[j]
        /\ \A u \in Target : stage'[m][u] \in {"none", "wait"}
        /\ UNCHANGED seen
    BY <1>o, <1>2 DEF Start, TypeOK
  <2>3. \A p \in Prereq : seen[m][p] = 0
    BY <1>2 DEF Start, Active, Owned, Resting
  <2>4. Alone'
    BY <2>1, <2>2 DEF Alone, Active
  <2>5. Progress'
    BY <2>1, <2>2, <2>3 DEF Progress, Stands
  <2> QED BY <2>4, <2>5
<1>3. ASSUME NEW m \in Maker, NEW t \in Target, Recipe(m, t) PROVE (Alone /\ Progress)'
  <2>1. run[m] \in {"all", "failing"} /\ run'[m] \in {"all", "failing"} /\ (run'[m] = run[m] \/ run'[m] = "failing")
    <3>1. stage[m][t] \notin {"none", "done"}
      BY <1>3 DEF Recipe, Skip, Compile, Relink, Consider, Assemble, Compiled, CompileFails, Link, Linked, LinkFails
    <3>2. run[m] \in {"all", "failing"}
      BY <3>1 DEF Owned, Resting
    <3> QED BY <1>3, <1>o, <3>2 DEF TypeOK, Recipe, Skip, Compile, Relink, Consider, Assemble, Compiled, CompileFails,
                                    Link, Linked, LinkFails
  <2>2. \A j \in Maker : quiet[j] => j = m
    BY <2>1 DEF Alone, Active
  <2>3. /\ UNCHANGED <<source, archive, quiet>>
        /\ \A u \in Target : u # t => /\ object'[u] = object[u] /\ exe'[u] = exe[u]
                                      /\ stage'[m][u] = stage[m][u]
        /\ \A j \in Maker : j # m => run'[j] = run[j]
    BY <1>3, <1>o, RecipeFrame
  <2>4. Alone'
    BY <2>1, <2>2, <2>3 DEF Alone, Active
  <2>5. ASSUME quiet[m]
        PROVE  /\ \A p \in Prereq : seen'[m][p] # 0 => seen'[m][p] = Written(p)'
               /\ \A u \in Target : Stands(m, u)'
    <3>1. /\ \A p \in Prereq : seen[m][p] # 0 => seen[m][p] = Written(p)
          /\ \A u \in Target : Stands(m, u)
          /\ \A j \in Maker : j # m => ~Active(j)
      BY <2>5 DEF Progress, Alone
    <3>2. Stands(m, t)'
      BY <1>3, <3>1, RecipeStands
    <3>3. \A u \in Target : u # t => Stands(m, u)'
      BY <2>1, <2>3, <3>1, StandsKept
    <3>4. \A p \in Prereq : Written(p)' = Written(p)
      BY <2>3 DEF Written
    <3>5. seen'[m] = seen[m] \/ seen'[m] = Look(m, t)
      BY <1>3, <1>o DEF TypeOK, Recipe, Skip, Compile, Relink, Consider, Assemble, Compiled, CompileFails,
                        Link, Linked, LinkFails, Ends
    <3> QED BY <3>1, <3>2, <3>3, <3>4, <3>5 DEF Look
  <2>6. Progress'
    BY <2>1, <2>2, <2>3, <2>5 DEF Progress
  <2> QED BY <2>4, <2>6
<1>4. ASSUME NEW m \in Maker, Exit(m) \/ Interrupt(m) PROVE (Alone /\ Progress)'
  <2>1. Active(m)
    BY <1>4 DEF Exit, Interrupt, Active
  <2>2. \A j \in Maker : quiet[j] => j = m
    BY <2>1 DEF Alone
  <2>3. UNCHANGED <<source, archive, quiet>> /\ ~Active(m)' /\ run'[m] \in {"ok", "error"}
        /\ (\A p \in Prereq : seen'[m][p] = 0) /\ \A j \in Maker : j # m => run'[j] = run[j]
    BY <1>4, <1>o DEF Exit, Interrupt, Fails, Stops, Active, TypeOK, inputs
  <2>4. Alone'
    BY <2>2, <2>3 DEF Alone, Active
  <2>5. quiet[m] => \A u \in Target : Stands(m, u)'
    <3>1. CASE Interrupt(m) \/ (Exit(m) /\ run[m] = "failing")
      <4>1. \A u \in Target : stage'[m][u] = "none"
        BY <1>o, <3>1 DEF Exit, Interrupt, Fails, TypeOK
      <4> QED BY <4>1 DEF Stands
    <3>2. CASE Exit(m) /\ run[m] = "all"
      <4>1. UNCHANGED <<source, archive, object, exe, stage>> /\ run[m] = "all"
        BY <3>2 DEF Exit, Stops, inputs
      <4>2. quiet[m] => \A u \in Target : Stands(m, u)
        BY DEF Progress
      <4> QED BY <4>1, <4>2 DEF Stands, Current, ObjectOutdated, ExeOutdated
    <3> QED BY <1>4, <3>1, <3>2 DEF Exit
  <2> QED BY <2>2, <2>3, <2>4, <2>5 DEF Progress
<1>5. ASSUME NEW m \in Maker, CleanObjects(m) PROVE (Alone /\ Progress)'
  BY <1>n, <1>5 DEF CleanObjects
<1>6. ASSUME NEW m \in Maker, CleanTargets(m) PROVE (Alone /\ Progress)'
  <2>1. Active(m) /\ run[m] = "clean" /\ UNCHANGED quiet
    BY <1>6 DEF CleanTargets, Active
  <2>2. \A j \in Maker : ~quiet[j]
    BY <2>1 DEF Alone, Progress
  <2> QED BY <1>n, <2>1, <2>2
<1>7. CASE UNCHANGED vars
  BY <1>7 DEF vars, inputs, progress, Alone, Progress, Active, Stands, Current, ObjectOutdated, ExeOutdated, Written
<1> QED BY <1>1, <1>2, <1>3, <1>4, <1>5, <1>6, <1>7 DEF Next, Working

LEMMA ProgressInvariant == Spec => [](Alone /\ Progress)
<1>1. Init => Alone /\ Progress
  BY DEF Init, Alone, Progress
<1> QED BY <1>1, OwnedInvariant, ProgressNext, PTL DEF Spec
-----------------------------------------------------------------------------
(* Whatever is read, compiled or linked as a text that builds is one of those
   the source has had; the current one is among them exactly if it builds. *)
Builds(t, f) == f \in source[SourceOf[t]].built

Provenance ==
  /\ \A s \in Src : source[s].at \in source[s].built <=> source[s].kind = "good"
  /\ \A m \in Maker, t \in Target :
       stage[m][t] \in {"compile", "write", "link"} /\ read[m][t].kind = "good" =>
         /\ Builds(t, read[m][t].from)
         /\ stage[m][t] = "link" => read[m][t].also \in 1 .. archive
  /\ \A t \in Target :
       /\ object[t].kind = "good" => Builds(t, object[t].from)
       /\ exe[t].by = {} /\ exe[t].kind = "good" =>
            Builds(t, exe[t].from) /\ exe[t].also \in 1 .. archive

(* What an edit saves is in the history if it builds, and nothing leaves it. *)
LEMMA EditRemembers ==
  ASSUME TypeOK, Provenance, NEW s \in Src, Edit(s)
  PROVE  \A r \in Src : /\ source[r].built \subseteq source'[r].built
                        /\ source'[r].at \in source'[r].built <=> source'[r].kind = "good"
<1>1. PICK k \in {"good", "syntax", "link"} : source' = [source EXCEPT ![s] = Saved(s, k, now + 1)]
  BY DEF Edit, UserWrites
<1> SUFFICES ASSUME NEW r \in Src
             PROVE  /\ source[r].built \subseteq source'[r].built
                    /\ source'[r].at \in source'[r].built <=> source'[r].kind = "good"
  OBVIOUS
<1>2. CASE r = s
  <2>1. source'[r] = Saved(s, k, now + 1)
    BY <1>1, <1>2 DEF TypeOK
  <2>2. now \in Nat /\ source[s].built \subseteq 1 .. now
    BY DEF TypeOK
  <2>3. now + 1 \notin source[s].built
    BY <2>2
  <2> QED BY <1>2, <2>1, <2>3 DEF Saved
<1>3. CASE r # s
  <2>1. source'[r] = source[r]
    BY <1>1, <1>3 DEF TypeOK
  <2> QED BY <2>1 DEF Provenance
<1> QED BY <1>2, <1>3

(* A step that starts no recipe and finishes no file keeps Provenance. *)
LEMMA ProvenanceKept ==
  ASSUME Owned, Provenance, archive' = archive \/ archive' = now + 1,
         \A s \in Src : /\ source[s].built \subseteq source'[s].built
                        /\ source'[s].at \in source'[s].built <=> source'[s].kind = "good",
         \A m \in Maker, t \in Target : stage'[m][t] \in {"compile", "write", "link"} =>
           stage'[m][t] = stage[m][t] /\ SameReading(read'[m][t], read[m][t]),
         \A t \in Target : /\ object'[t].kind = "good" => object'[t] = object[t]
                           /\ exe'[t].by = {} /\ exe'[t].kind = "good" => exe'[t] = exe[t]
  PROVE  Provenance'
<1>1. ASSUME NEW t \in Target, NEW f, Builds(t, f) PROVE Builds(t, f)'
  BY <1>1, Rules DEF Builds
<1>2. \A a : a \in 1 .. archive => a \in 1 .. archive'
  BY DEF Owned, TypeOK
<1>3. ASSUME NEW m \in Maker, NEW t \in Target,
             stage'[m][t] \in {"compile", "write", "link"}, read'[m][t].kind = "good"
      PROVE  /\ Builds(t, read[m][t].from)'
             /\ stage'[m][t] = "link" => read'[m][t].also \in 1 .. archive'
  <2>1. stage[m][t] = stage'[m][t] /\ SameReading(read'[m][t], read[m][t])
    BY <1>3
  <2>2. Builds(t, read[m][t].from) /\ (stage[m][t] = "link" => read[m][t].also \in 1 .. archive)
    BY <1>3, <2>1 DEF Provenance, SameReading
  <2>3. Builds(t, read[m][t].from)'
    BY <1>1, <2>1, <2>2 DEF SameReading
  <2> QED BY <1>2, <2>1, <2>2, <2>3 DEF SameReading
<1>4. ASSUME NEW t \in Target
      PROVE  /\ object'[t].kind = "good" => Builds(t, object[t].from)'
             /\ exe'[t].by = {} /\ exe'[t].kind = "good" =>
                  Builds(t, exe[t].from)' /\ exe'[t].also \in 1 .. archive'
  BY <1>1, <1>2 DEF Provenance
<1> QED BY <1>3, <1>4 DEF Provenance

(* A step of the recipe of t in m, and what has to be shown of what it leaves. *)
LEMMA ProvenanceStep ==
  ASSUME Owned, Provenance, NEW m \in Maker, NEW t \in Target,
         UNCHANGED source, UNCHANGED archive,
         \A j \in Maker, u \in Target : j # m \/ u # t =>
           stage'[j][u] = stage[j][u] /\ SameReading(read'[j][u], read[j][u]),
         stage'[m][t] \in {"compile", "write", "link"} /\ read'[m][t].kind = "good" =>
           /\ Builds(t, read'[m][t].from)
           /\ stage'[m][t] = "link" => read'[m][t].also \in 1 .. archive,
         \A u \in Target : object'[u].kind = "good" /\ object'[u] # object[u] => Builds(u, object'[u].from),
         \A u \in Target : exe'[u].by = {} /\ exe'[u].kind = "good" /\ exe'[u] # exe[u] =>
           Builds(u, exe'[u].from) /\ exe'[u].also \in 1 .. archive
  PROVE  Provenance'
<1>1. ASSUME NEW j \in Maker, NEW u \in Target,
             stage'[j][u] \in {"compile", "write", "link"}, read'[j][u].kind = "good"
      PROVE  /\ Builds(u, read'[j][u].from)
             /\ stage'[j][u] = "link" => read'[j][u].also \in 1 .. archive
  <2>1. CASE j = m /\ u = t
    BY <1>1, <2>1
  <2>2. CASE j # m \/ u # t
    BY <1>1, <2>2 DEF Provenance, SameReading
  <2> QED BY <2>1, <2>2
<1>2. ASSUME NEW u \in Target
      PROVE  /\ object'[u].kind = "good" => Builds(u, object'[u].from)
             /\ exe'[u].by = {} /\ exe'[u].kind = "good" =>
                  Builds(u, exe'[u].from) /\ exe'[u].also \in 1 .. archive
  BY DEF Provenance
<1> QED BY <1>1, <1>2 DEF Provenance, Builds

LEMMA ProvenanceNext == Owned /\ Writers /\ Provenance /\ [Next]_vars => Provenance'
<1> SUFFICES ASSUME Owned, Writers, Provenance, [Next]_vars PROVE Provenance'
  OBVIOUS
<1>o. TypeOK /\ WellFormed
  BY DEF Owned
<1>s. \A m \in Maker, t \in Target : SameReading(read[m][t], read[m][t])
  BY DEF SameReading
<1>u. UNCHANGED source => \A s \in Src : /\ source[s].built \subseteq source'[s].built
                                        /\ source'[s].at \in source'[s].built <=> source'[s].kind = "good"
  BY DEF Provenance
<1> USE Rules DEF inputs
<1>1. ASSUME NEW s \in Src, Edit(s) PROVE Provenance'
  <2>1. \A r \in Src : /\ source[r].built \subseteq source'[r].built
                       /\ source'[r].at \in source'[r].built <=> source'[r].kind = "good"
    BY <1>1, <1>o, EditRemembers
  <2>2. UNCHANGED <<archive, object, exe, stage>>
    BY <1>1 DEF Edit, UserWrites
  <2>3. \A m \in Maker, t \in Target : SameReading(read'[m][t], read[m][t])
    BY <1>1, <1>o, UserFrame
  <2> QED BY <2>1, <2>2, <2>3, ProvenanceKept
<1>2. CASE EditHeader \/ ReplaceArchives
  <2>1. UNCHANGED <<source, object, exe, stage>> /\ (archive' = archive \/ archive' = now + 1)
    BY <1>2 DEF EditHeader, ReplaceArchives, UserWrites
  <2>2. \A m \in Maker, t \in Target : SameReading(read'[m][t], read[m][t])
    BY <1>2, <1>o, UserFrame
  <2> QED BY <1>u, <2>1, <2>2, ProvenanceKept
<1>3. ASSUME NEW m \in Maker, Start(m) PROVE Provenance'
  <2>1. UNCHANGED <<source, archive, object, exe, read>>
    BY <1>3 DEF Start
  <2>2. \A j \in Maker, t \in Target : stage'[j][t] \in {"compile", "write", "link"} => stage'[j][t] = stage[j][t]
    BY <1>3, <1>o DEF Start, TypeOK
  <2> QED BY <1>s, <1>u, <2>1, <2>2, ProvenanceKept
<1>4. ASSUME NEW m \in Maker, NEW t \in Target, Recipe(m, t) PROVE Provenance'
  <2>1. CASE Skip(m, t) \/ CompileFails(m, t)
    <3>1. \A u \in Target : object'[u] = object[u] /\ exe'[u] = exe[u]
      BY <2>1, <1>o DEF Skip, CompileFails, AfterCompileFails, Consider, Ends, TypeOK
    <3>2. /\ UNCHANGED <<source, archive>> /\ stage'[m][t] = "done"
          /\ \A j \in Maker, u \in Target : j # m \/ u # t =>
               stage'[j][u] = stage[j][u] /\ read'[j][u] = read[j][u]
      BY <2>1, <1>o DEF Skip, CompileFails, Consider, Ends, TypeOK
    <3> QED BY <1>s, <3>1, <3>2, ProvenanceStep
  <2>2. CASE Compile(m, t)
    <3>1. /\ UNCHANGED <<source, archive, object, exe>> /\ stage'[m][t] = "compile"
          /\ read'[m][t].from = source[SourceOf[t]].at /\ read'[m][t].kind = source[SourceOf[t]].kind
          /\ \A j \in Maker, u \in Target : j # m \/ u # t =>
               stage'[j][u] = stage[j][u] /\ read'[j][u] = read[j][u]
      BY <2>2, <1>o DEF Compile, Consider, TypeOK
    <3>2. source[SourceOf[t]].kind = "good" => Builds(t, source[SourceOf[t]].at)
      BY DEF Provenance, Builds
    <3> QED BY <1>s, <3>1, <3>2, ProvenanceStep
  <2>3. CASE Assemble(m, t)
    <3>1. PICK g \in Opened(m, t, object[t], read[m][t], now + 1) : object' = [object EXCEPT ![t] = g]
      BY <2>3 DEF Assemble
    <3>2. g.kind = "partial"
      BY OpenedForms DEF NewFile, Shared
    <3>3. /\ UNCHANGED <<source, archive, exe>> /\ stage'[m][t] = "write" /\ stage[m][t] = "compile"
          /\ \A j \in Maker, u \in Target : j # m \/ u # t => stage'[j][u] = stage[j][u]
          /\ \A u \in Target : object'[u] = object[u] \/ object'[u].kind # "good"
      BY <2>3, <1>o, <3>1, <3>2 DEF Assemble, TypeOK
    <3>4. \A j \in Maker, u \in Target : SameReading(read'[j][u], read[j][u])
      BY <2>3, <1>o, HitKeeps DEF Assemble
    <3>5. read[m][t].kind = "good" => Builds(t, read[m][t].from)
      BY <3>3 DEF Provenance
    <3>6. read'[m][t].kind = "good" => Builds(t, read'[m][t].from)
      BY <3>4, <3>5 DEF SameReading
    <3> QED BY <3>3, <3>4, <3>6, ProvenanceStep
  <2>4. CASE Compiled(m, t)
    <3>1. /\ UNCHANGED <<source, archive, exe>> /\ stage'[m][t] = "exe" /\ stage[m][t] = "write"
          /\ \A j \in Maker, u \in Target : j # m \/ u # t =>
               stage'[j][u] = stage[j][u] /\ read'[j][u] = read[j][u]
          /\ \A u \in Target : \/ object'[u] = object[u]
                               \/ u = t /\ m \in object[t].by /\ object'[t] = Finished(m, t, object[t], now')
      BY <2>4, <1>o DEF Compiled, Ends, TypeOK
    <3>2. ASSUME NEW u \in Target, object'[u].kind = "good", object'[u] # object[u]
          PROVE  Builds(u, object'[u].from)
      <4>1. u = t /\ m \in object[t].by /\ object'[t] = Finished(m, t, object[t], now')
        BY <3>1, <3>2
      <4>2. object[t].from # 0 /\ read[m][t].kind = "good" /\ object'[t].from = object[t].from
        BY <3>2, <4>1 DEF Finished
      <4>3. read[m][t].from = object[t].from
        BY <4>1, <4>2 DEF Writers, ObjectWriters
      <4>4. Builds(t, read[m][t].from)
        BY <3>1, <4>2 DEF Provenance
      <4> QED BY <4>1, <4>2, <4>3, <4>4
    <3> QED BY <1>s, <3>1, <3>2, ProvenanceStep
  <2>5. CASE Relink(m, t) \/ Link(m, t)
    <3>1. PICK g \in Opened(m, t, exe[t], LdReads(t), now) : exe' = [exe EXCEPT ![t] = g]
      BY <2>5 DEF Relink, Link, RunLd
    <3>2. g.kind = "partial"
      BY OpenedForms DEF NewFile, Shared
    <3>3. /\ UNCHANGED <<source, archive, object>> /\ stage'[m][t] = "link" /\ read'[m][t] = LdReads(t)
          /\ \A j \in Maker, u \in Target : j # m \/ u # t =>
               stage'[j][u] = stage[j][u] /\ read'[j][u] = read[j][u]
          /\ \A u \in Target : exe'[u] = exe[u] \/ exe'[u].kind # "good"
      BY <2>5, <1>o, <3>1, <3>2 DEF Relink, Link, RunLd, Consider, TypeOK
    <3>4. object[t].kind = "good" => Builds(t, object[t].from)
      BY DEF Provenance
    <3>5. archive \in 1 .. archive
      BY <1>o DEF TypeOK
    <3> QED BY <1>s, <3>3, <3>4, <3>5, ProvenanceStep DEF LdReads
  <2>6. CASE Linked(m, t)
    <3>1. /\ UNCHANGED <<source, archive, object>> /\ stage'[m][t] = "done" /\ stage[m][t] = "link"
          /\ \A j \in Maker, u \in Target : j # m \/ u # t =>
               stage'[j][u] = stage[j][u] /\ read'[j][u] = read[j][u]
          /\ \A u \in Target : \/ exe'[u] = exe[u]
                               \/ u = t /\ m \in exe[t].by /\ exe'[t] = Finished(m, t, exe[t], now)
      BY <2>6, <1>o DEF Linked, Ends, TypeOK
    <3>2. ASSUME NEW u \in Target, exe'[u].kind = "good", exe'[u] # exe[u]
          PROVE  Builds(u, exe'[u].from) /\ exe'[u].also \in 1 .. archive
      <4>1. u = t /\ m \in exe[t].by /\ exe'[t] = Finished(m, t, exe[t], now)
        BY <3>1, <3>2
      <4>2. /\ exe[t].from # 0 /\ read[m][t].kind = "good"
            /\ exe'[t].from = exe[t].from /\ exe'[t].also = exe[t].also
        BY <3>2, <4>1 DEF Finished
      <4>3. exe[t].also # 0
        BY <4>2 DEF Owned, WellFormed, FormedAt
      <4>4. read[m][t].from = exe[t].from /\ read[m][t].also = exe[t].also
        BY <4>1, <4>3 DEF Writers, ExeWriters
      <4>5. Builds(t, read[m][t].from) /\ read[m][t].also \in 1 .. archive
        BY <3>1, <4>2 DEF Provenance
      <4> QED BY <4>1, <4>2, <4>4, <4>5
    <3> QED BY <1>s, <3>1, <3>2, ProvenanceStep
  <2>7. CASE LinkFails(m, t)
    <3>1. /\ UNCHANGED <<source, archive, object>> /\ stage'[m][t] = "done"
          /\ \A j \in Maker, u \in Target : j # m \/ u # t =>
               stage'[j][u] = stage[j][u] /\ read'[j][u] = read[j][u]
          /\ \A u \in Target : exe'[u] = exe[u] \/ exe'[u].kind = "none"
      BY <2>7, <1>o DEF LinkFails, Ends, Absent, TypeOK
    <3> QED BY <1>s, <3>1, ProvenanceStep
  <2> QED BY <1>4, <2>1, <2>2, <2>3, <2>4, <2>5, <2>6, <2>7 DEF Recipe
<1>5. ASSUME NEW m \in Maker, Exit(m) \/ Interrupt(m) \/ CleanObjects(m) \/ CleanTargets(m)
      PROVE  Provenance'
  <2>1. UNCHANGED <<source, archive>>
    BY <1>5 DEF Exit, Interrupt, Stops, CleanObjects, CleanTargets
  <2>2. \A u \in Target : (object'[u] = object[u] \/ object'[u] = Absent) /\ (exe'[u] = exe[u] \/ exe'[u] = Absent)
    BY <1>5 DEF Exit, Interrupt, CleanObjects, CleanTargets
  <2>3. \A j \in Maker, u \in Target : stage'[j][u] \in {"compile", "write", "link"} =>
           stage'[j][u] = stage[j][u] /\ read'[j][u] = read[j][u]
    <3>1. CASE Exit(m) \/ Interrupt(m)
      <4>1. \A j \in Maker, u \in Target : j # m => stage'[j][u] = stage[j][u] /\ read'[j][u] = read[j][u]
        BY <3>1, <1>o DEF Exit, Interrupt, Fails, Stops, TypeOK
      <4>2. \A u \in Target : stage'[m][u] \in {"none", "done"}
        BY <3>1, <1>o DEF Exit, Interrupt, Fails, AllDone, TypeOK
      <4> QED BY <4>1, <4>2
    <3>2. CASE CleanObjects(m) \/ CleanTargets(m)
      BY <3>2 DEF CleanObjects, CleanTargets
    <3> QED BY <1>5, <3>1, <3>2
  <2> QED BY <1>s, <1>u, <2>1, <2>2, <2>3, ProvenanceKept DEF Absent
<1>6. CASE UNCHANGED vars
  <2>1. UNCHANGED <<source, archive, object, exe, stage, read>>
    BY <1>6 DEF vars, progress
  <2> QED BY <1>s, <1>u, <2>1, ProvenanceKept
<1> QED
  BY <1>1, <1>2, <1>3, <1>4, <1>5, <1>6 DEF Next, Working

LEMMA ProvenanceInvariant == Spec => []Provenance
<1>1. Init => Provenance
  BY Rules DEF Init, Provenance, Absent
<1> QED BY <1>1, OwnedInvariant, FreshInvariant, ProvenanceNext, PTL DEF Spec

(* After a success that nobody else disturbed the next make has nothing to do,
   and every executable is whole and made from the current source, which builds,
   and the current archives, unless an input was written while a recipe ran that
   wrote it or its object: that one is passed over, stale or not (Makefile:12-44). *)
THEOREM SuccessIsComplete == Spec => []SuccessMeansBuilt
<1>1. Owned /\ Writers /\ Fresh /\ Alone /\ Progress /\ Provenance => SuccessMeansBuilt
  <2> SUFFICES ASSUME Owned, Writers, Fresh, Alone, Progress, Provenance,
                      NEW m \in Maker, run[m] = "ok", quiet[m],
                      NEW t \in Target, stage[m][t] = "done"
               PROVE  /\ ~ObjectOutdated(t) /\ ~ExeOutdated(t) /\ exe[t].by = {}
                      /\ ~object[t].raced /\ ~exe[t].raced =>
                           /\ exe[t].kind = "good" /\ source[SourceOf[t]].kind = "good"
                           /\ exe[t].from = source[SourceOf[t]].at /\ exe[t].also = archive
    BY DEF SuccessMeansBuilt
  <2>t. SourceOf[t] \in Src /\ source[SourceOf[t]].at # 0 /\ object[t].at \in Nat /\ exe[t].at \in Nat
        /\ source[SourceOf[t]].at \in Nat /\ object[t].by \subseteq Maker
    BY Rules DEF Owned, TypeOK, File
  <2>1. ~ObjectOutdated(t) /\ ~ExeOutdated(t) /\ exe[t].by = {}
    BY DEF Progress, Stands, Current
  <2>2. \A j \in Maker : ~Active(j)
    BY DEF Alone, Active
  <2>3. object[t].by = {}
    BY <2>t, <2>2 DEF Owned, NoPartialLeft
  <2>4. ASSUME ~object[t].raced, ~exe[t].raced
        PROVE  exe[t].from = source[SourceOf[t]].at /\ exe[t].also = archive
    BY <2>1, <2>3, <2>4 DEF Fresh, ObjectFresh, ExeFresh
  <2>5. exe[t].at # 0
    BY <2>t, <2>1 DEF ObjectOutdated, ExeOutdated
  <2>6. ASSUME ~object[t].raced, ~exe[t].raced
        PROVE  exe[t].kind = "good" /\ source[SourceOf[t]].kind = "good"
    <3>1. exe[t].kind # "mixed"
      BY <2>t, <2>4, <2>6 DEF Writers, ExeWriters
    <3>2. exe[t].kind = "good"
      BY <2>1, <2>5, <3>1 DEF Owned, WellFormed, FormedAt
    <3>3. Builds(t, exe[t].from)
      BY <2>1, <3>2 DEF Provenance
    <3> QED BY <2>t, <2>4, <2>6, <3>2, <3>3 DEF Provenance, Builds
  <2> QED BY <2>1, <2>4, <2>6
<1> QED BY <1>1, OwnedInvariant, FreshInvariant, ProgressInvariant, ProvenanceInvariant, PTL
-----------------------------------------------------------------------------
LEMMA LeftFacts ==
  /\ Left["none"] = 0 /\ Left["done"] = 1 /\ Left["link"] = 2 /\ Left["exe"] = 3
  /\ Left["write"] = 4 /\ Left["compile"] = 5 /\ Left["wait"] = 6
BY DEF Left

(* A step of m's own moves one target on and leaves the others. *)
LEMMA RecipeAdvances ==
  ASSUME TypeOK, NEW m \in Maker, NEW t \in Target, Recipe(m, t)
  PROVE  /\ Left[stage'[m][t]] < Left[stage[m][t]]
         /\ \A k \in Maker, u \in Target : k # m \/ u # t => stage'[k][u] = stage[k][u]
<1> USE LeftFacts DEF TypeOK
<1>1. CASE Skip(m, t) \/ Compile(m, t) \/ Relink(m, t)
  BY <1>1 DEF Skip, Compile, Relink, Consider, RunLd
<1>2. CASE Assemble(m, t)
  BY <1>2 DEF Assemble
<1>3. CASE Compiled(m, t)
  BY <1>3 DEF Compiled, Ends
<1>4. CASE CompileFails(m, t)
  BY <1>4 DEF CompileFails, Ends
<1>5. CASE Link(m, t)
  BY <1>5 DEF Link, RunLd
<1>6. CASE Linked(m, t) \/ LinkFails(m, t)
  BY <1>6 DEF Linked, LinkFails, Ends
<1> QED BY <1>1, <1>2, <1>3, <1>4, <1>5, <1>6 DEF Recipe

(* A make takes no target back and none of its own steps is idle: with finitely
   many targets it cannot go on for ever, and only the fairness of its steps is
   left to TLC (Makefile:12-44). *)
THEOREM StepsShrink == Spec => RunsShrink
<1>1. TypeOK /\ [Next]_vars =>
        [\A m \in Maker : Active(m) =>
           /\ \A t \in Target : Left[stage'[m][t]] <= Left[stage[m][t]]
           /\ Working(m) => \/ run'[m] \notin {"all", "failing", "clean"}
                            \/ \E t \in Target : Left[stage'[m][t]] < Left[stage[m][t]]]_vars
  <2> SUFFICES ASSUME TypeOK, Next, NEW m \in Maker, Active(m)
               PROVE  /\ \A t \in Target : Left[stage'[m][t]] <= Left[stage[m][t]]
                      /\ Working(m) => \/ run'[m] \notin {"all", "failing", "clean"}
                                       \/ \E t \in Target : Left[stage'[m][t]] < Left[stage[m][t]]
    OBVIOUS
  <2>1. ASSUME NEW t \in Target
        PROVE  /\ Left[stage[m][t]] \in 0 .. 6 /\ Left[stage'[m][t]] \in 0 .. 6
               /\ stage'[m][t] = stage[m][t] => Left[stage'[m][t]] <= Left[stage[m][t]]
    <3> DEFINE Stages == {"none", "wait", "compile", "write", "exe", "link", "done"}
    <3>1. stage[m][t] \in Stages /\ stage'[m][t] \in Stages
      BY TypeNext DEF TypeOK
    <3>2. \A q \in Stages : Left[q] \in 0 .. 6
      BY LeftFacts
    <3> QED BY <3>1, <3>2
  <2>2. ASSUME NEW k \in Maker, NEW u \in Target, Recipe(k, u), NEW t \in Target
        PROVE  Left[stage'[m][t]] <= Left[stage[m][t]]
    <3>1. CASE k = m /\ u = t
      BY <2>1, <2>2, <3>1, RecipeAdvances
    <3>2. CASE k # m \/ u # t
      BY <2>1, <2>2, <3>2, RecipeAdvances
    <3> QED BY <3>1, <3>2
  <2>3. ASSUME NEW k \in Maker, Exit(k) \/ Interrupt(k), NEW t \in Target
        PROVE  Left[stage'[m][t]] <= Left[stage[m][t]]
    <3>1. stage'[m][t] = stage[m][t] \/ stage'[m][t] = "none"
      BY <2>3 DEF Exit, Interrupt, Fails, TypeOK
    <3> QED BY <2>1, <3>1, LeftFacts
  <2>4. ASSUME NEW k \in Maker, Start(k), NEW t \in Target
        PROVE  Left[stage'[m][t]] <= Left[stage[m][t]]
    <3>1. k # m
      BY <2>4 DEF Start, Active
    <3>2. stage'[m][t] = stage[m][t]
      BY <2>4, <3>1 DEF Start, TypeOK
    <3> QED BY <2>1, <3>2
  <2>5. UNCHANGED stage => \A t \in Target : Left[stage'[m][t]] <= Left[stage[m][t]]
    <3>1. \A t \in Target : stage'[m][t] = stage[m][t] => Left[stage'[m][t]] <= Left[stage[m][t]]
      BY <2>1
    <3> QED BY <3>1
  <2>6. \A t \in Target : Left[stage'[m][t]] <= Left[stage[m][t]]
    <3>1. ASSUME NEW s \in Src, Edit(s) PROVE UNCHANGED stage
      BY <3>1 DEF Edit, UserWrites
    <3>2. EditHeader \/ ReplaceArchives => UNCHANGED stage
      BY DEF EditHeader, ReplaceArchives, UserWrites
    <3>3. ASSUME NEW k \in Maker, CleanObjects(k) \/ CleanTargets(k) PROVE UNCHANGED stage
      BY <3>3 DEF CleanObjects, CleanTargets
    <3> QED BY <2>2, <2>3, <2>4, <2>5, <3>1, <3>2, <3>3 DEF Next, Working
  <2>7. ASSUME Working(m)
        PROVE  \/ run'[m] \notin {"all", "failing", "clean"}
               \/ \E t \in Target : Left[stage'[m][t]] < Left[stage[m][t]]
    <3>1. CASE \E t \in Target : Recipe(m, t)
      BY <3>1, RecipeAdvances
    <3>2. CASE Exit(m) \/ CleanTargets(m)
      BY <3>2 DEF Exit, Fails, CleanTargets, TypeOK
    <3> QED BY <2>7, <3>1, <3>2 DEF Working
  <2> QED BY <2>6, <2>7
<1> QED BY <1>1, TypeCorrect, PTL DEF Spec, RunsShrink
=============================================================================
