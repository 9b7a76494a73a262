----------------------------- MODULE BuildProofs -----------------------------
(***************************************************************************)
(* make implements Build, for every set of sources and targets and any     *)
(* number of makes, edits, failures, cleans and interruptions.             *)
(***************************************************************************)
EXTENDS MakeProofs

(* Two recipes share an output only where several makes run. *)
Several == \E m, k \in Maker : m # k

UnmixedAt(t) ==
  /\ object[t].at # 0 => object[t].from # 0
  /\ exe[t].at # 0 => exe[t].also # 0
  /\ object[t].kind # "mixed" /\ exe[t].kind # "mixed"
  /\ \A m \in Maker : read[m][t].kind # "mixed"

Unmixed == Several \/ \A t \in Target : UnmixedAt(t)

LEMMA UnmixedNext == Owned /\ Writers /\ Unmixed /\ [Next]_vars => Unmixed'
<1> SUFFICES ASSUME Owned, Writers, Unmixed, [Next]_vars, ~Several, NEW u \in Target
             PROVE  UnmixedAt(u)'
  BY DEF Unmixed, Several
<1>o. TypeOK /\ UnmixedAt(u)
  BY DEF Owned, Unmixed
<1>r. ASSUME object'[u] = object[u], exe'[u] = exe[u],
             \A j \in Maker : SameReading(read'[j][u], read[j][u]) \/ read'[j][u] = Unread
      PROVE  UnmixedAt(u)'
  BY <1>o, <1>r DEF UnmixedAt, SameReading, Unread
<1>1. CASE (\E s \in Src : Edit(s)) \/ EditHeader \/ ReplaceArchives
  BY <1>o, <1>r, <1>1, UserFrame
<1>2. ASSUME NEW m \in Maker, Start(m) PROVE UnmixedAt(u)'
  BY <1>r, <1>2 DEF Start, SameReading
<1>3. ASSUME NEW m \in Maker, NEW t \in Target, Recipe(m, t) PROVE UnmixedAt(u)'
  <2>0. /\ \A j \in Maker : j # m \/ u # t => SameReading(read'[j][u], read[j][u])
        /\ u # t => object'[u] = object[u] /\ exe'[u] = exe[u]
    BY <1>o, <1>3, RecipeFrame
  <2>1. CASE u # t
    BY <1>r, <2>0, <2>1
  <2>2. CASE u = t
    <3>0. /\ object[t].by \subseteq {m} /\ (m \in object[t].by => stage[m][t] = "write")
          /\ exe[t].by \subseteq {m} /\ (m \in exe[t].by => stage[m][t] = "link")
      <4>1. object[t].by \subseteq Maker /\ exe[t].by \subseteq Maker
        BY <1>o DEF TypeOK, File
      <4> QED BY <4>1 DEF Several, Owned, NoPartialLeft
    <3>1. CASE Skip(m, t)
      BY <1>o, <1>r, <2>0, <2>2, <3>1 DEF Skip, Consider, SameReading
    <3>2. CASE Compile(m, t)
      <4>1. /\ object'[t] = object[t] /\ exe'[t] = exe[t] /\ read'[m][t].kind # "mixed"
        BY <1>o, <3>2, Rules DEF Compile, Consider, TypeOK
      <4> QED BY <1>o, <2>0, <2>2, <4>1 DEF UnmixedAt, SameReading
    <3>3. CASE Assemble(m, t)
      <4>1. PICK g \in Opened(m, t, object[t], read[m][t], now + 1) : object' = [object EXCEPT ![t] = g]
        BY <3>3 DEF Assemble
      <4>2. stage[m][t] = "compile"
        BY <3>3 DEF Assemble
      <4>3. object[t].by = {} /\ object[t].kind # "partial"
        BY <3>0, <4>2 DEF Owned, NoPartialLeft
      <4>4. g = NewFile(m, read[m][t], now + 1) /\ read[m][t].from # 0
        BY <4>2, <4>3, OpenedForms DEF Owned, WellRead, ReadAt
      <4>5. object'[t] = g /\ exe'[t] = exe[t]
        BY <1>o, <3>3, <4>1 DEF Assemble, TypeOK
      <4>6. \A j \in Maker : SameReading(read'[j][t], read[j][t])
        BY <1>o, <3>3, HitKeeps DEF Assemble
      <4> QED BY <1>o, <2>2, <4>4, <4>5, <4>6 DEF UnmixedAt, NewFile, SameReading
    <3>4. CASE Compiled(m, t)
      <4>1. stage[m][t] = "write" /\ exe'[t] = exe[t] /\ read'[m][t] = Unread
        BY <1>o, <3>4 DEF Compiled, Ends, TypeOK
      <4>2. CASE m \in object[t].by
        <5>1. object'[t] = Finished(m, t, object[t], now + 1) /\ object[t].at # 0
          BY <1>o, <3>4, <4>2 DEF Compiled, TypeOK, Owned, WellFormed, FormedAt
        <5> QED BY <1>o, <2>0, <2>2, <4>1, <5>1 DEF UnmixedAt, Finished, SameReading, Unread
      <4>3. CASE m \notin object[t].by
        BY <1>r, <2>0, <2>2, <3>4, <4>1, <4>3 DEF Compiled
      <4> QED BY <4>2, <4>3
    <3>5. CASE CompileFails(m, t)
      <4>1. object'[t] = object[t] /\ exe'[t] = exe[t] /\ read'[m][t] = Unread
        BY <1>o, <3>5 DEF CompileFails, AfterCompileFails, Ends, TypeOK
      <4> QED BY <1>r, <2>0, <2>2, <4>1
    <3>6. CASE Relink(m, t) \/ Link(m, t)
      <4>1. PICK g \in Opened(m, t, exe[t], LdReads(t), now) : exe' = [exe EXCEPT ![t] = g]
        BY <3>6 DEF Relink, Link, RunLd
      <4>2. stage[m][t] \in {"wait", "exe"}
        BY <3>6 DEF Relink, Link, Consider
      <4>3. exe[t].by = {} /\ exe[t].kind # "partial"
        BY <3>0, <4>2 DEF Owned, NoPartialLeft
      <4>4. g = NewFile(m, LdReads(t), now) /\ archive # 0
        BY <1>o, <4>3, OpenedForms DEF TypeOK
      <4>5. exe'[t] = g /\ object'[t] = object[t] /\ read'[m][t] = LdReads(t)
        BY <1>o, <3>6, <4>1 DEF Relink, Link, Consider, RunLd, TypeOK
      <4> QED BY <1>o, <2>0, <2>2, <4>4, <4>5 DEF UnmixedAt, NewFile, LdReads, SameReading
    <3>7. CASE Linked(m, t)
      <4>1. object'[t] = object[t] /\ read'[m][t] = Unread /\ Linkable(m, t)
        BY <1>o, <3>7 DEF Linked, Ends, TypeOK
      <4>2. CASE m \in exe[t].by
        <5>1. exe'[t] = Finished(m, t, exe[t], now) /\ exe[t].at # 0
          BY <1>o, <3>7, <4>2 DEF Linked, TypeOK, Owned, WellFormed, FormedAt
        <5>2. exe[t].also # 0
          BY <1>o, <2>2, <5>1 DEF UnmixedAt
        <5>3. read[m][t].from = exe[t].from
          BY <4>2, <5>2 DEF Writers, ExeWriters
        <5>4. read[m][t].kind = "good" /\ read[m][t].from # 0
          BY <1>o, <2>2, <4>1 DEF UnmixedAt, Linkable, Owned, WellRead, ReadAt
        <5> QED BY <1>o, <2>0, <2>2, <4>1, <5>1, <5>2, <5>3, <5>4 DEF UnmixedAt, Finished, SameReading, Unread
      <4>3. CASE m \notin exe[t].by
        BY <1>r, <2>0, <2>2, <3>7, <4>1, <4>3 DEF Linked
      <4> QED BY <4>2, <4>3
    <3>8. CASE LinkFails(m, t)
      <4>1. exe'[t] = Absent /\ object'[t] = object[t] /\ read'[m][t] = Unread
        BY <1>o, <3>8 DEF LinkFails, Ends, TypeOK
      <4> QED BY <1>o, <2>0, <2>2, <4>1 DEF UnmixedAt, Absent, SameReading, Unread
    <3> QED BY <1>3, <3>1, <3>2, <3>3, <3>4, <3>5, <3>6, <3>7, <3>8 DEF Recipe
  <2> QED BY <2>1, <2>2
<1>4. ASSUME NEW m \in Maker, Exit(m) \/ Interrupt(m) \/ CleanObjects(m) \/ CleanTargets(m)
      PROVE  UnmixedAt(u)'
  <2>1. /\ object'[u] = object[u] \/ object'[u] = Absent
        /\ exe'[u] = exe[u] \/ exe'[u] = Absent
        /\ \A j \in Maker : read'[j][u] = read[j][u] \/ read'[j][u] = Unread
    BY <1>o, <1>4, StopFrame
  <2> QED BY <1>o, <2>1 DEF UnmixedAt, Absent, Unread
<1>5. CASE UNCHANGED vars
  BY <1>r, <1>5 DEF vars, progress, SameReading
<1> QED BY <1>1, <1>2, <1>3, <1>4, <1>5 DEF Next, Working

LEMMA UnmixedInvariant == Spec => []Unmixed
<1>1. Init => Unmixed
  BY DEF Init, Unmixed, UnmixedAt, Absent, Unread
<1> QED BY <1>1, OwnedInvariant, FreshInvariant, UnmixedNext, PTL DEF Spec
-----------------------------------------------------------------------------
(* The executables as Build sees them. *)
Whole(t) == exe[t].by = {} /\ exe[t].at # 0
Mixture == [from |-> 0, also |-> 0]
shown == [t \in Target |->
            CASE exe[t].by # {} \/ exe[t].at = 0 -> {}
              [] exe[t].by = {} /\ exe[t].at # 0 /\ exe[t].kind = "mixed" -> {[from |-> 0, also |-> 0]}
              [] OTHER -> {[from |-> exe[t].from, also |-> exe[t].also]}]

LEMMA ShownForms ==
  ASSUME NEW t \in Target
  PROVE  /\ ~Whole(t) => shown[t] = {}
         /\ Whole(t) /\ exe[t].kind = "mixed" => shown[t] = {Mixture}
         /\ Whole(t) /\ exe[t].kind # "mixed" => shown[t] = {[from |-> exe[t].from, also |-> exe[t].also]}
BY DEF shown, Whole, Mixture

(* The texts as Build sees them. *)
texts == [s \in Src |-> source[s].built]

(* A step that finishes no executable removes some, or none. *)
LEMMA OnlyRemoves ==
  ASSUME UNCHANGED texts, UNCHANGED archive,
         \A t \in Target : exe'[t] = exe[t] \/ ~Whole(t)'
  PROVE  Launched!Remove
<1> DEFINE ts == {t \in Target : ~Whole(t)'}
<1>1. ts \in SUBSET Target
  OBVIOUS
<1>2. shown' = [t \in Target |-> IF t \in ts THEN {} ELSE shown[t]]
  BY DEF shown, Whole
<1> QED BY <1>1, <1>2 DEF Launched!Remove, shown, texts

LEMMA InitShown == Init => Launched!Init
BY DEF Init, Absent, Launched!Init

(* A text that builds joins the history, one that does not leaves it alone. *)
LEMMA EditWrites ==
  ASSUME TypeOK, NEW s \in Src, Edit(s)
  PROVE  Launched!Write(s) \/ Launched!Remove
<1>1. PICK k \in {"good", "syntax", "link"} : source' = [source EXCEPT ![s] = Saved(s, k, now + 1)]
  BY DEF Edit, UserWrites
<1>2. UNCHANGED <<archive, exe>>
  BY DEF Edit, UserWrites
<1>3. source'[s] = Saved(s, k, now + 1) /\ \A r \in Src \ {s} : source'[r] = source[r]
  BY <1>1 DEF TypeOK
<1>4. CASE k = "good"
  <2>1. now \in Nat /\ source[s].built \subseteq 1 .. now
    BY DEF TypeOK
  <2>2. \A old \in source[s].built : old < now + 1
    BY <2>1
  <2>3. source'[s].built = source[s].built \cup {now + 1}
    BY <1>3, <1>4 DEF Saved
  <2>4. texts' = [texts EXCEPT ![s] = texts[s] \cup {now + 1}]
    BY <1>3, <2>3 DEF texts
  <2>5. now + 1 \in texts'[s] /\ texts[s] = source[s].built
    BY <2>3 DEF texts
  <2> QED BY <1>2, <2>2, <2>4, <2>5 DEF Launched!Write, texts
<1>5. CASE k # "good"
  <2>1. source'[s].built = source[s].built
    BY <1>3, <1>5 DEF Saved
  <2>2. texts' = texts
    BY <1>3, <2>1 DEF texts
  <2> QED BY <1>2, <2>2, OnlyRemoves
<1> QED BY <1>4, <1>5

(* ld closes its file, the last to do so: it was not shown before, and what it
   was linked from is known from Provenance, or it is the mix of several. *)
LEMMA LinkedInstalls ==
  ASSUME Owned, Writers, Provenance, Unmixed', NEW m \in Maker, NEW t \in Target, Linked(m, t),
         m \in exe[t].by, exe'[t].by = {}
  PROVE  Launched!Install(t) \/ Launched!Mix(t)
<1>1. TypeOK
  BY DEF Owned
<1>2. UNCHANGED <<source, archive>> /\ stage[m][t] = "link" /\ read[m][t].kind \in {"good", "mixed"}
  BY DEF Linked, Ends, inputs, Linkable
<1>3. exe' = [exe EXCEPT ![t] = Finished(m, t, exe[t], now)] /\ now # 0
  BY <1>1 DEF Linked, TypeOK
<1>4. exe'[t] = Finished(m, t, exe[t], now) /\ \A u \in Target \ {t} : exe'[u] = exe[u]
  BY <1>1, <1>3 DEF TypeOK
<1>5. /\ exe'[t].at = now /\ exe'[t].from = exe[t].from /\ exe'[t].also = exe[t].also
      /\ exe'[t].kind = (IF exe[t].from = 0 THEN "mixed" ELSE read[m][t].kind)
  BY <1>4 DEF Finished
<1>6. shown[t] = {} /\ \A u \in Target \ {t} : shown'[u] = shown[u]
  BY <1>4 DEF shown
<1>7. Whole(t)'
  BY <1>3, <1>5 DEF Whole
<1>8. CASE exe'[t].kind = "mixed"
  <2>1. Several
    BY <1>8 DEF Unmixed, UnmixedAt
  <2>2. shown'[t] = {Mixture}
    BY <1>7, <1>8 DEF shown, Whole, Mixture
  <2>3. shown' = [shown EXCEPT ![t] = {Mixture}]
    BY <1>6, <2>2 DEF shown
  <2> QED BY <1>2, <1>6, <2>1, <2>3 DEF Launched!Mix, Several, shown, texts, Mixture
<1>9. CASE exe'[t].kind # "mixed"
  <2> DEFINE f == exe[t].from
             a == exe[t].also
  <2>1. f # 0 /\ read[m][t].kind = "good"
    BY <1>2, <1>5, <1>9
  <2>2. a # 0
    BY <2>1 DEF Owned, WellFormed, FormedAt
  <2>3. read[m][t].from = f /\ read[m][t].also = a
    BY <2>2 DEF Writers, ExeWriters
  <2>4. f \in texts[SourceOf[t]] /\ a \in 1 .. archive
    BY <1>2, <2>1, <2>3, Rules DEF Provenance, Builds, texts
  <2>5. shown'[t] = {[from |-> f, also |-> a]}
    BY <1>5, <1>7, <1>9 DEF shown, Whole
  <2>6. shown' = [shown EXCEPT ![t] = {[from |-> f, also |-> a]}]
    BY <1>6, <2>5 DEF shown
  <2> QED BY <1>2, <1>6, <2>4, <2>6 DEF Launched!Install, shown, texts
<1> QED BY <1>8, <1>9

LEMMA StepShown ==
  Owned /\ Writers /\ Provenance /\ Unmixed' /\ [Next]_vars => [Launched!Next]_(Launched!vars)
<1> SUFFICES ASSUME Owned, Writers, Provenance, Unmixed', [Next]_vars PROVE Launched!Next
  OBVIOUS
<1>o. TypeOK
  BY DEF Owned
<1> USE Rules DEF inputs
<1>1. ASSUME NEW s \in Src, Edit(s) PROVE Launched!Next
  BY <1>o, <1>1, EditWrites DEF Launched!Next
<1>2. CASE ReplaceArchives
  <2>1. archive' > archive /\ UNCHANGED <<source, exe>>
    BY <1>o, <1>2 DEF ReplaceArchives, UserWrites, TypeOK
  <2> QED BY <2>1 DEF Launched!NewArchives, Launched!Next
<1>3. ASSUME UNCHANGED source, UNCHANGED archive, \A t \in Target : exe'[t] = exe[t] \/ ~Whole(t)'
      PROVE  Launched!Next
  BY <1>3, OnlyRemoves DEF Launched!Next, texts
<1>4. CASE EditHeader
  BY <1>3, <1>4 DEF EditHeader, UserWrites
<1>5. ASSUME NEW m \in Maker, Start(m) \/ CleanObjects(m) PROVE Launched!Next
  BY <1>3, <1>5 DEF Start, CleanObjects
<1>6. ASSUME NEW m \in Maker, NEW t \in Target, Recipe(m, t) PROVE Launched!Next
  <2>1. CASE Skip(m, t) \/ Compile(m, t) \/ Assemble(m, t) \/ Compiled(m, t) \/ CompileFails(m, t)
    BY <1>3, <2>1 DEF Skip, Compile, Assemble, Compiled, CompileFails, Consider, Ends
  <2>2. CASE Relink(m, t) \/ Link(m, t)
    <3>1. PICK g \in Opened(m, t, exe[t], LdReads(t), now) : exe' = [exe EXCEPT ![t] = g]
      BY <2>2 DEF Relink, Link, RunLd
    <3>2. m \in g.by
      BY OpenedForms DEF NewFile, Shared
    <3>3. UNCHANGED <<source, archive>>
      BY <2>2 DEF Relink, Link, Consider
    <3> QED BY <1>o, <1>3, <3>1, <3>2, <3>3 DEF Whole, TypeOK
  <2>3. CASE Linked(m, t)
    <3>1. CASE m \in exe[t].by /\ exe'[t].by = {}
      BY <2>3, <3>1, LinkedInstalls DEF Launched!Next
    <3>2. CASE m \in exe[t].by /\ exe'[t].by # {}
      <4>1. UNCHANGED <<source, archive>> /\ \A u \in Target : exe'[u] = exe[u] \/ u = t
        BY <1>o, <2>3, <3>2 DEF Linked, Ends, TypeOK
      <4> QED BY <1>3, <3>2, <4>1 DEF Whole
    <3>3. CASE m \notin exe[t].by
      BY <1>3, <2>3, <3>3 DEF Linked, Ends
    <3> QED BY <3>1, <3>2, <3>3
  <2>4. CASE LinkFails(m, t)
    BY <1>o, <1>3, <2>4 DEF LinkFails, Ends, Absent, Whole, TypeOK
  <2> QED BY <1>6, <2>1, <2>2, <2>3, <2>4 DEF Recipe
<1>7. ASSUME NEW m \in Maker, Exit(m) PROVE Launched!Next
  BY <1>3, <1>7 DEF Exit, Stops
<1>8. ASSUME NEW m \in Maker, Interrupt(m) \/ CleanTargets(m) PROVE Launched!Next
  BY <1>3, <1>8 DEF Interrupt, CleanTargets, Stops, Absent, Whole
<1>9. CASE UNCHANGED vars
  BY <1>3, <1>9 DEF vars
<1> QED
  BY <1>1, <1>2, <1>4, <1>5, <1>6, <1>7, <1>8, <1>9 DEF Next, Working

(* Whoever starts an executable while make works finds none, or a whole one of
   a text that was there and builds, or where several makes run the mix of two
   links; none is replaced before it is removed (Makefile:12-44). *)
THEOREM Refinement == Spec => ImplementsBuild
BY InitShown, StepShown, OwnedInvariant, FreshInvariant, ProvenanceInvariant, UnmixedInvariant, PTL
   DEF Spec, ImplementsBuild, Launched!Spec
=============================================================================
