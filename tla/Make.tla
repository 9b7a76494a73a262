-------------------------------- MODULE Make --------------------------------
(***************************************************************************)
(* c/Makefile, run by one or more invocations of GNU make (with or without *)
(* -j) while sources, headers and archives are being written.  Every       *)
(* executable t is linked from its own object t.o and the archives, every  *)
(* object compiled from one .c file, exo4.c giving two.  Files carry the   *)
(* time of their last write; 0 is a file that is absent.                   *)
(***************************************************************************)
EXTENDS Naturals

CONSTANTS Src,      \* the .c files
          Includes, \* those that include a header of include/
          Target,   \* the names in TARGET
          SourceOf, \* the prerequisite of the object of each target
          Maker,    \* invocations of make that may run at the same time
          MaxTime   \* bound on the time at which users still act

ASSUME Rules == /\ SourceOf \in [Target -> Src] /\ Includes \subseteq Src
                /\ "archives" \notin Src /\ MaxTime \in Nat

Prereq == Src \cup {"archives"}

\* Objects and executables: what they were made from (`also' is the header of
\* an object, the archives of an executable), which makes are still writing
\* them, and whether an input was written while a recipe of theirs ran.
Absent == [at |-> 0, from |-> 0, also |-> 0, kind |-> "none", by |-> {}, raced |-> FALSE]
Unread == [from |-> 0, also |-> 0, kind |-> "none", hit |-> FALSE]

VARIABLES now,             \* time of the last write
          source,          \* per .c file, when it was written, how it builds, and
                           \* the times of all its texts so far that build
          header, archive, \* when include/ and the archives were written
          object, exe,     \* per target, t.o and t
          run,             \* per make, what it is doing or how it ended
          quiet,           \* per make, that nobody else has acted since it started
          stage,           \* per make and target, how far it has come
          seen,            \* per make, the times of prerequisites it remembers
          read             \* per make and target, what the running recipe has read
inputs == <<source, header, archive>>
progress == <<run, stage, seen, read>>
vars == <<now, inputs, object, exe, quiet, progress>>

Init == /\ now = 1 /\ header = 1 /\ archive = 1
        /\ source = [s \in Src |-> [at |-> 1, kind |-> "good", built |-> {1}]]
        /\ object = [t \in Target |-> Absent] /\ exe = [t \in Target |-> Absent]
        /\ run = [m \in Maker |-> "idle"] /\ quiet = [m \in Maker |-> FALSE]
        /\ stage = [m \in Maker |-> [t \in Target |-> "none"]]
        /\ seen = [m \in Maker |-> [p \in Prereq |-> 0]]
        /\ read = [m \in Maker |-> [t \in Target |-> Unread]]

HeaderOf(t) == IF SourceOf[t] \in Includes THEN header ELSE 0
Written(p) == IF p = "archives" THEN archive ELSE source[p].at
Active(m) == run[m] \in {"all", "failing", "clean"}

\* An input of the targets ts is written while recipes at these stages run.
Hit(stages, ts) ==
  [m \in Maker |-> [t \in Target |->
     IF stage[m][t] \in stages /\ t \in ts THEN [read[m][t] EXCEPT !.hit = TRUE] ELSE read[m][t]]]

\* as and ld replace an output that is there, but write into one that is still
\* empty: two recipes then share the file, and mix it unless they read the same.
NewFile(m, r, time) == [at |-> time, from |-> r.from, also |-> r.also, kind |-> "partial",
                        by |-> {m}, raced |-> FALSE]
Shared(m, t, f, r, time) ==
  LET same == \A j \in f.by : read[j][t] = r
  IN  [at |-> time, from |-> IF same THEN f.from ELSE 0, also |-> IF same THEN f.also ELSE 0,
       kind |-> "partial", by |-> f.by \cup {m}, raced |-> FALSE]
Opened(m, t, f, r, time) ==
  {NewFile(m, r, time)} \cup (IF f.kind = "partial" THEN {Shared(m, t, f, r, time)} ELSE {})

UserWrites == /\ now < MaxTime /\ now' = now + 1 /\ quiet' = [m \in Maker |-> FALSE]
              /\ UNCHANGED <<object, exe, run, stage, seen>>

Saved(s, k, time) == [at |-> time, kind |-> k,
                      built |-> source[s].built \cup (IF k = "good" THEN {time} ELSE {})]

\* An edit leaves a text that builds, one gcc rejects, or one ld rejects.
Edit(s) == /\ UserWrites
           /\ \E k \in {"good", "syntax", "link"} :
                source' = [source EXCEPT ![s] = Saved(s, k, now')]
           /\ read' = Hit({"compile", "write"}, {t \in Target : SourceOf[t] = s})
           /\ UNCHANGED <<header, archive>>
EditHeader == /\ UserWrites /\ Includes # {} /\ header' = now'
              /\ read' = Hit({"compile", "write"}, {t \in Target : SourceOf[t] \in Includes})
              /\ UNCHANGED <<source, archive>>
ReplaceArchives == /\ UserWrites /\ archive' = now'
                   /\ read' = Hit({"link"}, Target)
                   /\ UNCHANGED <<source, header>>

\* make all, or make with some of the targets.
Start(m) == /\ ~Active(m) /\ run' = [run EXCEPT ![m] = "all"]
            /\ quiet' = [k \in Maker |-> k = m /\ \A j \in Maker : ~Active(j)]
            /\ \E goals \in SUBSET Target \ {{}} :
                 stage' = [stage EXCEPT ![m] = [t \in Target |-> IF t \in goals THEN "wait" ELSE "none"]]
            /\ UNCHANGED <<now, inputs, object, exe, seen, read>>

\* make looks at the time of a prerequisite once and remembers it.
Look(m, t) == [p \in Prereq |-> IF seen[m][p] = 0 /\ p \in {SourceOf[t], "archives"}
                                  THEN Written(p) ELSE seen[m][p]]

(* Mutants of the rules: an object without its .c file, an executable without
   the archives. *)
OlderObjectNoSource(t, saw) == object[t].at = 0
OlderExeNoArchives(t, saw) == exe[t].at < object[t].at

OlderObject(t, saw) == object[t].at < saw[SourceOf[t]]
OlderExe(t, saw) == exe[t].at < object[t].at \/ exe[t].at < saw["archives"]

Consider(m, t) == /\ run[m] = "all" /\ stage[m][t] = "wait"
                  /\ seen' = [seen EXCEPT ![m] = Look(m, t)]
                  /\ UNCHANGED <<now, inputs, object, quiet, run>>

Skip(m, t) == /\ Consider(m, t) /\ ~OlderObject(t, Look(m, t)) /\ ~OlderExe(t, Look(m, t))
              /\ stage' = [stage EXCEPT ![m][t] = "done"]
              /\ UNCHANGED <<exe, read>>

Compile(m, t) == /\ Consider(m, t) /\ OlderObject(t, Look(m, t))
                 /\ stage' = [stage EXCEPT ![m][t] = "compile"]
                 /\ read' = [read EXCEPT ![m][t] = [from |-> source[SourceOf[t]].at, also |-> HeaderOf(t),
                                                    kind |-> source[SourceOf[t]].kind, hit |-> FALSE]]
                 /\ UNCHANGED exe

LdReads(t) == [from |-> object[t].from, also |-> archive, kind |-> object[t].kind, hit |-> FALSE]

\* ld opens its output before it reads.
RunLd(m, t) == /\ stage' = [stage EXCEPT ![m][t] = "link"]
               /\ read' = [read EXCEPT ![m][t] = LdReads(t)]
               /\ \E f \in Opened(m, t, exe[t], LdReads(t), now) : exe' = [exe EXCEPT ![t] = f]

Relink(m, t) == /\ Consider(m, t) /\ ~OlderObject(t, Look(m, t)) /\ OlderExe(t, Look(m, t))
                /\ RunLd(m, t)

\* The assembler runs when the text has been compiled.
Assemble(m, t) == /\ stage[m][t] = "compile" /\ read[m][t].kind # "syntax"
                  /\ now' = now + 1
                  /\ \E f \in Opened(m, t, object[t], read[m][t], now') : object' = [object EXCEPT ![t] = f]
                  /\ stage' = [stage EXCEPT ![m][t] = "write"]
                  /\ read' = Hit({"link"}, {t})
                  /\ UNCHANGED <<inputs, exe, quiet, run, seen>>

(* Mutant of Finished: the file is dated ahead of the clock. *)
FinishedAhead(m, t, f, time) ==
  [at |-> time + 1, from |-> f.from, also |-> f.also, by |-> f.by \ {m}, raced |-> f.raced \/ read[m][t].hit,
   kind |-> IF f.from = 0 THEN "mixed" ELSE read[m][t].kind]

\* m closes its output; another make may still be writing it.
Finished(m, t, f, time) ==
  [at |-> time, from |-> f.from, also |-> f.also, by |-> f.by \ {m}, raced |-> f.raced \/ read[m][t].hit,
   kind |-> IF f.from = 0 THEN "mixed" ELSE read[m][t].kind]

\* The recipe of t ends; what it had opened may have been removed or replaced.
Ends(m, t, s) == /\ stage' = [stage EXCEPT ![m][t] = s]
                 /\ read' = [read EXCEPT ![m][t] = Unread]
                 /\ UNCHANGED <<inputs, quiet, seen>>

Compiled(m, t) == /\ stage[m][t] = "write" /\ Ends(m, t, "exe")
                  /\ IF m \in object[t].by
                       THEN now' = now + 1 /\ object' = [object EXCEPT ![t] = Finished(m, t, object[t], now')]
                       ELSE UNCHANGED <<now, object>>
                  /\ UNCHANGED <<exe, run>>

(* Mutant of AfterCompileFails: the recipe touches its target all the same. *)
AfterCompileFailsTouched(t) == [object[t] EXCEPT !.at = now]

\* gcc leaves the old object in place, and removes an executable.
AfterCompileFails(t) == object[t]

(* Mutant of CompileFails: a target that failed is tried again. *)
CompileFailsRetried(m, t) == /\ stage[m][t] = "compile" /\ read[m][t].kind = "syntax"
                             /\ Ends(m, t, "wait") /\ UNCHANGED <<now, object, exe, run>>

CompileFails(m, t) == /\ stage[m][t] = "compile" /\ read[m][t].kind = "syntax"
                      /\ run' = [run EXCEPT ![m] = "failing"] /\ Ends(m, t, "done")
                      /\ object' = [object EXCEPT ![t] = AfterCompileFails(t)]
                      /\ UNCHANGED <<now, exe>>

\* An object that was remade always has its executable remade.
Link(m, t) == /\ run[m] = "all" /\ stage[m][t] = "exe" /\ RunLd(m, t)
              /\ UNCHANGED <<now, inputs, object, quiet, run, seen>>

(* Mutant of Linkable: ld writes an executable although it reports errors, as
   with --noinhibit-exec. *)
LinkableAnyway(m, t) == read[m][t].kind # "none"

\* ld may also make something of an object that is a mix.
Linkable(m, t) == read[m][t].kind \in {"good", "mixed"}

(* Mutant of Linked: the finished file is moved over whatever is there. *)
LinkedMoved(m, t) == /\ stage[m][t] = "link" /\ Linkable(m, t) /\ Ends(m, t, "done")
                     /\ exe' = [exe EXCEPT ![t] = Finished(m, t, NewFile(m, read[m][t], now), now)]
                     /\ UNCHANGED <<now, object, run>>

Linked(m, t) == /\ stage[m][t] = "link" /\ Linkable(m, t) /\ Ends(m, t, "done")
                /\ exe' = IF m \in exe[t].by THEN [exe EXCEPT ![t] = Finished(m, t, exe[t], now)] ELSE exe
                /\ UNCHANGED <<now, object, run>>

LinkFails(m, t) == /\ stage[m][t] = "link" /\ read[m][t].kind # "good" /\ Ends(m, t, "done")
                   /\ exe' = [exe EXCEPT ![t] = Absent]
                   /\ run' = [run EXCEPT ![m] = "failing"]
                   /\ UNCHANGED <<now, object>>

Stops(m) == /\ seen' = [seen EXCEPT ![m] = [p \in Prereq |-> 0]]
            /\ read' = [read EXCEPT ![m] = [t \in Target |-> Unread]]
            /\ UNCHANGED <<now, inputs, quiet>>

Fails(m) == /\ run' = [run EXCEPT ![m] = "error"]
            /\ stage' = [stage EXCEPT ![m] = [t \in Target |-> "none"]]

Busy(m) == {t \in Target : stage[m][t] \in {"compile", "write", "link"}}
(* Mutant of AllDone: make waits for the targets it was not asked for. *)
AllDoneEvery(m) == \A t \in Target : stage[m][t] = "done"
AllDone(m) == \A t \in Target : stage[m][t] \in {"done", "none"}
\* Without -k nothing is started after a failure; make waits for its jobs.
Waited(m) == Busy(m) = {}

Exit(m) == /\ \/ run[m] = "all" /\ AllDone(m) /\ run' = [run EXCEPT ![m] = "ok"] /\ UNCHANGED stage
              \/ run[m] = "failing" /\ Waited(m) /\ Fails(m)
           /\ Stops(m) /\ UNCHANGED <<object, exe>>

(* Mutant of Unfinished: the assembler is killed and t.o left behind. *)
UnfinishedKept(m, t) == stage[m][t] = "compile" /\ object[t].at > read[m][t].from

\* On Ctrl-C make removes the target of a recipe if it has changed meanwhile.
Unfinished(m, t) == \/ stage[m][t] = "write"
                    \/ stage[m][t] = "compile" /\ object[t].at > read[m][t].from

Interrupt(m) ==
  /\ now < MaxTime /\ Active(m) /\ Fails(m)
  /\ object' = [t \in Target |-> IF Unfinished(m, t) THEN Absent ELSE object[t]]
  /\ exe' = [t \in Target |-> IF stage[m][t] = "link" THEN Absent ELSE exe[t]]
  /\ Stops(m)

\* make clean: the objects, then the executables.
CleanObjects(m) == /\ now < MaxTime /\ ~Active(m) /\ run' = [run EXCEPT ![m] = "clean"]
                   /\ object' = [t \in Target |-> Absent]
                   /\ quiet' = [k \in Maker |-> FALSE]
                   /\ UNCHANGED <<now, inputs, exe, stage, seen, read>>
CleanTargets(m) == /\ run[m] = "clean" /\ run' = [run EXCEPT ![m] = "idle"]
                   /\ exe' = [t \in Target |-> Absent]
                   /\ UNCHANGED <<now, inputs, object, quiet, stage, seen, read>>

Recipe(m, t) == \/ Skip(m, t) \/ Compile(m, t) \/ Assemble(m, t) \/ Compiled(m, t) \/ CompileFails(m, t)
                \/ Relink(m, t) \/ Link(m, t) \/ Linked(m, t) \/ LinkFails(m, t)
Working(m) == (\E t \in Target : Recipe(m, t)) \/ Exit(m) \/ CleanTargets(m)

Next == \/ (\E s \in Src : Edit(s)) \/ EditHeader \/ ReplaceArchives
        \/ \E m \in Maker : Start(m) \/ CleanObjects(m) \/ Working(m) \/ Interrupt(m)

\* Every make goes on by itself; nobody has to edit, start or interrupt it.
Spec == Init /\ [][Next]_vars /\ \A m \in Maker : WF_vars(Working(m))
-----------------------------------------------------------------------------
Kind == {"good", "syntax", "link", "mixed", "partial", "none"}
File(n) == [at : 0 .. n, from : 0 .. n, also : 0 .. n, kind : Kind, by : SUBSET Maker, raced : BOOLEAN]
Reading(n) == [from : 0 .. n, also : 0 .. n, kind : Kind, hit : BOOLEAN]

TypeOK ==
  /\ now \in Nat /\ header \in 1 .. now /\ archive \in 1 .. now
  /\ source \in [Src -> [at : 1 .. now, kind : {"good", "syntax", "link"}, built : SUBSET (1 .. now)]]
  /\ object \in [Target -> File(now)] /\ exe \in [Target -> File(now)]
  /\ run \in [Maker -> {"idle", "all", "failing", "clean", "ok", "error"}]
  /\ quiet \in [Maker -> BOOLEAN]
  /\ stage \in [Maker -> [Target -> {"none", "wait", "compile", "write", "exe", "link", "done"}]]
  /\ seen \in [Maker -> [Prereq -> 0 .. now]]
  /\ read \in [Maker -> [Target -> Reading(now)]]

\* Whether a make started now would remake the object, the executable.
ObjectOutdated(t) == object[t].at < source[SourceOf[t]].at
ExeOutdated(t) == ObjectOutdated(t) \/ exe[t].at < object[t].at \/ exe[t].at < archive

(* A finished file that does not reflect its prerequisites is older than one of
   them, so that the next make remakes it, or a prerequisite was written while
   one of the recipes ran that wrote the file, which no make notices later
   (Makefile:18-44). *)
StaleIsVisible ==
  \A t \in Target :
    /\ object[t].by = {} /\ object[t].from # source[SourceOf[t]].at =>
         ObjectOutdated(t) \/ object[t].raced
    /\ exe[t].by = {} /\ (exe[t].from # object[t].from \/ exe[t].also # archive) =>
         ExeOutdated(t) \/ exe[t].raced

(* No rule names a header: an object made from an older one counts as up to
   date.  Such an object is older than the header, as a rule that named it would
   see, or a header or the source was saved while it was being made, which no
   rule would see (Makefile:18-25). *)
HeaderStaleIsOlder ==
  \A t \in Target : object[t].at # 0 /\ object[t].by = {} /\ object[t].also # HeaderOf(t) =>
                      object[t].at < header \/ object[t].raced

(* A half-written object or executable is there only while a recipe that writes
   it runs, whatever other makes, failures, cleans and interruptions do: no later
   make takes it for a finished file (Makefile:19, 41). *)
NoPartialLeft ==
  \A t \in Target :
    /\ \A m \in object[t].by : Active(m) /\ stage[m][t] = "write"
    /\ object[t].kind = "partial" => object[t].by # {}
    /\ \A m \in exe[t].by : Active(m) /\ stage[m][t] = "link"
    /\ exe[t].kind = "partial" => exe[t].by # {}

(* When make has exited with success and nobody else has written or run make
   since it started, another make would run no recipe for the targets it was
   asked for, and each of them is a whole executable of the current source, which
   builds, and the current archives - except those left by a recipe, of this or
   an earlier make, that had an input change under it (`raced'): these too
   count as made, whatever they hold (Makefile:12-44). *)
SuccessMeansBuilt ==
  \A m \in Maker : run[m] = "ok" /\ quiet[m] =>
    \A t \in Target : stage[m][t] = "done" =>
      /\ ~ObjectOutdated(t) /\ ~ExeOutdated(t) /\ exe[t].by = {}
      /\ \/ object[t].raced \/ exe[t].raced
         \/ /\ exe[t].kind = "good" /\ source[SourceOf[t]].kind = "good"
            /\ exe[t].from = source[SourceOf[t]].at /\ exe[t].also = archive

(* For whoever starts or debugs an executable, make is Build.  A file that is
   being written cannot be started: ld makes it executable when it closes it, and
   a file open for writing is busy.  What can be started is a whole executable
   of a text that was there and builds, or, when several makes run at once, the
   mix of two links; it is removed before another takes its place, whatever
   edits, makes, failures, cleans and interruptions overlap (Makefile:12-44). *)
Launched == INSTANCE Build WITH
  Overlap <- \E m, k \in Maker : m # k,
  built <- [s \in Src |-> source[s].built],
  exe <- [t \in Target |->
            CASE exe[t].by # {} \/ exe[t].at = 0 -> {}
              [] exe[t].by = {} /\ exe[t].at # 0 /\ exe[t].kind = "mixed" -> {[from |-> 0, also |-> 0]}
              [] OTHER -> {[from |-> exe[t].from, also |-> exe[t].also]}]

ImplementsBuild == Launched!Spec

(* An invocation never takes a target back, whatever overlaps with it, and each
   step of its own brings one target further or ends it: it runs no recipe
   twice and takes no more steps than its targets have stages (Makefile:12-44). *)
Left == [none |-> 0, done |-> 1, link |-> 2, exe |-> 3, write |-> 4, compile |-> 5, wait |-> 6]
RunsShrink ==
  [][\A m \in Maker : Active(m) =>
       /\ \A t \in Target : Left[stage'[m][t]] <= Left[stage[m][t]]
       /\ Working(m) => \/ run'[m] \notin {"all", "failing", "clean"}
                        \/ \E t \in Target : Left[stage'[m][t]] < Left[stage[m][t]]]_vars

(* Every invocation comes to an end, the failing ones too. *)
RunsEnd == \A m \in Maker : Active(m) ~> ~Active(m)
=============================================================================
