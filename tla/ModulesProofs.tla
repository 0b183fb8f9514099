--------------------------- MODULE ModulesProofs ---------------------------
(***************************************************************************)
(* Proof that ModulesSound is an invariant of Modules, for any directories,*)
(* names and files, and however deep modules require each other.           *)
(*                                                                         *)
(* The conjunct TableExact makes it inductive: the empty object that is    *)
(* stored for a file stays there as long as the run for it does, and       *)
(* requireNew starts only what the table has nothing for; and the program  *)
(* that runs for a file was found for its name.                            *)
(***************************************************************************)
EXTENDS Modules, WellFoundedInduction, NaturalsInduction, TLAPS

-----------------------------------------------------------------------------
(* Texts to files.                                                         *)

\* A set of numbers has a least element.
LEMMA LeastElement ==
  ASSUME NEW T \in SUBSET Nat, T # {}
  PROVE  \E x \in T : \A y \in T : x <= y
<1> DEFINE R == OpToRel(<, Nat)
<1>1. IsWellFoundedOn(R, Nat)
  BY NatLessThanWellFounded
<1>2. \A x, y \in Nat : <<y, x>> \in R <=> y < x
  BY DEF OpToRel
<1> HIDE DEF R
<1>3. PICK x \in T : \A y \in T : ~(<<y, x>> \in R)
  BY <1>1, WFMin
<1>4. \A y \in T : x \in Nat /\ y \in Nat /\ ~(y < x)
  BY <1>2, <1>3
<1> QED BY <1>4

\* firstFile gives a file of the sequence that exists, or None; it gives None when none exists.
LEMMA FirstFile ==
  ASSUME NEW s, NEW n \in Nat, DOMAIN s = 1 .. n
  PROVE  firstFile(s) # None => firstFile(s) \in files /\ \E i \in 1 .. n : firstFile(s) = s[i]
<1> DEFINE there == { i \in DOMAIN s : s[i] \in files }
           i == CHOOSE i \in there : \A j \in there : i <= j
<1>1. CASE there = {}
  BY <1>1 DEF firstFile
<1>2. CASE there # {}
  <2>1. i \in there
    <3>1. there \in SUBSET Nat
      OBVIOUS
    <3> HIDE DEF there
    <3> QED BY <1>2, <3>1, LeastElement
  <2>2. firstFile(s) = s[i]
    BY <1>2 DEF firstFile
  <2>3. i \in 1 .. n /\ s[i] \in files
    BY <2>1
  <2> HIDE DEF i
  <2> QED BY <2>2, <2>3
<1> QED BY <1>1, <1>2

\* h may be found for a file f: it has its name, and its directory is where f is looked for.
PlaceOf(f, h) == \E d \in Dirs : h.name = f.name /\ h.dir = Inside[<<d, f.dir, f.name>>]

\* What spelled and placed leave of a file.
LEMMA Placed ==
  ASSUME ModulesAssumption, NEW file \in Files, NEW d \in Dirs
  PROVE  /\ placed(file, d).name = file.name
         /\ placed(file, d).dir = Inside[<<d, file.dir, file.name>>]
         /\ placed(file, d).ext = file.ext
BY DEF placed, Files

LEMMA Spelled ==
  ASSUME NEW file \in Files
  PROVE  /\ \E n \in Nat : DOMAIN spelled(file) = 1 .. n
         /\ \A i \in DOMAIN spelled(file) :
                /\ spelled(file)[i] \in Files
                /\ spelled(file)[i].name = file.name /\ spelled(file)[i].dir = file.dir
<1>1. CASE file.ext = "none"
  <2>1. spelled(file) = <<file, withExt(file, "source"), withExt(file, "template")>>
    BY <1>1 DEF spelled
  <2>2. ASSUME NEW e \in Exts
        PROVE  withExt(file, e) \in Files /\ withExt(file, e).name = file.name /\ withExt(file, e).dir = file.dir
    BY DEF withExt, Files
  <2>3. "source" \in Exts /\ "template" \in Exts
    BY DEF Exts
  <2>4. DOMAIN spelled(file) = 1 .. 3
    BY <2>1
  <2>5. ASSUME NEW i \in 1 .. 3
        PROVE  /\ spelled(file)[i] \in Files
               /\ spelled(file)[i].name = file.name /\ spelled(file)[i].dir = file.dir
    <3>1. i = 1 \/ i = 2 \/ i = 3
      OBVIOUS
    <3> QED BY <2>1, <2>2, <2>3, <3>1
  <2> QED BY <2>4, <2>5
<1>2. CASE file.ext # "none"
  <2>1. spelled(file) = <<file>>
    BY <1>2 DEF spelled
  <2> QED BY <2>1
<1> QED BY <1>1, <1>2

LEMMA InOneDirectory ==
  ASSUME ModulesAssumption, NEW file \in Files, NEW d \in Dirs, resolveIn(file, d) # None
  PROVE  resolveIn(file, d) \in files /\ PlaceOf(file, resolveIn(file, d))
<1> DEFINE s == [i \in DOMAIN spelled(file) |-> placed(spelled(file)[i], d)]
<1>1. PICK n \in Nat : DOMAIN spelled(file) = 1 .. n
  BY Spelled
<1>2. DOMAIN s = 1 .. n /\ resolveIn(file, d) = firstFile(s)
  BY <1>1 DEF resolveIn
<1>3. ASSUME NEW i \in 1 .. n
      PROVE  s[i].name = file.name /\ s[i].dir = Inside[<<d, file.dir, file.name>>]
  BY <1>1, Spelled, Placed
<1> HIDE DEF s
<1>4. firstFile(s) \in files /\ \E i \in 1 .. n : firstFile(s) = s[i]
  BY <1>2, FirstFile
<1> QED BY <1>2, <1>3, <1>4 DEF PlaceOf

LEMMA Searched ==
  ASSUME ModulesAssumption, NEW file \in Files, NEW dir \in Dirs, search(file, dir) # None
  PROVE  search(file, dir) \in files /\ PlaceOf(file, search(file, dir))
<1> DEFINE s == [i \in DOMAIN searched(dir) |-> resolveIn(file, searched(dir)[i])]
<1>1. searched(dir) \in Seq(Dirs)
  BY DEF ModulesAssumption, searched
<1>2. PICK n \in Nat : DOMAIN searched(dir) = 1 .. n
  BY <1>1
<1>3. DOMAIN s = 1 .. n /\ search(file, dir) = firstFile(s)
  BY <1>2 DEF search
<1>4. ASSUME NEW i \in 1 .. n
      PROVE  s[i] # None => PlaceOf(file, s[i])
  BY <1>1, <1>2, InOneDirectory
<1> HIDE DEF s
<1>5. firstFile(s) \in files /\ \E i \in 1 .. n : firstFile(s) = s[i]
  BY <1>3, FirstFile
<1> QED BY <1>3, <1>4, <1>5

\* resolvePath gives a file that exists and has the name, or nothing.
LEMMA Resolved ==
  ASSUME ModulesAssumption, NEW file \in Files, NEW dir \in Dirs, resolvePath(file, dir) # None
  PROVE  resolvePath(file, dir) \in files /\ PlaceOf(file, resolvePath(file, dir))
<1>1. CASE resolvePath(file, dir) = search(file, dir)
  BY <1>1, Searched
<1>2. CASE resolvePath(file, dir) = search(compiledOf(file), dir)
  <2>1. compiledOf(file) \in Files /\ compiledOf(file).name = file.name /\ compiledOf(file).dir = file.dir
    BY DEF compiledOf, withExt, Files, Exts
  <2> DEFINE f == compiledOf(file)
  <2>2. search(f, dir) \in files /\ PlaceOf(f, search(f, dir))
    BY <1>2, <2>1, Searched
  <2> HIDE DEF f
  <2>3. f.name = file.name /\ f.dir = file.dir
    BY <2>1 DEF f
  <2> QED BY <1>2, <2>2, <2>3 DEF PlaceOf, f
<1> QED BY <1>1, <1>2 DEF resolvePath

\* The program that compileFile makes a function of stands for the file.
LEMMA ProgramIsOwn ==
  ASSUME ModulesAssumption, ModulesSound, NEW file \in OnDisk, NEW p \in OnDisk,
         NEW h \in OnDisk, PlaceOf(file, h), p \in {h, compiledOf(h)}
  PROVE  Own(file, p)
<1>1. p.name = file.name
  BY DEF PlaceOf, compiledOf, withExt, ModulesAssumption, Files
<1>2. ASSUME Alone(file) PROVE p \in {file, compiledOf(file)}
  <2>1. h \in {file, compiledOf(file)}
    BY <1>2 DEF Alone, PlaceOf
  <2>2. compiledOf(compiledOf(file)) = compiledOf(file)
    BY DEF compiledOf, withExt, ModulesAssumption, Files
  <2> QED BY <2>1, <2>2
<1> QED BY <1>1, <1>2 DEF Own

-----------------------------------------------------------------------------
(* The runs of require.                                                    *)

\* What the invariant says of the innermost run.
LEMMA Innermost ==
  ASSUME ModulesSound, running # << >>
  PROVE  /\ Len(running) \in Nat \ {0} /\ Len(running) \in DOMAIN running
         /\ DOMAIN running = 1 .. Len(running)
         /\ Last(running) = running[Len(running)] /\ Last(running) \in Run
         /\ Last(running).file \in OnDisk /\ Last(running).file \in Running
<1>1. running \in Seq(Run)
  BY DEF ModulesSound, TypeOK
<1>2. /\ Len(running) \in Nat \ {0} /\ Len(running) \in DOMAIN running
      /\ DOMAIN running = 1 .. Len(running)
      /\ Last(running) = running[Len(running)]
  BY <1>1 DEF Last
<1>3. Last(running) \in Run
  BY <1>1, <1>2
<1> QED BY <1>2, <1>3 DEF Run, Running

\* What runs for a file stands for it.
RunsOwn(s) == \A j \in DOMAIN s : s[j].pc = "body" => Own(s[j].file, s[j].prog)

\* A run that goes on is a run for the same file.
LEMMA SameRuns ==
  ASSUME ModulesSound, NEW i \in DOMAIN running, NEW r \in Run, r.file = running[i].file,
         r.pc = "body" => Own(r.file, r.prog),
         NEW s, s = [running EXCEPT ![i] = r]
  PROVE  /\ s \in Seq(Run) /\ DOMAIN s = DOMAIN running /\ RunsOwn(s)
         /\ \A j \in DOMAIN running : s[j].file = running[j].file
<1>1. s \in Seq(Run) /\ DOMAIN s = DOMAIN running
  BY DEF ModulesSound, TypeOK
<1>2. ASSUME NEW j \in DOMAIN running PROVE s[j] = IF j = i THEN r ELSE running[j]
  OBVIOUS
<1>3. RunsOwn(s)
  BY <1>1, <1>2 DEF RunsOwn, ModulesSound, TableExact
<1> QED BY <1>1, <1>2, <1>3

\* The run that calls require may make one call less.
LEMMA CalledRuns ==
  ASSUME ModulesAssumption, ModulesSound, mayCall
  PROVE  /\ called \in Seq(Run) /\ DOMAIN called = DOMAIN running /\ RunsOwn(called)
         /\ \A j \in DOMAIN running : called[j].file = running[j].file
<1>1. CASE running = << >>
  BY <1>1 DEF called, ModulesSound, TypeOK, RunsOwn
<1>2. CASE running # << >>
  <2> DEFINE i == Len(running)
             r == [running[i] EXCEPT !.left = running[i].left - 1]
  <2>1. i \in DOMAIN running /\ running[i] \in Run /\ running[i].left > 0
    BY <1>2, Innermost DEF mayCall
  <2>2. r \in Run /\ r.file = running[i].file /\ r.pc = running[i].pc /\ r.prog = running[i].prog
    BY <2>1 DEF Run, ModulesAssumption
  <2>4. r.pc = "body" => Own(r.file, r.prog)
    BY <2>1, <2>2 DEF ModulesSound, TableExact
  <2>3. called = [running EXCEPT ![i] = r]
    BY <1>2 DEF called
  <2> HIDE DEF i, r
  <2> QED BY <2>1, <2>2, <2>3, <2>4, SameRuns
<1> QED BY <1>1, <1>2

\* Nothing is started or ends: Running and the order of its files stay.
LEMMA RunsStay ==
  ASSUME ModulesSound, running' \in Seq(Run), DOMAIN running' = DOMAIN running,
         \A j \in DOMAIN running : running'[j].file = running[j].file
  PROVE  Running' = Running /\ NotReentered'
<1>1. Running' = Running
  BY DEF Running
<1>2. \A a, b \in DOMAIN running : running[a].file = running[b].file => a = b
  BY DEF ModulesSound, NotReentered, IsInjective
<1>3. NotReentered'
  BY <1>2 DEF NotReentered, IsInjective
<1> QED BY <1>1, <1>3

\* The innermost run is over: its file is not running any more.
LEMMA RunLeaves ==
  ASSUME ModulesSound, running # << >>, leave
  PROVE  /\ running' \in Seq(Run) /\ RunsOwn(running')
         /\ Running' = Running \ {Last(running).file}
         /\ NotReentered'
<1>1. running \in Seq(Run) /\ running' = Front(running)
  BY DEF ModulesSound, TypeOK, leave
<1>2. /\ running' \in Seq(Run)
      /\ DOMAIN running' = 1 .. Len(running) - 1
      /\ \A i \in DOMAIN running' : running'[i] = running[i]
  BY <1>1, Innermost DEF Front
<1>3. \A a, b \in DOMAIN running : running[a].file = running[b].file => a = b
  BY DEF ModulesSound, NotReentered, IsInjective
<1>4. NotReentered'
  BY <1>2, <1>3, Innermost DEF NotReentered, IsInjective
<1>5. ASSUME NEW j \in DOMAIN running PROVE j \in DOMAIN running' <=> j # Len(running)
  BY <1>2, Innermost
<1>6. \A j \in DOMAIN running' : j \in DOMAIN running
  BY <1>2, Innermost
<1>7. Running' = Running \ {Last(running).file}
  BY <1>2, <1>3, <1>5, <1>6, Innermost DEF Running
<1>8. RunsOwn(running')
  BY <1>2, <1>6 DEF RunsOwn, ModulesSound, TableExact
<1> QED BY <1>2, <1>4, <1>7, <1>8

-----------------------------------------------------------------------------
(* The operations.                                                         *)

LEMMA NotFoundKeeps ==
  ASSUME ModulesAssumption, ModulesSound, NEW text \in Files, NEW dir \in Dirs, NEW required \in BOOLEAN,
         requireNotFound(text, dir, required)
  PROVE  ModulesSound'
<1>1. /\ running' \in Seq(Run) /\ RunsOwn(running') /\ Running' = Running /\ NotReentered'
      /\ UNCHANGED <<files, modulesLoaded, request, ended>>
  BY CalledRuns, RunsStay DEF requireNotFound
<1>2. /\ pending' \in BOOLEAN
      /\ got' = got \/ (got' = [file |-> None, value |-> Null])
  BY DEF requireNotFound, deliver, ModulesSound, TypeOK
<1>3. TypeOK' /\ OwnValue'
  BY <1>1, <1>2 DEF ModulesSound, TypeOK, OwnValue, Entries, Null
<1> QED BY <1>1, <1>3 DEF ModulesSound, EmptyExplained, ValueIsFinal, TableExact, RunsOwn

LEMMA LoadedKeeps ==
  ASSUME ModulesAssumption, ModulesSound, NEW text \in Files, NEW dir \in Dirs, requireLoaded(text, dir)
  PROVE  ModulesSound'
<1> DEFINE f == resolvePath(text, dir)
<1>1. /\ running' \in Seq(Run) /\ RunsOwn(running') /\ Running' = Running /\ NotReentered'
      /\ UNCHANGED <<files, modulesLoaded, request, pending, ended>>
  BY CalledRuns, RunsStay DEF requireLoaded
<1>2. f \in OnDisk
  BY Resolved DEF requireLoaded, ModulesSound, TypeOK
<1>3. got' = [file |-> f, value |-> modulesLoaded[f]]
  BY DEF requireLoaded, deliver
<1> HIDE DEF f
<1>4. TypeOK' /\ OwnValue'
  BY <1>1, <1>2, <1>3 DEF ModulesSound, TypeOK, OwnValue, TableExact
<1> QED BY <1>1, <1>4 DEF ModulesSound, EmptyExplained, ValueIsFinal, TableExact, RunsOwn

\* A module is started: nothing was stored for it, so that it does not run already.
LEMMA NewKeeps ==
  ASSUME ModulesAssumption, ModulesSound, NEW text \in Files, NEW dir \in Dirs, NEW required \in BOOLEAN,
         requireNew(text, dir, required)
  PROVE  ModulesSound'
<1> DEFINE f == resolvePath(text, dir)
           r == [file |-> f, prog |-> None, pc |-> "compile", left |-> MaxCalls]
<1>1. f \in OnDisk
  BY Resolved DEF requireNew, ModulesSound, TypeOK
<1>2. /\ ~isTrue(modulesLoaded[f])
      /\ modulesLoaded' = [modulesLoaded EXCEPT ![f] = Empty]
      /\ running' = Append(called, r)
      /\ request' = [dir |-> dir, required |-> required]
      /\ UNCHANGED <<files, pending, ended, got>>
  BY DEF requireNew, block
<1>3. r \in Run /\ r.file = f /\ r.pc # "body"
  BY <1>1 DEF Run, ModulesAssumption
<1> HIDE DEF f, r
<1>4. f \notin Running /\ ended[f] # "value"
  BY <1>1, <1>2 DEF ModulesSound, TableExact, isTrue, Empty
<1>5. /\ called \in Seq(Run) /\ DOMAIN called = DOMAIN running /\ RunsOwn(called)
      /\ \A j \in DOMAIN running : called[j].file = running[j].file
  BY CalledRuns DEF requireNew
<1>6. /\ running' \in Seq(Run)
      /\ Len(called) \in Nat /\ DOMAIN called = 1 .. Len(called)
      /\ DOMAIN running' = 1 .. Len(called) + 1
      /\ running'[Len(called) + 1] = r
      /\ \A i \in 1 .. Len(called) : running'[i] = called[i]
  BY <1>2, <1>3, <1>5
<1>7. /\ \A j \in DOMAIN running : j \in DOMAIN running' /\ running'[j].file = running[j].file
      /\ \A j \in DOMAIN running' : j \in DOMAIN running \/ (j = Len(called) + 1 /\ running'[j].file = f)
      /\ Len(called) + 1 \in DOMAIN running' /\ running'[Len(called) + 1].file = f
  BY <1>3, <1>5, <1>6
<1>8. Running' = Running \cup {f}
  BY <1>7 DEF Running
<1>9. NotReentered'
  <2>1. \A a, b \in DOMAIN running : running[a].file = running[b].file => a = b
    BY DEF ModulesSound, NotReentered, IsInjective
  <2>2. \A a \in DOMAIN running : running[a].file # f
    BY <1>4 DEF Running
  <2>3. \A a, b \in DOMAIN running' : running'[a].file = running'[b].file => a = b
    BY <1>7, <2>1, <2>2
  <2> QED BY <2>3 DEF NotReentered, IsInjective
<1>10. TypeOK' /\ OwnValue'
  <2>1. modulesLoaded' \in [OnDisk -> Entries] /\ request' \in [dir : Dirs, required : BOOLEAN]
    BY <1>1, <1>2 DEF ModulesSound, TypeOK, Entries
  <2> QED BY <1>2, <1>6, <2>1 DEF ModulesSound, TypeOK, OwnValue
<1>11. EmptyExplained'
  BY <1>1, <1>2, <1>8 DEF ModulesSound, TypeOK, EmptyExplained, ModulesAssumption, Files
<1>12. ValueIsFinal'
  BY <1>1, <1>2, <1>4, <1>8 DEF ModulesSound, TypeOK, ValueIsFinal
<1>13. TableExact'
  <2>1. RunsOwn(running')
    BY <1>3, <1>5, <1>6 DEF RunsOwn
  <2>2. \A g \in Running' : modulesLoaded'[g] = Empty
    BY <1>1, <1>2, <1>8 DEF ModulesSound, TypeOK, TableExact
  <2>3. ASSUME NEW g \in OnDisk
        PROVE  /\ modulesLoaded'[g].kind = "value" => Own(g, modulesLoaded'[g].by)
               /\ ended'[g] = "value" => modulesLoaded'[g].kind = "value"
    BY <1>1, <1>2, <1>4 DEF ModulesSound, TypeOK, TableExact, Empty
  <2> QED BY <2>1, <2>2, <2>3 DEF TableExact, RunsOwn
<1> QED BY <1>9, <1>10, <1>11, <1>12, <1>13 DEF ModulesSound

\* The value of a module, or null, takes the place of the empty object.
LEMMA StoreKeeps ==
  ASSUME ModulesAssumption, ModulesSound, running # << >>,
         NEW value, value = Null \/ (Last(running).pc = "body" /\ value = ValueOf(Last(running).prog)),
         store(value), leave, UNCHANGED <<files, pending>>, request' = request \/ request' = NoRequest
  PROVE  ModulesSound'
<1> DEFINE f == Last(running).file
<1>1. f \in OnDisk /\ f \in Running
  BY Innermost
<1>2. /\ modulesLoaded' = [modulesLoaded EXCEPT ![f] = value]
      /\ ended' = [ended EXCEPT ![f] = value.kind]
      /\ got' = [file |-> f, value |-> value]
  BY DEF store, deliver
<1>3. /\ running' \in Seq(Run) /\ RunsOwn(running') /\ Running' = Running \ {f} /\ NotReentered'
  BY RunLeaves
<1>4. value = Null \/ \E p \in OnDisk : value = ValueOf(p) /\ Own(f, p)
  <2>1. CASE value = Null
    BY <2>1
  <2>2. CASE Last(running).pc = "body" /\ value = ValueOf(Last(running).prog)
    <3>1. Own(f, Last(running).prog) /\ Last(running).prog \in OnDisk \cup {None}
      BY <2>2, Innermost DEF ModulesSound, TableExact, Run
    <3>2. Last(running).prog # None
      BY <1>1, <3>1 DEF Own, None, ModulesAssumption, Files
    <3> QED BY <2>2, <3>1, <3>2
  <2> QED BY <2>1, <2>2
<1> HIDE DEF f
<1>5. /\ value \in Entries /\ value # Empty
      /\ value.kind \in {"null", "value"}
      /\ value.kind = "value" => Own(f, value.by)
  BY <1>1, <1>4 DEF Entries, Null, Empty, ValueOf
<1>6. TypeOK'
  <2>1. request' \in [dir : Dirs, required : BOOLEAN]
    <3>1. request \in [dir : Dirs, required : BOOLEAN]
      BY DEF ModulesSound, TypeOK
    <3>2. NoRequest \in [dir : Dirs, required : BOOLEAN]
      BY DEF NoRequest, ModulesAssumption
    <3> QED BY <3>1, <3>2
  <2> QED BY <1>1, <1>2, <1>3, <1>5, <2>1 DEF ModulesSound, TypeOK
<1>7. OwnValue'
  BY <1>2, <1>5 DEF OwnValue
<1>8. EmptyExplained'
  BY <1>1, <1>2, <1>3, <1>5 DEF ModulesSound, TypeOK, EmptyExplained, ModulesAssumption, Files
<1>9. ValueIsFinal'
  BY <1>1, <1>2, <1>3 DEF ModulesSound, TypeOK, ValueIsFinal
<1>10. TableExact'
  <2>1. \A g \in Running' : g # f /\ g \in OnDisk /\ modulesLoaded[g] = Empty
    <3>1. Running \subseteq OnDisk
      <4>1. \A i \in DOMAIN running : running[i] \in Run
        BY DEF ModulesSound, TypeOK
      <4>2. \A r \in Run : r.file \in OnDisk
        BY DEF Run
      <4> QED BY <4>1, <4>2 DEF Running
    <3> QED BY <1>3, <3>1 DEF ModulesSound, TableExact
  <2>2. \A g \in Running' : modulesLoaded'[g] = Empty
    BY <1>2, <2>1 DEF ModulesSound, TypeOK
  <2>3. ASSUME NEW g \in OnDisk
        PROVE  /\ modulesLoaded'[g].kind = "value" => Own(g, modulesLoaded'[g].by)
               /\ ended'[g] = "value" => modulesLoaded'[g].kind = "value"
    BY <1>2, <1>5 DEF ModulesSound, TypeOK, TableExact
  <2> QED BY <1>3, <2>2, <2>3 DEF TableExact, RunsOwn
<1> QED BY <1>3, <1>6, <1>7, <1>8, <1>9, <1>10 DEF ModulesSound

\* An exception leaves the empty object behind.
LEMMA FailKeeps ==
  ASSUME ModulesAssumption, ModulesSound, running # << >>, fail
  PROVE  ModulesSound'
<1> DEFINE f == Last(running).file
<1>1. f \in OnDisk /\ f \in Running
  BY Innermost
<1>2. ended' = [ended EXCEPT ![f] = "failed"] /\ pending' = TRUE /\ UNCHANGED <<files, modulesLoaded, got>>
  BY DEF fail
<1>3. running' \in Seq(Run) /\ RunsOwn(running') /\ Running' = Running \ {f} /\ NotReentered'
  BY RunLeaves DEF fail
<1> HIDE DEF f
<1>4. TypeOK' /\ OwnValue'
  <2>1. request' \in [dir : Dirs, required : BOOLEAN]
    BY DEF fail, NoRequest, ModulesAssumption
  <2> QED BY <1>1, <1>2, <1>3, <2>1 DEF ModulesSound, TypeOK, OwnValue
<1>5. EmptyExplained'
  BY <1>1, <1>2, <1>3 DEF ModulesSound, TypeOK, EmptyExplained, ModulesAssumption, Files
<1>6. ValueIsFinal'
  BY <1>1, <1>2, <1>3 DEF ModulesSound, TypeOK, ValueIsFinal
<1>7. TableExact'
  BY <1>1, <1>2, <1>3 DEF ModulesSound, TypeOK, TableExact, RunsOwn
<1> QED BY <1>3, <1>4, <1>5, <1>6, <1>7 DEF ModulesSound

\* compileFile finds a program that stands for the file, whatever was deleted meanwhile.
LEMMA CompileKeeps ==
  ASSUME ModulesAssumption, ModulesSound, NEW p \in OnDisk, compileFile(p)
  PROVE  ModulesSound'
<1> DEFINE i == Len(running)
           r == [running[i] EXCEPT !.pc = "body", !.prog = p]
<1>1. /\ i \in DOMAIN running /\ running[i] \in Run
      /\ Last(running) = running[i] /\ running[i].file \in OnDisk
  BY Innermost DEF compileFile, compiling, active
<1>2. /\ r \in Run /\ r.file = running[i].file /\ r.prog = p
      /\ running' = [running EXCEPT ![i] = r]
      /\ request' = NoRequest
      /\ UNCHANGED <<files, modulesLoaded, pending, ended, got>>
  BY <1>1 DEF compileFile, Run
<1>3. Own(running[i].file, p)
  <2> DEFINE f == running[i].file
             h == resolvePath(f, request.dir)
  <2>1. p \in {h, compiledOf(h)} /\ p \in files
    BY <1>1 DEF compileFile, programs, found
  <2>2. h # None
    <3>1. p \in Files
      BY DEF ModulesAssumption
    <3>2. p.name \in Names
      BY <3>1 DEF Files
    <3>3. compiledOf(None).name = "none" /\ None.name = "none"
      BY DEF compiledOf, withExt, None
    <3> QED BY <2>1, <3>2, <3>3 DEF ModulesAssumption
  <2>3. f \in Files /\ request.dir \in Dirs
    BY <1>1 DEF ModulesAssumption, ModulesSound, TypeOK
  <2>4. h \in OnDisk /\ PlaceOf(f, h)
    BY <2>2, <2>3, Resolved DEF ModulesSound, TypeOK
  <2> HIDE DEF f, h
  <2>5. f \in OnDisk
    BY <1>1 DEF f
  <2>6. Own(f, p)
    BY <2>1, <2>4, <2>5, ProgramIsOwn
  <2> QED BY <2>6 DEF f
<1> HIDE DEF i, r
<1>4. /\ running' \in Seq(Run) /\ DOMAIN running' = DOMAIN running /\ RunsOwn(running')
      /\ \A j \in DOMAIN running : running'[j].file = running[j].file
  BY <1>1, <1>2, <1>3, SameRuns
<1>5. Running' = Running /\ NotReentered'
  BY <1>4, RunsStay
<1>6. TypeOK' /\ OwnValue'
  BY <1>2, <1>4 DEF ModulesSound, TypeOK, OwnValue, NoRequest, ModulesAssumption
<1> QED BY <1>2, <1>4, <1>5, <1>6 DEF ModulesSound, EmptyExplained, ValueIsFinal, TableExact, RunsOwn

\* A handler and a file that is deleted leave the table and the runs.
LEMMA OthersKeep ==
  ASSUME ModulesAssumption, ModulesSound,
         catch \/ (\E f \in OnDisk : removeFile(f)) \/ UNCHANGED vars
  PROVE  ModulesSound'
<1>1. /\ UNCHANGED <<modulesLoaded, running, request, ended, got>>
      /\ files' \subseteq files /\ pending' \in BOOLEAN
  BY DEF catch, removeFile, vars, ModulesSound, TypeOK
<1> QED BY <1>1 DEF ModulesSound, TypeOK, OwnValue, NotReentered, EmptyExplained, ValueIsFinal,
                    TableExact, Running

-----------------------------------------------------------------------------

\* However modules require each other, fail, are caught, are deleted and are required again,
\* nothing is started for a file while it is loaded or after a value was stored for it, and a
\* script gets what a program of that name returned: the file itself or the one compiled from
\* it, unless there is another file that the second resolution can find.
THEOREM ModulesAreSound == ModulesAssumption => (Spec => []ModulesSound)
<1> SUFFICES ASSUME ModulesAssumption PROVE Spec => []ModulesSound
  OBVIOUS
<1>1. Init => ModulesSound
  <2> SUFFICES ASSUME Init PROVE ModulesSound
    OBVIOUS
  <2>1. running = << >> /\ Running = {}
    BY DEF Init, Running
  <2>2. TypeOK
    <3>1. running \in Seq(Run)
      BY <2>1
    <3>2. files \subseteq OnDisk
      BY DEF Init, OnDisk
    <3>3. modulesLoaded \in [OnDisk -> Entries] /\ ended \in [OnDisk -> {"never", "null", "value", "failed"}]
      BY DEF Init, Entries
    <3>4. got \in [file : OnDisk \cup {None}, value : Entries]
      BY DEF Init, Entries
    <3>5. pending \in BOOLEAN
      BY DEF Init
    <3>6. request \in [dir : Dirs, required : BOOLEAN]
      BY DEF Init, NoRequest, ModulesAssumption
    <3> QED BY <3>1, <3>2, <3>3, <3>4, <3>5, <3>6 DEF TypeOK
  <2>3. NotReentered
    BY <2>1 DEF NotReentered, IsInjective
  <2>4. OwnValue /\ EmptyExplained /\ ValueIsFinal /\ TableExact
    BY <2>1 DEF Init, OwnValue, EmptyExplained, ValueIsFinal, TableExact, Null, Absent, Empty,
                ModulesAssumption, Files
  <2> QED BY <2>2, <2>3, <2>4 DEF ModulesSound
<1>2. ModulesSound /\ [Next]_vars => ModulesSound'
  <2> SUFFICES ASSUME ModulesSound, [Next]_vars PROVE ModulesSound'
    OBVIOUS
  <2>1. ASSUME NEW t \in Texts, NEW d \in Callers, NEW required \in BOOLEAN,
               requireNotFound(t, d, required) \/ requireNew(t, d, required) \/ requireLoaded(t, d)
        PROVE  ModulesSound'
    <3>1. t \in Files /\ d \in Dirs
      BY DEF Callers, ModulesAssumption, Files
    <3> QED BY <2>1, <3>1, NotFoundKeeps, NewKeeps, LoadedKeeps
  <2>2. CASE compileFails \/ throws \/ propagate
    BY <2>2, FailKeeps DEF compileFails, compiling, throws, propagate, active
  <2>3. CASE compileNothing \/ returns(Null)
    BY <2>3, StoreKeeps DEF compileNothing, compiling, returns, active
  <2>4. CASE running # << >> /\ returns(ValueOf(Last(running).prog))
    BY <2>4, StoreKeeps DEF returns
  <2>5. CASE catch \/ (\E f \in OnDisk : removeFile(f)) \/ UNCHANGED vars
    BY <2>5, OthersKeep
  <2>6. CASE \E p \in OnDisk : compileFile(p)
    BY <2>6, CompileKeeps
  <2> QED BY <2>1, <2>2, <2>3, <2>4, <2>5, <2>6 DEF Next
<1> QED BY <1>1, <1>2, PTL DEF Spec
=============================================================================
