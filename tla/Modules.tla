------------------------------ MODULE Modules ------------------------------
(***************************************************************************)
(* require(text): the text is resolved to a file, the table modulesLoaded  *)
(* is asked, and a file that is not there is compiled and its top function *)
(* called.  Before that an empty object is stored for the file, so that    *)
(* modules that require each other do not call each other for ever; it is  *)
(* what they then get, and what stays when the module fails.               *)
(*                                                                         *)
(* What compileFile gets is the name that was resolved, and it resolves it *)
(* once more: a path that is not absolute is looked for inside the         *)
(* caller's directory and inside require.paths again.  The program that    *)
(* runs may therefore be another file than the one the table has as key.   *)
(*                                                                         *)
(* A text or a file is a directory, a name and an extension.               *)
(***************************************************************************)
EXTENDS Naturals, Sequences, SequencesExt

CONSTANTS
    Dirs, Cwd, Names,
    Inside,         \* Inside[<<d, p, n>>]: where a text with path p and name n is looked for in d
    Paths,          \* require.paths
    Texts,          \* what scripts ask for
    Disks,          \* the sets of files that may exist at first
    SourceMustExist,    \* the setting sourcecode_must_exist
    MaxCalls        \* bound: requires made by one run of a module

\* OS_EXT_SOURCECODE, OS_EXT_TEMPLATE, OS_EXT_COMPILED
Exts == {"none", "source", "template", "compiled"}

Files == [dir : Dirs, name : Names, ext : Exts]

OnDisk == UNION Disks

\* The empty string: no file
None == [dir |-> Cwd, name |-> "none", ext |-> "none"]

\* d/p, or p: in the current directory, when p is absolute and when the text begins with d
ModulesAssumption ==
    /\ Cwd \in Dirs /\ "none" \notin Names /\ Paths \in Seq(Dirs \ {Cwd})
    /\ Inside \in [Dirs \X Dirs \X Names -> Dirs]
    /\ \A d \in Dirs, n \in Names : Inside[<<Cwd, d, n>>] = d /\ Inside[<<d, d, n>>] = d
    /\ Texts \subseteq Files /\ OnDisk \subseteq Files
    /\ SourceMustExist \in BOOLEAN /\ MaxCalls \in Nat

VARIABLES
    files,          \* the files that exist
    modulesLoaded,  \* [kind, by]: what is stored, and the program that returned it
    running,        \* the runs of require that are not over, the last one is active
    request,        \* the caller's directory and `required`, while compileFile has not been called
    pending,        \* an exception is on its way
    ended,          \* how the last finished run for a file ended
    got             \* the file asked for and the value of the last require that returned

vars == <<files, modulesLoaded, running, request, pending, ended, got>>

\* Nothing is stored, null or false is, the empty object of line 26298, the value of a program
Absent == [kind |-> "absent", by |-> None]
Null == [kind |-> "null", by |-> None]
Empty == [kind |-> "empty", by |-> None]
ValueOf(p) == [kind |-> "value", by |-> p]

NoRequest == [dir |-> Cwd, required |-> FALSE]

isTrue(v) == v.kind \in {"empty", "value"}

Init ==
    /\ files \in Disks
    /\ modulesLoaded = [f \in OnDisk |-> Absent]
    /\ running = << >>
    /\ request = NoRequest
    /\ pending = FALSE
    /\ ended = [f \in OnDisk |-> "never"]
    /\ got = [file |-> None, value |-> Null]

-----------------------------------------------------------------------------
(* Texts to files.                                                         *)

withExt(file, ext) == [file EXCEPT !.ext = ext]

\* getCompiledFilename: the extension is replaced
compiledOf(file) == withExt(file, "compiled")

\* What a text may stand for in one directory, the first that exists is taken
spelled(file) == IF file.ext = "none" THEN <<file, withExt(file, "source"), withExt(file, "template")>>
                                      ELSE <<file>>

placed(file, d) == [file EXCEPT !.dir = Inside[<<d, file.dir, file.name>>]]

\* The directories in which resolvePath looks, in order.  The first is that of the innermost
\* function whose program has a file.
searched(dir) == <<dir>> \o Paths \o <<Cwd>>

\* The first of them that exists, or None
firstFile(s) ==
    LET there == { i \in DOMAIN s : s[i] \in files }
    IN  IF there = {} THEN None ELSE s[CHOOSE i \in there : \A j \in there : i <= j]

resolveIn(file, d) == firstFile([i \in DOMAIN spelled(file) |-> placed(spelled(file)[i], d)])

search(file, dir) == firstFile([i \in DOMAIN searched(dir) |-> resolveIn(file, searched(dir)[i])])

resolvePath(file, dir) ==
    IF search(file, dir) = None /\ file.ext \in {"none", "template"} /\ ~SourceMustExist
    THEN search(compiledOf(file), dir)
    ELSE search(file, dir)

Running == { running[i].file : i \in DOMAIN running }

-----------------------------------------------------------------------------
(* require.                                                                *)

mayCall == ~pending /\ (running # << >> => Last(running).pc = "body" /\ Last(running).left > 0)

called == IF running = << >> THEN running ELSE [running EXCEPT ![Len(running)].left = @ - 1]

deliver(file, value) == got' = [file |-> file, value |-> value]

\* The text resolves to nothing
requireNotFound(text, dir, required) ==
    /\ mayCall /\ resolvePath(text, dir) = None
    /\ running' = called
    /\ IF required THEN pending' = TRUE /\ UNCHANGED got
                   ELSE deliver(None, Null) /\ UNCHANGED pending
    /\ UNCHANGED <<files, modulesLoaded, request, ended>>

\* modulesLoaded.getProperty(filename) || ...
requireLoaded(text, dir) ==
    LET f == resolvePath(text, dir) IN
    /\ mayCall /\ f # None /\ isTrue(modulesLoaded[f])
    /\ running' = called
    /\ deliver(f, modulesLoaded[f])
    /\ UNCHANGED <<files, modulesLoaded, request, pending, ended>>

\* Mutant: the module is not registered before its function runs
badBlock(f) == modulesLoaded' = modulesLoaded

\* block recursive require
block(f) == modulesLoaded' = [modulesLoaded EXCEPT ![f] = Empty]

requireNew(text, dir, required) ==
    LET f == resolvePath(text, dir) IN
    /\ mayCall /\ f # None /\ ~isTrue(modulesLoaded[f])
    /\ block(f)
    /\ running' = Append(called, [file |-> f, prog |-> None, pc |-> "compile", left |-> MaxCalls])
    /\ request' = [dir |-> dir, required |-> required]
    /\ UNCHANGED <<files, pending, ended, got>>

leave == running' = Front(running)

active == running # << >> /\ ~pending

\* The end of @{ ... }: the value is stored and returned
store(value) ==
    LET f == Last(running).file IN
    /\ modulesLoaded' = [modulesLoaded EXCEPT ![f] = value]
    /\ ended' = [ended EXCEPT ![f] = value.kind]
    /\ deliver(f, value)

\* An exception leaves the run: nothing is stored
fail ==
    /\ leave /\ request' = NoRequest /\ pending' = TRUE
    /\ ended' = [ended EXCEPT ![Last(running).file] = "failed"]
    /\ UNCHANGED <<files, modulesLoaded, got>>

-----------------------------------------------------------------------------
(* compileFile, which is given the resolved name.                          *)

compiling == active /\ Last(running).pc = "compile"

found == resolvePath(Last(running).file, request.dir)

\* The compiled file next to the source is preferred or not, and has to be readable
programs == IF SourceMustExist /\ found.ext = "compiled" THEN {} ELSE {found, compiledOf(found)} \cap files

compileFile(p) ==
    /\ compiling /\ p \in programs
    /\ running' = [running EXCEPT ![Len(running)].pc = "body", ![Len(running)].prog = p]
    /\ request' = NoRequest
    /\ UNCHANGED <<files, modulesLoaded, pending, ended, got>>

\* The text of a source has errors, or a required file is gone
compileFails ==
    /\ compiling
    /\ \/ found # None /\ found.ext # "compiled"
       \/ programs = {} /\ request.required
    /\ fail

\* A file that is gone and not required, or a compiled file that does not load: func is null,
\* and so is what it returns
compileNothing ==
    /\ compiling
    /\ IF programs = {} THEN ~request.required ELSE found.ext = "compiled"
    /\ store(Null) /\ leave /\ request' = NoRequest
    /\ UNCHANGED <<files, pending>>

\* The module returns; without a return statement a module returns an object
returns(value) ==
    /\ active /\ Last(running).pc = "body"
    /\ store(value) /\ leave
    /\ UNCHANGED <<files, request, pending>>

throws == active /\ Last(running).pc = "body" /\ fail

-----------------------------------------------------------------------------
(* Exceptions that a require raised, in the code that called it.           *)

\* A try block of the module, or the host between two calls
catch ==
    /\ pending /\ pending' = FALSE
    /\ UNCHANGED <<files, modulesLoaded, running, request, ended, got>>

propagate == pending /\ running # << >> /\ fail

\* Somebody deletes a file
removeFile(f) ==
    /\ f \in files
    /\ files' = files \ {f}
    /\ UNCHANGED <<modulesLoaded, running, request, pending, ended, got>>

\* Where the file of the innermost function can be; the host's code has none
Callers == {Cwd} \cup { p.dir : p \in OnDisk }

Next ==
    \/ \E t \in Texts, d \in Callers, required \in BOOLEAN :
            requireNotFound(t, d, required) \/ requireNew(t, d, required)
    \/ \E t \in Texts, d \in Callers : requireLoaded(t, d)
    \/ \E p \in OnDisk : compileFile(p)
    \/ compileFails \/ compileNothing
    \/ returns(Null)
    \/ running # << >> /\ returns(ValueOf(Last(running).prog))
    \/ throws \/ catch \/ propagate
    \/ \E f \in OnDisk : removeFile(f)

Spec == Init /\ [][Next]_vars

-----------------------------------------------------------------------------

Entries == {Absent, Null, Empty} \cup { ValueOf(p) : p \in OnDisk }

Run == [file : OnDisk, prog : OnDisk \cup {None}, pc : {"compile", "body"}, left : 0 .. MaxCalls]

(* The table holds nothing, null, the empty object or a program's value.   *)
TypeOK ==
    /\ files \subseteq OnDisk
    /\ modulesLoaded \in [OnDisk -> Entries]
    /\ running \in Seq(Run)
    /\ request \in [dir : Dirs, required : BOOLEAN]
    /\ pending \in BOOLEAN
    /\ ended \in [OnDisk -> {"never", "null", "value", "failed"}]
    /\ got \in [file : OnDisk \cup {None}, value : Entries]

(* The comment of line 26298: however modules require each other, nothing  *)
(* is started for a file while the run for that file is not over.          *)
NotReentered == IsInjective([i \in DOMAIN running |-> running[i].file])

(* No other file can be found when the resolved name f is resolved again.  *)
Alone(f) ==
    \A g \in OnDisk, d \in Dirs :
        g.name = f.name /\ g.dir = Inside[<<d, f.dir, f.name>>] => g \in {f, compiledOf(f)}

(* The program stands for the file: it has its name, and it is the file    *)
(* itself or compiled from it unless the second resolution can miss it.    *)
Own(f, p) == p.name = f.name /\ (Alone(f) => p \in {f, compiledOf(f)})

(* Nobody is given the value of a module of another name, nor that of      *)
(* another file when no second file can be found, whatever text and        *)
(* directory it was asked for with.                                        *)
OwnValue == got.value.kind = "value" => Own(got.file, got.value.by)

(* The empty object stands only for a file whose run is not over or whose  *)
(* last run failed; otherwise a require would return an object that was    *)
(* never a module's.                                                       *)
EmptyExplained ==
    \A f \in OnDisk : modulesLoaded[f] = Empty => f \in Running \/ ended[f] = "failed"

(* What gave a value for a file is never run for it a second time.         *)
ValueIsFinal == \A f \in OnDisk : ended[f] = "value" => f \notin Running

(* The table blocks what is running, and holds for every file nothing but  *)
(* a value of its own, for as long as one was returned.                    *)
TableExact ==
    /\ \A i \in DOMAIN running : running[i].pc = "body" => Own(running[i].file, running[i].prog)
    /\ \A f \in Running : modulesLoaded[f] = Empty
    /\ \A f \in OnDisk :
          /\ modulesLoaded[f].kind = "value" => Own(f, modulesLoaded[f].by)
          /\ ended[f] = "value" => modulesLoaded[f].kind = "value"

(* What scripts see of the modules they require.                           *)
ModulesSound == TypeOK /\ NotReentered /\ OwnValue /\ EmptyExplained /\ ValueIsFinal /\ TableExact

(* The comment of line 26298, `block recursive require`, said of programs: *)
(* none is started while it runs.  The code blocks the resolved name only. *)
BlocksRecursion ==
    \A i, j \in DOMAIN running : running[i].prog = running[j].prog /\ running[i].prog # None => i = j
=============================================================================
