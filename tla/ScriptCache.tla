---------------------------- MODULE ScriptCache ----------------------------
(***************************************************************************)
(* The compiled form of a script, kept in a file of the cache directory    *)
(* and shared by all worker threads of the FastCGI program.  compileFile   *)
(* compares the times of the two files, in seconds, and loads the compiled *)
(* file or compiles the source and writes the compiled file again; a file  *)
(* that is older than the process is not trusted.                          *)
(*                                                                         *)
(* A version stands for the text of the script and for what is compiled    *)
(* from it.  The compiled file is a sequence of chunks, the pieces that    *)
(* reach the disk one after the other; the first holds the header and 0 is *)
(* a chunk of zeros.  Nobody looks at the result of a write: when one      *)
(* fails the file stays as far as it was written.                          *)
(***************************************************************************)
EXTENDS Naturals, Sequences, SequencesExt

CONSTANTS
    Workers,
    FileLen,        \* chunks of a compiled file
    SlowRestart,    \* whether a new process starts in a later second than the last one ended
    MaxClock,       \* bound: seconds
    MaxVersion      \* bound: edits of the source

ScriptCacheAssumption ==
    /\ FileLen \in Nat \ {0} /\ SlowRestart \in BOOLEAN
    /\ MaxClock \in Nat \ {0} /\ MaxVersion \in Nat \ {0}

VARIABLES
    clock,
    source,         \* [mtime, version]
    compiled,       \* [exists, mtime, chunks]
    start_time,
    alive,          \* the process runs; when not, since when
    worker,         \* [pc, since, mtime, version, size, data]
    overlapped,     \* an edit fell between the reading of the source and the last write
    incomplete      \* the last writing of the compiled file failed

cacheVars == <<clock, source, compiled, start_time, alive, worker, overlapped, incomplete>>

Idle == [pc |-> "idle", since |-> 0, mtime |-> 0, version |-> 0, size |-> 0, data |-> << >>]

CacheInit ==
    /\ clock = 1
    /\ source = [mtime |-> 0, version |-> 1]
    /\ compiled = [exists |-> FALSE, mtime |-> 0, chunks |-> << >>]
    /\ start_time = 1
    /\ alive = [running |-> TRUE, since |-> 1]
    /\ worker = [w \in Workers |-> Idle]
    /\ overlapped = FALSE
    /\ incomplete = FALSE

working(w, pc) == alive.running /\ worker[w].pc = pc

-----------------------------------------------------------------------------
(* compileFile.                                                            *)

\* Whether the files exist; since is the version a request can count on
request(w) ==
    /\ working(w, "idle")
    /\ worker' = [worker EXCEPT ![w] =
            [Idle EXCEPT !.pc = IF compiled.exists THEN "stat" ELSE "source", !.since = source.version]]
    /\ UNCHANGED <<clock, source, compiled, start_time, alive, overlapped, incomplete>>

statSource(w) ==
    /\ working(w, "stat")
    /\ worker' = [worker EXCEPT ![w].pc = "usage", ![w].mtime = source.mtime]
    /\ UNCHANGED <<clock, source, compiled, start_time, alive, overlapped, incomplete>>

\* Mutant: the time the process started is left out
badMustCompile(mtime) == mtime >= compiled.mtime

mustCompile(mtime) == mtime >= compiled.mtime \/ compiled.mtime < start_time

checkFileUsage(w) ==
    /\ working(w, "usage")
    /\ worker' = [worker EXCEPT ![w].pc = IF mustCompile(worker[w].mtime) THEN "source" ELSE "open"]
    /\ UNCHANGED <<clock, source, compiled, start_time, alive, overlapped, incomplete>>

\* FileStreamReader opens the file, writeFromStream asks for its size
openCompiled(w) ==
    /\ working(w, "open")
    /\ worker' = [worker EXCEPT ![w].pc = "read", ![w].size = Len(compiled.chunks)]
    /\ UNCHANGED <<clock, source, compiled, start_time, alive, overlapped, incomplete>>

\* readBytes fills the buffer with zeros when the file is shorter by now
readCompiled(w) ==
    LET n == worker[w].size IN
    /\ working(w, "read")
    /\ worker' = [worker EXCEPT ![w].pc = "parse", ![w].data =
            IF Len(compiled.chunks) >= n THEN SubSeq(compiled.chunks, 1, n)
            ELSE [i \in 1 .. n |-> 0]]
    /\ UNCHANGED <<clock, source, compiled, start_time, alive, overlapped, incomplete>>

\* The reader stays inside the buffer: there is a header, and if it is right the rest
InBounds(data) == data # << >> /\ (data[1] = 0 \/ Len(data) = FileLen)

\* loadFromStream: a wrong header makes compileFile compile the source after all
loadFromStream(w) ==
    LET d == worker[w].data IN
    /\ working(w, "parse") /\ InBounds(d)
    /\ worker' = [worker EXCEPT ![w].pc = IF d[1] = 0 THEN "source" ELSE "run",
                                ![w].version = d[1]]
    /\ UNCHANGED <<clock, source, compiled, start_time, alive, overlapped, incomplete>>

readSource(w) ==
    /\ working(w, "source")
    /\ worker' = [worker EXCEPT ![w].pc = "create", ![w].version = source.version]
    /\ UNCHANGED <<clock, source, compiled, start_time, alive, overlapped, incomplete>>

\* FileStreamWriter opens the file with "wb", and does nothing further if it cannot
createCompiled(w) ==
    /\ working(w, "create")
    /\ \/ /\ compiled' = [exists |-> TRUE, mtime |-> clock, chunks |-> << >>]
          /\ worker' = [worker EXCEPT ![w].pc = "write", ![w].data = << >>]
          /\ overlapped' = (source.version # worker[w].version)
          /\ incomplete' = FALSE
       \/ /\ worker' = [worker EXCEPT ![w].pc = "run"]
          /\ UNCHANGED <<compiled, overlapped, incomplete>>
    /\ UNCHANGED <<clock, source, start_time, alive>>

\* A chunk at a position of the file, with zeros before it if the file is too short
written(f, i, c) ==
    [j \in 1 .. (IF i > Len(f) THEN i ELSE Len(f)) |-> IF j = i THEN c ELSE IF j <= Len(f) THEN f[j] ELSE 0]

\* The next chunk reaches the disk, or writing fails there; in the end the compiler runs
\* what it has compiled, which it does not read from the file
writeCompiled(w) ==
    LET d == Append(worker[w].data, worker[w].version) IN
    /\ working(w, "write")
    /\ \/ /\ compiled' = [compiled EXCEPT !.mtime = clock, !.chunks = written(@, Len(d), worker[w].version)]
          /\ worker' = [worker EXCEPT ![w].data = d, ![w].pc = IF Len(d) = FileLen THEN "run" ELSE "write"]
          /\ UNCHANGED incomplete
       \/ /\ worker' = [worker EXCEPT ![w].pc = "run"]
          /\ incomplete' = TRUE
          /\ UNCHANGED compiled
    /\ UNCHANGED <<clock, source, start_time, alive, overlapped>>

\* The script ran
done(w) ==
    /\ working(w, "run")
    /\ worker' = [worker EXCEPT ![w] = Idle]
    /\ UNCHANGED <<clock, source, compiled, start_time, alive, overlapped, incomplete>>

-----------------------------------------------------------------------------
(* The world around: time, the author of the script, the death and start   *)
(* of the process.                                                         *)

tick ==
    /\ clock < MaxClock
    /\ clock' = clock + 1
    /\ UNCHANGED <<source, compiled, start_time, alive, worker, overlapped, incomplete>>

edit ==
    /\ source.version < MaxVersion
    /\ source' = [mtime |-> clock, version |-> source.version + 1]
    /\ overlapped' = (overlapped \/ \E w \in Workers : worker[w].pc = "write")
    /\ UNCHANGED <<clock, compiled, start_time, alive, worker, incomplete>>

crash ==
    /\ alive.running
    /\ alive' = [running |-> FALSE, since |-> clock]
    /\ worker' = [w \in Workers |-> Idle]
    /\ UNCHANGED <<clock, source, compiled, start_time, overlapped, incomplete>>

\* initStartTime creates a file and takes its time
initStartTime ==
    /\ ~alive.running
    /\ SlowRestart => clock > alive.since
    /\ alive' = [running |-> TRUE, since |-> clock]
    /\ start_time' = clock
    /\ UNCHANGED <<clock, source, compiled, worker, overlapped, incomplete>>

step(w) ==
    \/ request(w) \/ statSource(w) \/ checkFileUsage(w)
    \/ openCompiled(w) \/ readCompiled(w) \/ loadFromStream(w)
    \/ readSource(w) \/ createCompiled(w) \/ writeCompiled(w) \/ done(w)

CacheNext ==
    \/ \E w \in Workers : step(w)
    \/ tick \/ edit \/ crash \/ initStartTime

CacheSpec == CacheInit /\ [][CacheNext]_cacheVars

-----------------------------------------------------------------------------
(* Properties.                                                             *)

Versions == 0 .. MaxVersion

\* Every worker is at a step of compileFile with data that step can have
CacheTypeOK ==
    /\ clock \in 1 .. MaxClock /\ start_time \in 1 .. clock
    /\ source \in [mtime : 0 .. clock, version : Versions]
    /\ compiled.mtime \in 0 .. clock /\ compiled.exists \in BOOLEAN
    /\ \A i \in DOMAIN compiled.chunks : i <= FileLen /\ compiled.chunks[i] \in Versions
    /\ \A w \in Workers :
          /\ worker[w].pc \in {"idle", "stat", "usage", "open", "read", "parse", "run", "source", "create", "write"}
          /\ worker[w].version <= source.version
    /\ overlapped \in BOOLEAN /\ incomplete \in BOOLEAN

\* MemStreamReader asserts that no read goes past the end of the data: a compiled file
\* is never parsed before it is complete, be its writer another worker or a process
\* that died in the middle, unless a write failed: what that left is as young as a
\* complete file and trusted like one
LoadsInBounds ==
    \A w \in Workers : worker[w].pc = "parse" => InBounds(worker[w].data) \/ incomplete

\* A request runs the source as it was when the request came, or a newer one, unless the
\* source was edited while it was being compiled: a time of one second does not tell a
\* file compiled from the source of this second from a later one
FreshUnlessOverlapped ==
    \A w \in Workers :
        worker[w].pc = "run" /\ worker[w].version < worker[w].since => overlapped

\* What is loaded is complete, and what is run is fresh.
CacheSound == CacheTypeOK /\ LoadsInBounds /\ FreshUnlessOverlapped
=============================================================================
