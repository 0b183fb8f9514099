--------------------------- MODULE ProgramStream ---------------------------
(***************************************************************************)
(* A compiled program is written into a stream of bytes by the compiler    *)
(* and read back by loadFromStream, which knows nothing but the bytes: the *)
(* two must agree on every order, encoding and base.  The writer is a      *)
(* function from a program to its bytes, the reader is a machine with a    *)
(* position, one step per item it loads.  The bytes of a floating point    *)
(* number are abstract.                                                    *)
(***************************************************************************)
EXTENDS Integers, Sequences, SequencesExt, TLC

CONSTANTS
    Programs        \* [numbers, strings, filename, funcs, opcodes, debug]

VARIABLES
    source,         \* the program of the compiler
    stream,         \* its bytes
    pos,            \* the bytes that have been read
    section, k, i,  \* the loop of the reader, its kind of numbers or function, its count
    num_index,
    count,          \* what the head of the stream says
    prog            \* what has been loaded

vars == <<source, stream, pos, section, k, i, num_index, count, prog>>

-----------------------------------------------------------------------------
(* Encodings.                                                              *)

writeUVariable(value) ==
    LET w[v \in Nat] == IF v >= 127 THEN <<(v % 128) + 128>> \o w[v \div 128] ELSE <<v>>
    IN  w[value]

writeInt32(v) == <<v % 256, (v \div 256) % 256, (v \div 65536) % 256, v \div 16777216>>

Byte(p) == IF p < Len(stream) THEN stream[p + 1] ELSE 0

\* The value and the position after it
readUVariable(p) ==
    LET r[j \in Nat] == IF Byte(p + j) >= 128 THEN (Byte(p + j) - 128) + 128 * r[j + 1] ELSE Byte(p + j)
        last == CHOOSE j \in 0 .. 4 : Byte(p + j) < 128 /\ \A h \in 0 .. j - 1 : Byte(p + h) >= 128
    IN  [val |-> r[0], pos |-> p + last + 1]

readInt32(p) ==
    Byte(p) + 256 * Byte(p + 1) + 65536 * Byte(p + 2) + 16777216 * Byte(p + 3)

\* The position after n variables, which end with a byte below 128 each
after(p, n) ==
    Min({ q \in p .. p + 5 * n : Cardinality({ x \in p .. q - 1 : Byte(x) < 128 }) = n })

\* The values of n variables in a row, and the position after them
readN(p, n) == [vals |-> [j \in 1 .. n |-> readUVariable(after(p, j - 1)).val], pos |-> after(p, n)]

-----------------------------------------------------------------------------
(* The writer.                                                             *)

\* A number belongs to the first kind that holds it exactly
NumKinds == <<"int", "float", "double", "long double">>
Width == [int |-> 0, float |-> 4, double |-> 8] @@ ("long double" :> 16)

writeNumber(x) == IF x.kind = "int" THEN writeUVariable(x.val)
                  ELSE [b \in 1 .. Width[x.kind] |-> IF b = 1 THEN x.val ELSE 0]

OfKind(p, kind) == SelectSeq([n \in DOMAIN p.numbers |-> n - 1], LAMBDA n : p.numbers[n + 1].kind = kind)

\* Every kind has a stream of its own with the distances of the indices
numberStream(p, kind) ==
    LET ixs == OfKind(p, kind)
    IN  FlattenSeq([n \in DOMAIN ixs |->
            writeUVariable(ixs[n] - (IF n = 1 THEN 0 ELSE ixs[n - 1])) \o writeNumber(p.numbers[ixs[n] + 1])])

headWritten == <<"parent", "stack_size", "num_locals", "num_params", "max_up_count", "func_depth",
                 "func_index", "num_local_funcs", "num_try_blocks", "opcodes_pos", "opcodes_size">>

writeFunc(f) ==
    FlattenSeq([n \in DOMAIN headWritten |->
        writeUVariable(f.head[headWritten[n]] + (IF headWritten[n] = "parent" THEN 1 ELSE 0))])
    \o FlattenSeq([n \in DOMAIN f.locals |->
        LET v == f.locals[n]
        IN  writeUVariable(v.name) \o writeUVariable(v.start - f.head.opcodes_pos)
                \o writeUVariable(v.end - f.head.opcodes_pos) \o <<v.upvalue>>])
    \o FlattenSeq([n \in DOMAIN f.tries |->
        LET t == f.tries[n]
        IN  writeUVariable(t.start - f.head.opcodes_pos) \o writeUVariable(t.end - f.head.opcodes_pos)
                \o writeUVariable(t.catch)])

\* Header and version are one byte each here, after the length of the version
Header == 79
Version == 2

saveToStream(p, version) ==
    <<Header, 1, version>>
    \o FlattenSeq([n \in 1 .. 4 |-> writeUVariable(Len(OfKind(p, NumKinds[n])))])
    \o writeUVariable(Len(p.strings)) \o writeUVariable(Len(p.funcs)) \o writeUVariable(Len(p.opcodes))
    \o writeUVariable(Len(p.debug)) \o writeUVariable(p.filename)
    \o FlattenSeq([n \in 1 .. 4 |-> numberStream(p, NumKinds[n])])
    \o FlattenSeq([n \in DOMAIN p.strings |-> writeUVariable(Len(p.strings[n])) \o p.strings[n]])
    \o FlattenSeq([n \in DOMAIN p.funcs |-> writeFunc(p.funcs[n])])
    \o FlattenSeq([n \in DOMAIN p.opcodes |-> writeInt32(p.opcodes[n])])
    \o FlattenSeq([n \in DOMAIN p.debug |-> writeUVariable(p.debug[n].line) \o writeUVariable(p.debug[n].pos)])

-----------------------------------------------------------------------------
(* The reader.                                                             *)

Unread == [numbers |-> << >>, strings |-> << >>, filename |-> 0, funcs |-> << >>,
           opcodes |-> << >>, debug |-> << >>]
NoCounts == [numbers |-> <<0, 0, 0, 0>>, strings |-> 0, funcs |-> 0, opcodes |-> 0, debug |-> 0]
Garbage == [kind |-> "garbage", val |-> 0]

Init ==
    /\ source \in Programs
    /\ \E v \in {Version, Version + 1} : stream = saveToStream(source, v)
    /\ pos = 0 /\ section = "head" /\ k = 1 /\ i = 0 /\ num_index = 0
    /\ count = NoCounts /\ prog = Unread

goto(s) == section' = s /\ k' = 1 /\ i' = 0

\* The header or the version is another one: false is returned
refuse ==
    /\ section = "head" /\ (Byte(0) # Header \/ Byte(2) # Version)
    /\ section' = "refused"
    /\ UNCHANGED <<source, stream, pos, k, i, num_index, count, prog>>

readHead ==
    LET r == readN(3, 9)  v == r.vals IN
    /\ section = "head" /\ Byte(0) = Header /\ Byte(2) = Version
    /\ pos' = r.pos
    /\ count' = [numbers |-> SubSeq(v, 1, 4), strings |-> v[5], funcs |-> v[6], opcodes |-> v[7], debug |-> v[8]]
    /\ prog' = [prog EXCEPT !.numbers = [n \in 1 .. v[1] + v[2] + v[3] + v[4] |-> Garbage], !.filename = v[9]]
    /\ goto("numbers")
    /\ UNCHANGED <<source, stream, num_index>>

\* The index starts again for every kind
firstIndex == IF i = 0 THEN 0 ELSE num_index

readNumber ==
    LET d == readUVariable(pos)
        kind == NumKinds[k]
        val == IF kind = "int" THEN readUVariable(d.pos)
               ELSE [val |-> Byte(d.pos), pos |-> d.pos + Width[kind]]
    IN
    /\ section = "numbers" /\ k <= 4 /\ i < count.numbers[k]
    /\ num_index' = firstIndex + d.val
    /\ prog' = IF num_index' + 1 \in DOMAIN prog.numbers
               THEN [prog EXCEPT !.numbers[num_index' + 1] = [kind |-> kind, val |-> val.val]] ELSE prog
    /\ pos' = val.pos /\ i' = i + 1
    /\ UNCHANGED <<source, stream, section, k, count>>

nextKind ==
    /\ section = "numbers" /\ k <= 4 /\ i >= count.numbers[k]
    /\ IF k < 4 THEN k' = k + 1 /\ i' = 0 /\ UNCHANGED section ELSE goto("strings")
    /\ UNCHANGED <<source, stream, pos, num_index, count, prog>>

readString ==
    LET size == readUVariable(pos) IN
    /\ section = "strings" /\ i < count.strings
    /\ prog' = [prog EXCEPT !.strings = Append(@, [b \in 1 .. size.val |-> Byte(size.pos + b - 1)])]
    /\ pos' = size.pos + size.val /\ i' = i + 1
    /\ UNCHANGED <<source, stream, section, k, num_index, count>>

headRead == <<"parent", "stack_size", "num_locals", "num_params", "max_up_count", "func_depth",
              "func_index", "num_local_funcs", "num_try_blocks", "opcodes_pos", "opcodes_size">>

\* Mutant: the positions of a function are taken from the start of the file
badBase(f) == 0

base(f) == f.head.opcodes_pos

readFuncHead ==
    LET r == readN(pos, 11)
        head == [x \in Range(headRead) |->
                    r.vals[CHOOSE n \in 1 .. 11 : headRead[n] = x] - (IF x = "parent" THEN 1 ELSE 0)]
    IN
    /\ section = "funcs" /\ Len(prog.funcs) < count.funcs
    /\ prog' = [prog EXCEPT !.funcs = Append(@, [head |-> head, locals |-> << >>, tries |-> << >>])]
    /\ pos' = r.pos /\ goto("locals")
    /\ UNCHANGED <<source, stream, num_index, count>>

current == prog.funcs[Len(prog.funcs)]

readLocal ==
    LET r == readN(pos, 3)
        v == [name |-> r.vals[1], start |-> r.vals[2] + base(current), end |-> r.vals[3] + base(current),
              upvalue |-> Byte(r.pos)]
    IN
    /\ section = "locals" /\ i < current.head.num_locals
    /\ prog' = [prog EXCEPT !.funcs[Len(prog.funcs)].locals = Append(@, v)]
    /\ pos' = r.pos + 1 /\ i' = i + 1
    /\ UNCHANGED <<source, stream, section, k, num_index, count>>

readTryBlock ==
    LET r == readN(pos, 3)
        t == [start |-> r.vals[1] + base(current), end |-> r.vals[2] + base(current), catch |-> r.vals[3]]
    IN
    /\ section = "tries" /\ i < current.head.num_try_blocks
    /\ prog' = [prog EXCEPT !.funcs[Len(prog.funcs)].tries = Append(@, t)]
    /\ pos' = r.pos /\ i' = i + 1
    /\ UNCHANGED <<source, stream, section, k, num_index, count>>

readOpcode ==
    /\ section = "opcodes" /\ i < count.opcodes
    /\ prog' = [prog EXCEPT !.opcodes = Append(@, readInt32(pos))]
    /\ pos' = pos + 4 /\ i' = i + 1
    /\ UNCHANGED <<source, stream, section, k, num_index, count>>

readDebugInfo ==
    LET r == readN(pos, 2) IN
    /\ section = "debug" /\ i < count.debug
    /\ prog' = [prog EXCEPT !.debug = Append(@, [line |-> r.vals[1], pos |-> r.vals[2]])]
    /\ pos' = r.pos /\ i' = i + 1
    /\ UNCHANGED <<source, stream, section, k, num_index, count>>

\* A loop is over
nextSection ==
    /\ CASE section = "strings" -> i >= count.strings /\ goto("funcs")
         [] section = "locals" -> i >= current.head.num_locals /\ goto("tries")
         [] section = "tries" -> i >= current.head.num_try_blocks /\ goto("funcs")
         [] section = "funcs" -> Len(prog.funcs) >= count.funcs /\ goto("opcodes")
         [] section = "opcodes" -> i >= count.opcodes /\ goto("debug")
         [] section = "debug" -> i >= count.debug /\ goto("done")
         [] OTHER -> FALSE
    /\ UNCHANGED <<source, stream, pos, num_index, count, prog>>

\* The caller has its program, or compiles the source
over == section \in {"done", "refused"} /\ UNCHANGED vars

Next ==
    \/ refuse \/ readHead \/ readNumber \/ nextKind \/ readString
    \/ readFuncHead \/ readLocal \/ readTryBlock \/ readOpcode \/ readDebugInfo \/ nextSection \/ over

Spec == Init /\ [][Next]_vars

-----------------------------------------------------------------------------

(* The reader never passes the end of what saveToStream wrote, and a       *)
(* program that has been loaded has used up all of it.                     *)
ReadsExactly == pos <= Len(stream) /\ (section = "done" => pos = Len(stream))

(* The program that was compiled is the program that runs, every number,   *)
(* function, scope of a variable, try block and line of it.                *)
LoadedIsCompiled == section = "done" => prog = source

(* Loading gives the program that was compiled, from exactly its bytes.    *)
StreamExact == ReadsExactly /\ LoadedIsCompiled
=============================================================================
