---------------------------- MODULE MCCompiler ----------------------------
(***************************************************************************)
(* The models of the compiler, of compiled files and of require in one     *)
(* state space: part says which of them moves, the variables of the others *)
(* stay as they are: those of Modules as it starts, the rest Off.          *)
(***************************************************************************)
EXTENDS Modules, TLC

CONSTANTS x, y, Off

VARIABLES
    part,
    scopes, cur, code,
    prog_opcodes, open, functions, constructs, leaves,
    source, stream, pos, section, k, i, num_index, count, prog

moduleVars == vars
scopeVars == <<scopes, cur, code>>
jumpVars == <<prog_opcodes, open, functions, constructs, leaves>>
streamVars == <<source, stream, pos, section, k, i, num_index, count, prog>>

-----------------------------------------------------------------------------
\* Two accesses to a variable, or one to one of two variables, in functions inside functions;
\* both in fewer scopes; and two names that may share their slots
Pairs == INSTANCE Scopes WITH Names <- {x}, MaxScopes <- 4, MaxAccesses <- 2, MaxDecls <- 1
Shadows == INSTANCE Scopes WITH Names <- {x}, MaxScopes <- 4, MaxAccesses <- 1, MaxDecls <- 2
OneName == INSTANCE Scopes WITH Names <- {x}, MaxScopes <- 3, MaxAccesses <- 2, MaxDecls <- 2
TwoNames == INSTANCE Scopes WITH Names <- {x, y}, MaxScopes <- 3, MaxAccesses <- 1, MaxDecls <- 2

\* Every kind of loop, and deeper programs with one
Wide == INSTANCE Jumps WITH
    LoopKinds <- {"while", "for", "do", "forin"}, MaxConstructs <- 3, MaxLeaves <- 2, MaxCases <- 1
Deep == INSTANCE Jumps WITH
    LoopKinds <- {"while"}, MaxConstructs <- 4, MaxLeaves <- 1, MaxCases <- 1

ASSUME Pairs!ScopesAssumption /\ Shadows!ScopesAssumption
ASSUME OneName!ScopesAssumption /\ TwoNames!ScopesAssumption
ASSUME Wide!JumpsAssumption /\ Deep!JumpsAssumption

-----------------------------------------------------------------------------
\* Numbers of every kind and at the limits of the bytes of an encoding, in
\* every order; functions with and without variables and try blocks
int(n) == [kind |-> "int", val |-> n]
Numbers == {int(127), int(2147483647), [kind |-> "float", val |-> 128], [kind |-> "double", val |-> 1]}

HeadOf(parent, locals, tries, at) ==
    [parent |-> parent, stack_size |-> 9, num_locals |-> locals, num_params |-> 200, max_up_count |-> 3,
     func_depth |-> 4, func_index |-> parent + 1, num_local_funcs |-> 5, num_try_blocks |-> tries,
     opcodes_pos |-> at, opcodes_size |-> 400]

Main == [head |-> HeadOf(-1, 0, 0, 1), locals |-> << >>, tries |-> << >>]
Inner == [head |-> HeadOf(0, 2, 2, 130),
          locals |-> << [name |-> 0, start |-> 130, end |-> 530, upvalue |-> 1],
                        [name |-> 1, start |-> 257, end |-> 258, upvalue |-> 0] >>,
          tries |-> << [start |-> 131, end |-> 257, catch |-> 1], [start |-> 130, end |-> 530, catch |-> 0] >>]

MCPrograms ==
    LET written(numbers, heads, lines) ==
            { [numbers |-> n, strings |-> s, filename |-> Len(s) - 1, funcs |-> f,
               opcodes |-> <<2147483647, 128>>, debug |-> d] :
                n \in numbers, s \in { << << >> >>, << <<65, 200>>, << >> >> },
                f \in heads, d \in lines }
    IN  written(SeqOf(Numbers, 2), { <<Main>>, <<Main, Inner>> },
                 { << >>, << [line |-> 1, pos |-> 128], [line |-> 16384, pos |-> 2] >> })
        \cup written(SeqOf(Numbers, 3), { <<Main>> }, { << >> })

Stream == INSTANCE ProgramStream WITH Programs <- MCPrograms

\* The directory app has another lib; what is not listed is found nowhere
MCDirs == {"cwd", "app", "lib", "app/lib", "elsewhere"}
MCInside ==
    [ <<d, p, n>> \in MCDirs \X MCDirs \X {"a", "b"} |->
        CASE d = "cwd" \/ p = d -> p
          [] p = "cwd" -> d
          [] d = "app" /\ p \in {"lib", "app/lib"} -> "app/lib"
          [] OTHER -> "elsewhere" ]
MCPaths == <<"lib">>

file(dir, name, ext) == [dir |-> dir, name |-> name, ext |-> ext]

\* A module that hides another of its name and may be compiled; or two that require each other
MCDisks ==
    LET hidden == file("lib", "a", "source")
        hides == file("app/lib", "a", "source")
    IN  { {hidden, hides, file("app/lib", "a", "compiled")}, {hidden, file("app", "b", "compiled")} }
MCTexts == {file("cwd", "a", "none"), file("lib", "a", "none"), file("cwd", "b", "none")}

ASSUME ModulesAssumption

-----------------------------------------------------------------------------
ScopesOff == scopes = Off /\ cur = Off /\ code = Off
JumpsOff == prog_opcodes = Off /\ open = Off /\ functions = Off /\ constructs = Off /\ leaves = Off
StreamOff ==
    /\ source = Off /\ stream = Off /\ pos = Off /\ section = Off /\ k = Off /\ i = Off
    /\ num_index = Off /\ count = Off /\ prog = Off

MCInit ==
    /\ Init
    /\ \/ part = "pairs" /\ Pairs!Init /\ JumpsOff /\ StreamOff
       \/ part = "shadows" /\ Shadows!Init /\ JumpsOff /\ StreamOff
       \/ part = "name" /\ OneName!Init /\ JumpsOff /\ StreamOff
       \/ part = "names" /\ TwoNames!Init /\ JumpsOff /\ StreamOff
       \/ part = "wide" /\ Wide!Init /\ ScopesOff /\ StreamOff
       \/ part = "deep" /\ Deep!Init /\ ScopesOff /\ StreamOff
       \/ part = "stream" /\ Stream!Init /\ ScopesOff /\ JumpsOff
       \/ part = "loader" /\ ScopesOff /\ JumpsOff /\ StreamOff
    /\ part # "loader" => files = CHOOSE disk \in Disks : TRUE

\* The text has been compiled
Over ==
    /\ \/ part \in {"pairs", "shadows", "name", "names"} /\ OneName!Compiled
       \/ part = "wide" /\ Wide!Written
       \/ part = "deep" /\ Deep!Written
    /\ UNCHANGED <<scopeVars, jumpVars, streamVars, moduleVars>>

MCNext ==
    /\ UNCHANGED part
    /\ \/ part = "pairs" /\ Pairs!Next /\ UNCHANGED <<jumpVars, streamVars, moduleVars>>
       \/ part = "shadows" /\ Shadows!Next /\ UNCHANGED <<jumpVars, streamVars, moduleVars>>
       \/ part = "name" /\ OneName!Next /\ UNCHANGED <<jumpVars, streamVars, moduleVars>>
       \/ part = "names" /\ TwoNames!Next /\ UNCHANGED <<jumpVars, streamVars, moduleVars>>
       \/ part = "wide" /\ Wide!Next /\ UNCHANGED <<scopeVars, streamVars, moduleVars>>
       \/ part = "deep" /\ Deep!Next /\ UNCHANGED <<scopeVars, streamVars, moduleVars>>
       \/ part = "stream" /\ Stream!Next /\ UNCHANGED <<scopeVars, jumpVars, moduleVars>>
       \/ part = "loader" /\ Next /\ UNCHANGED <<scopeVars, jumpVars, streamVars>>
       \/ Over

MCSpec == MCInit /\ [][MCNext]_<<part, scopeVars, jumpVars, streamVars, moduleVars>>

-----------------------------------------------------------------------------
\* Variables get slots and names reach them: see Scopes.VariablesPlaced
SlotsSound ==
    /\ part = "pairs" => Pairs!VariablesPlaced
    /\ part = "shadows" => Shadows!VariablesPlaced
    /\ part = "name" => OneName!VariablesPlaced
    /\ part = "names" => TwoNames!VariablesPlaced

\* A read finds what an assignment before it found: see Scopes.ReadsWhatWasAssigned
ReadsWhatWasAssigned ==
    /\ part = "pairs" => Pairs!ReadsWhatWasAssigned
    /\ part = "name" => OneName!ReadsWhatWasAssigned

\* Every jump goes where the text says: see Jumps.JumpsLand
JumpsLand == (part = "wide" => Wide!JumpsLand) /\ (part = "deep" => Deep!JumpsLand)

\* The closest try block catches: see Jumps.HandlerInnermost
HandlerInnermost == (part = "wide" => Wide!HandlerInnermost) /\ (part = "deep" => Deep!HandlerInnermost)

\* Loading gives what was compiled: see ProgramStream.StreamExact
StreamExact == part = "stream" => Stream!StreamExact
=============================================================================
