--------------------------- MODULE MCInterpreter ---------------------------
(***************************************************************************)
(* The models of the interpreter in one state space: part says which of    *)
(* them moves, the variables of the others stay as they are: those of      *)
(* PropAccess as it starts, the rest Off.                                  *)
(***************************************************************************)
EXTENDS PropAccess, Execute, TLC

CONSTANTS
    o1, o2, x, y,
    main, middle, inner, f1, f2, s1, s2, v, Null,
    Off

VARIABLES
    part,
    func, held, locals, prog_refs, values, frame_stack, ret_stack_funcs, top_locals,
    exception, call_stack_overflow

accessVars == vars
callVars == <<func, held, locals, prog_refs, values, frame_stack, ret_stack_funcs, top_locals,
              exception, call_stack_overflow>>

\* One name, for which handlers nest up to the limit; two names with counters of their
\* own; and the name whose counter is never found
OneName == INSTANCE PropAccess WITH Names <- {x}
TwoNames == INSTANCE PropAccess WITH Names <- {x, y}, MaxDepth <- 3
NotANumber == INSTANCE PropAccess WITH Names <- {x, NaN}, MaxDepth <- 3

\* A program of three nested functions; the innermost uses a variable of the outermost
Nesting == (main :> Nil) @@ (middle :> main) @@ (inner :> middle)

Calls == INSTANCE CallStack WITH terminated <- exception, stack <- values,
    call_stack_funcs <- frame_stack, stack_func_locals <- top_locals,
    Decls <- {main, middle, inner}, Outer <- Nesting, Upvalue <- {main},
    Funcs <- {f1, f2}, Scopes <- {s1, s2}, Vals <- {v},
    Rets <- {2}, InitCapacity <- 8, MaxCallStack <- 2

ASSUME ExecuteAssumption

-----------------------------------------------------------------------------
\* The methods of o1 come from its prototype
MCPrototype == [o \in Objs |-> IF o = o1 THEN o2 ELSE Nil]

\* Guarded handlers of the class; handlers of the object itself; general handlers
\* that named ones hide; read only properties; and valueOf
MCHandlers ==
    { {o2} \X {"get", "set"},
      {<<o1, "get">>, <<o2, "set">>, <<o2, "del">>, <<o1, "isset">>},
      {<<o2, "get@">>, <<o1, "set@">>, <<o2, "get">>, <<o2, "set">>, <<o2, "isset">>},
      {<<o2, "get@">>, <<o2, "set">>, <<o2, "isset@">>, <<o2, "valueOf">>},
      {<<o2, "valueOf">>, <<o2, "get">>, <<o1, "del@">>} }

-----------------------------------------------------------------------------
AccessOff == Init /\ handlers = CHOOSE h \in Handlers : TRUE
CallsOff ==
    /\ func = Off /\ held = Off /\ locals = Off /\ prog_refs = Off /\ values = Off
    /\ frame_stack = Off /\ ret_stack_funcs = Off /\ top_locals = Off
    /\ exception = "no" /\ call_stack_overflow = Off

MCInit ==
    \/ part \in {"name", "names", "nan"} /\ Init /\ ExecuteInit /\ CallsOff
    \/ part = "execute" /\ ExecuteInit /\ AccessOff /\ CallsOff
    \/ part = "calls" /\ Calls!Init /\ AccessOff /\ ExecuteInit

MCNext ==
    /\ UNCHANGED part
    /\ \/ /\ \/ part = "name" /\ OneName!Next
             \/ part = "names" /\ TwoNames!Next
             \/ part = "nan" /\ NotANumber!Next
          /\ UNCHANGED <<executeVars, callVars>>
       \/ part = "execute" /\ ExecuteNext /\ UNCHANGED <<accessVars, callVars>>
       \/ part = "calls" /\ Calls!Next /\ UNCHANGED <<accessVars, executeVars>>
       \/ \* the program is freed
          part = "calls" /\ prog_refs = 0 /\ UNCHANGED <<accessVars, executeVars, callVars>>

mcVars == <<part, accessVars, executeVars, callVars>>

MCSpec ==
    /\ MCInit /\ [][MCNext]_mcVars
    /\ WF_mcVars(/\ part = "calls" /\ (Calls!catch \/ Calls!unwind)
                 /\ UNCHANGED <<part, accessVars, executeVars>>)

-----------------------------------------------------------------------------
\* Every exception is caught or leaves all frames: see CallStack.UnwindingEnds
UnwindingEnds == Calls!UnwindingEnds
=============================================================================
