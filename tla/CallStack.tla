----------------------------- MODULE CallStack -----------------------------
(***************************************************************************)
(* Calls, closures and exceptions.  Every activation of a script function  *)
(* has a StackFunction in call_stack_funcs and a Locals object.  Locals    *)
(* points into the value stack while the function runs; functions created  *)
(* by the activation keep it alive, and clearStackFunction then moves the  *)
(* captured variables to the heap.  C++ code calls functions through       *)
(* nested runs of execute, and an exception leaves frame after frame until *)
(* a try block catches it.                                                 *)
(*                                                                         *)
(* Every function has one variable, its first parameter, after the slots   *)
(* of the function and of `this'.  Function values are held by the program *)
(* or found by the collector as garbage, which is the subject of RefGC.    *)
(***************************************************************************)
EXTENDS Naturals, Sequences, FiniteSets, SequencesExt, FiniteSetsExt

CONSTANTS
    Decls,          \* FunctionDecl objects of one program
    Outer,          \* the enclosing function of each, Nil for the outermost
    Upvalue,        \* those whose variable is used by an inner function
    Funcs,          \* memory for GCFunctionValue objects
    Scopes,         \* memory for Locals objects
    Vals,
    Null, Nil,
    Rets,           \* numbers of values a call may ask for
    InitCapacity,   \* of the value stack
    MaxCallStack    \* max_call_stack

ASSUME CallStackAssumption ==
    /\ Outer \in [Decls -> Decls \cup {Nil}] /\ Nil \notin Decls
    /\ Upvalue \subseteq Decls
    /\ Nil \notin Funcs /\ Nil \notin Scopes
    /\ Rets \subseteq Nat /\ InitCapacity \in Nat /\ MaxCallStack \in Nat
    /\ IsFiniteSet(Funcs) /\ IsFiniteSet(Scopes) /\ IsFiniteSet(Rets)

VARIABLES
    func,               \* func[f]: [decl, locals], or NoFunc
    held,               \* function values that objects or C++ code refer to
    locals,             \* locals[s]: [decl, ref_count, parents, values], or NoLocals
    prog_refs,          \* Program::ref_count
    stack,              \* [capacity, values]: stack_values
    call_stack_funcs,   \* [func, locals, pos, caller_size, need, sub_funcs, in_try]
    ret_stack_funcs,    \* one entry for every nested run of execute
    stack_func_locals,  \* the cached pointer to the variables of the top frame
    terminated,         \* "no", "exception" or "exit"
    call_stack_overflow

memory == <<func, locals, prog_refs>>
calls == <<call_stack_funcs, ret_stack_funcs>>
vars == <<memory, held, stack, calls, stack_func_locals, terminated, call_stack_overflow>>

NoFunc == [decl |-> Nil, locals |-> Nil]

NoLocals == [decl |-> Nil, ref_count |-> 0, parents |-> << >>, values |-> Nil]

\* Locals::values: into the stack (a buffer is known by its capacity), or on the heap
InStack(capacity, pos) == [capacity |-> capacity, pos |-> pos, heap |-> Null]
OnHeap(v) == [capacity |-> 0, pos |-> 0, heap |-> v]

LiveFuncs == {f \in Funcs : func[f] # NoFunc}
LiveLocals == {s \in Scopes : locals[s] # NoLocals}
Frames == DOMAIN call_stack_funcs
Running == call_stack_funcs # << >>
Top == Last(call_stack_funcs)

\* The function value of the compiled program
Init ==
    \E f \in Funcs, d \in {d \in Decls : Outer[d] = Nil} :
        /\ func = [g \in Funcs |-> IF g = f THEN [decl |-> d, locals |-> Nil] ELSE NoFunc]
        /\ held = {f}
        /\ locals = [s \in Scopes |-> NoLocals]
        /\ prog_refs = 1
        /\ stack = [capacity |-> InitCapacity, values |-> << >>]
        /\ call_stack_funcs = << >>
        /\ ret_stack_funcs = << >>
        /\ stack_func_locals = Nil
        /\ terminated = "no"
        /\ call_stack_overflow = FALSE

-----------------------------------------------------------------------------
(* The value stack.  A frame has PRE_VARS slots, its variable and room for *)
(* the call it makes.                                                      *)

PRE_VARS == 2
CallParams == PRE_VARS + 1
NumLocals == CallParams
StackSize == NumLocals + Max(Rets \cup {CallParams})

Nulls(n) == [k \in 1 .. n |-> Null]

\* The capacity after reserveStackValues(n); the rounding to 16 is left out
NewCapacity(n) ==
    IF n <= stack.capacity THEN stack.capacity
    ELSE IF n <= 2 * stack.capacity THEN 2 * stack.capacity ELSE n

\* Mutant: only the top frame's variables move
badMovedLocals(n) ==
    [s \in Scopes |->
        IF Running /\ Top.locals = s
        THEN [locals[s] EXCEPT !.values.capacity = NewCapacity(n)]
        ELSE locals[s]]

\* growStackValues: every running function's variables move with the stack
movedLocals(n) ==
    [s \in Scopes |->
        IF \E k \in Frames : call_stack_funcs[k].locals = s
        THEN [locals[s] EXCEPT !.values.capacity = NewCapacity(n)]
        ELSE locals[s]]

movedCache(n) ==
    stack_func_locals' = IF Running THEN movedLocals(n)[Top.locals].values ELSE Nil

reloadStackFunctionCache ==
    stack_func_locals' = IF call_stack_funcs' = << >> THEN Nil
                         ELSE locals'[Last(call_stack_funcs').locals].values

-----------------------------------------------------------------------------
(* Reference counts of Locals objects.                                     *)

Parent(s) == IF locals[s].parents = << >> THEN Nil ELSE Head(locals[s].parents)

\* The scopes of D lose their last reference when s is released: deleteLocals of one
\* releases the scope around it
losesLast(s, D) ==
    /\ locals[s].ref_count = 1 => s \in D
    /\ \A x \in D : Parent(x) # Nil /\ locals[Parent(x)].ref_count = 1 => Parent(x) \in D

\* deleteLocals goes outward as long as it takes the last reference
deleted(s) == {x \in Scopes : \A D \in SUBSET Scopes : losesLast(s, D) => x \in D}

\* The first scope that has another reference, if any
released(s) ==
    IF deleted(s) = {} THEN {s} ELSE {Parent(x) : x \in deleted(s)} \ (deleted(s) \cup {Nil})

\* Mutant: the enclosing scope is not released
badReleaseLocals(s) ==
    [x \in Scopes |->
        IF x # s THEN locals[x]
        ELSE IF locals[x].ref_count = 1 THEN NoLocals
        ELSE [locals[x] EXCEPT !.ref_count = @ - 1]]

releaseLocals(s) ==
    [x \in Scopes |->
        IF x \in deleted(s) THEN NoLocals
        ELSE IF x \in released(s) THEN [locals[x] EXCEPT !.ref_count = @ - 1]
        ELSE locals[x]]

-----------------------------------------------------------------------------
(* Calls.  callFT enters f at start: above the caller's variables for      *)
(* OP_CALL, on top of the stack when C++ code calls f and runs execute.    *)

Callable == held \cup (IF Running THEN Top.sub_funcs \cup {Top.func} ELSE {})

\* Mutant: only the pointer to the closest scope is copied
badNewLocals(f, start, capacity) ==
    LET p == func[f].locals IN
    [decl |-> func[f].decl,
     ref_count |-> 1,
     parents |-> IF p = Nil THEN << >> ELSE <<p>>,
     values |-> InStack(capacity, start)]

newLocals(f, start, capacity) ==
    LET p == func[f].locals IN
    [decl |-> func[f].decl,
     ref_count |-> 1,
     parents |-> IF p = Nil THEN << >> ELSE <<p>> \o locals[p].parents,
     values |-> InStack(capacity, start)]

needed(start, need) == start + Max({StackSize, need})

enter(f, need, v, start, nested) ==
    LET n == needed(start, need) IN
    /\ Len(call_stack_funcs) < MaxCallStack
    /\ \E s \in Scopes \ LiveLocals :
          /\ locals' = [x \in Scopes |->
                IF x = s THEN newLocals(f, start, NewCapacity(n))
                ELSE IF x = func[f].locals THEN [movedLocals(n)[x] EXCEPT !.ref_count = @ + 1]
                ELSE movedLocals(n)[x]]
          /\ call_stack_funcs' = Append(call_stack_funcs,
                [func |-> f, locals |-> s, pos |-> start,
                 caller_size |-> IF nested THEN start + CallParams ELSE Len(stack.values),
                 need |-> need, sub_funcs |-> {}, in_try |-> FALSE])
    /\ prog_refs' = prog_refs + 1
    /\ stack' = [capacity |-> NewCapacity(n),
                 values |-> SubSeq(stack.values, 1, start) \o Nulls(PRE_VARS) \o <<v>>
                              \o Nulls(StackSize - CallParams)]
    /\ ret_stack_funcs' = IF nested THEN Append(ret_stack_funcs, Len(call_stack_funcs))
                          ELSE ret_stack_funcs
    /\ reloadStackFunctionCache
    /\ UNCHANGED <<func, held, terminated, call_stack_overflow>>

\* At the limit the call becomes an exception that no try block catches
overflow(start, need) ==
    LET n == needed(start, need) IN
    /\ Len(call_stack_funcs) >= MaxCallStack
    /\ call_stack_overflow' = TRUE
    /\ terminated' = "exception"
    /\ stack' = [stack EXCEPT !.capacity = NewCapacity(n)]
    /\ locals' = movedLocals(n)
    /\ movedCache(n)
    /\ UNCHANGED <<func, prog_refs, held, calls>>

callFT(f, need, v, start, nested) ==
    /\ terminated = "no"
    /\ f \in Callable
    /\ enter(f, need, v, start, nested) \/ overflow(start, need)

OP_CALL(f, need, v) == Running /\ callFT(f, need, v, Top.pos + NumLocals, FALSE)

\* OS::callFT: C++ code, called by the host or by the top frame
nestedCall(f, need, v) == callFT(f, need, v, Len(stack.values), TRUE)

(***************************************************************************)
(* Leaving the top frame: the results go to the slots where the frame      *)
(* began, the stack gets the caller's height, the frame's Locals object is *)
(* deleted or takes the captured variable from the stack.  The values the  *)
(* caller takes from its own slots are not modelled.                       *)
(***************************************************************************)
Written(results) ==
    [k \in DOMAIN stack.values |->
        IF k \in Top.pos + 1 .. Top.pos + Len(results) THEN results[k - Top.pos]
        ELSE stack.values[k]]

\* Mutant: an off-by-one between slots and variables
badCopied(values) == values[Top.pos + NumLocals - 1]

copied(values) == values[Top.pos + NumLocals]

clearStackFunction(values) ==
    LET s == Top.locals
        kept == copied(values)
    IN  /\ locals' = [releaseLocals(s) EXCEPT ![s] =
              IF s \in deleted(s) THEN NoLocals
              ELSE [@ EXCEPT !.values = IF locals[s].decl \in Upvalue THEN OnHeap(kept) ELSE Nil]]
        /\ prog_refs' = prog_refs - Cardinality(deleted(s))

leave(results) ==
    LET depth == Len(call_stack_funcs) - 1
        nested == Last(ret_stack_funcs) >= depth
    IN  /\ clearStackFunction(Written(results))
        /\ stack' = [stack EXCEPT !.values =
              IF nested THEN SubSeq(stack.values, 1, Top.pos)
              ELSE SubSeq(stack.values, 1, Top.pos) \o Nulls(Top.caller_size - Top.pos)]
        /\ call_stack_funcs' = Front(call_stack_funcs)
        /\ ret_stack_funcs' = IF nested THEN Front(ret_stack_funcs) ELSE ret_stack_funcs
        /\ reloadStackFunctionCache
        /\ UNCHANGED <<func, held>>

\* The function returns got values; the caller gets null for the missing ones
OP_RETURN(v) ==
    /\ Running /\ terminated = "no"
    /\ \E got \in 0 .. Top.need : leave([k \in 1 .. Top.need |-> IF k <= got THEN v ELSE Null])
    /\ UNCHANGED <<terminated, call_stack_overflow>>

-----------------------------------------------------------------------------
(* Exceptions.                                                             *)

\* OP_MULTI_THROW and OS::setException
throw ==
    /\ Running /\ terminated = "no"
    /\ terminated' = "exception"
    /\ UNCHANGED <<memory, held, stack, calls, stack_func_locals, call_stack_overflow>>

\* OS::setTerminated
exit ==
    /\ Running /\ terminated = "no"
    /\ terminated' = "exit"
    /\ call_stack_overflow' = FALSE
    /\ UNCHANGED <<memory, held, stack, calls, stack_func_locals>>

\* The position of the top frame enters or leaves a try block
stepTry ==
    /\ Running /\ terminated = "no"
    /\ call_stack_funcs' = [call_stack_funcs EXCEPT ![Len(call_stack_funcs)].in_try = ~@]
    /\ UNCHANGED <<memory, held, stack, ret_stack_funcs, stack_func_locals,
                   terminated, call_stack_overflow>>

Catches == terminated = "exception" /\ ~call_stack_overflow /\ Top.in_try

catch ==
    /\ Running /\ Catches
    /\ terminated' = "no"
    /\ call_stack_funcs' = [call_stack_funcs EXCEPT ![Len(call_stack_funcs)].in_try = FALSE]
    /\ UNCHANGED <<memory, held, stack, ret_stack_funcs, stack_func_locals,
                   call_stack_overflow>>

\* Mutant: the loop goes on in a try block that may not catch the exception
badUnwind ==
    /\ Running /\ terminated # "no" /\ ~Catches
    /\ IF Top.in_try
       THEN UNCHANGED vars
       ELSE leave(Nulls(Top.need)) /\ UNCHANGED <<terminated, call_stack_overflow>>

unwind ==
    /\ Running /\ terminated # "no" /\ ~Catches
    /\ leave(Nulls(Top.need))
    /\ UNCHANGED <<terminated, call_stack_overflow>>

\* OS::resetTerminated by the host
resetTerminated ==
    /\ ~Running /\ terminated # "no"
    /\ terminated' = "no"
    /\ call_stack_overflow' = FALSE
    /\ UNCHANGED <<memory, held, stack, calls, stack_func_locals>>

-----------------------------------------------------------------------------
(* Functions and variables.                                                *)

\* OP_NEW_FUNCTION; a function the frame has created before is used again
OP_NEW_FUNCTION(d) ==
    /\ Running /\ terminated = "no"
    /\ Outer[d] = func[Top.func].decl
    /\ \A g \in Top.sub_funcs : func[g].decl # d
    /\ LET n == Len(stack.values) + 1
           s == Top.locals
       IN  /\ \E f \in Funcs \ LiveFuncs :
                 /\ func' = [func EXCEPT ![f] = [decl |-> d, locals |-> s]]
                 /\ call_stack_funcs' = [call_stack_funcs EXCEPT
                       ![Len(call_stack_funcs)].sub_funcs = @ \cup {f}]
           /\ locals' = [movedLocals(n) EXCEPT ![s].ref_count = @ + 1]
           /\ stack' = [stack EXCEPT !.capacity = NewCapacity(n)]
           /\ movedCache(n)
    /\ prog_refs' = prog_refs + 1
    /\ UNCHANGED <<held, ret_stack_funcs, terminated, call_stack_overflow>>

\* A script stores a function it can name, or overwrites the last reference
hold(f) ==
    /\ Running /\ terminated = "no"
    /\ f \in Callable \ held
    /\ held' = held \cup {f}
    /\ UNCHANGED <<memory, stack, calls, stack_func_locals, terminated, call_stack_overflow>>

drop(f) ==
    /\ f \in held
    /\ held' = held \ {f}
    /\ UNCHANGED <<memory, stack, calls, stack_func_locals, terminated, call_stack_overflow>>

\* Mutant: the collector does not look at the frames
badGarbage(f) == f \in LiveFuncs \ held

\* What the collector finds: no frame runs the function or has created it
Garbage(f) ==
    /\ f \in LiveFuncs \ held
    /\ \A k \in Frames : f # call_stack_funcs[k].func /\ f \notin call_stack_funcs[k].sub_funcs

clearFunctionValue(f) ==
    /\ Garbage(f)
    /\ func' = [func EXCEPT ![f] = NoFunc]
    /\ IF func[f].locals = Nil
       THEN locals' = locals /\ prog_refs' = prog_refs - 1
       ELSE /\ locals' = releaseLocals(func[f].locals)
            /\ prog_refs' = prog_refs - 1 - Cardinality(deleted(func[f].locals))
    /\ UNCHANGED <<held, stack, calls, stack_func_locals, terminated, call_stack_overflow>>

\* The variable of the top frame, through the cached pointer
setLocal(v) ==
    /\ Running /\ terminated = "no"
    /\ stack' = [stack EXCEPT !.values[stack_func_locals.pos + NumLocals] = v]
    /\ UNCHANGED <<memory, held, calls, stack_func_locals, terminated, call_stack_overflow>>

\* The variable of an enclosing function, on the stack or on the heap
OP_SET_UPVALUE(c, v) ==
    /\ Running /\ terminated = "no"
    /\ c \in DOMAIN locals[Top.locals].parents
    /\ LET s == locals[Top.locals].parents[c] IN
       /\ locals[s].decl \in Upvalue
       /\ IF locals[s].values.capacity > 0
          THEN /\ stack' = [stack EXCEPT !.values[locals[s].values.pos + NumLocals] = v]
               /\ UNCHANGED locals
          ELSE /\ locals' = [locals EXCEPT ![s].values = OnHeap(v)]
               /\ UNCHANGED stack
    /\ UNCHANGED <<func, prog_refs, held, calls, stack_func_locals, terminated,
                   call_stack_overflow>>

Next ==
    \/ \E f \in Funcs, need \in Rets, v \in Vals : OP_CALL(f, need, v) \/ nestedCall(f, need, v)
    \/ \E v \in Vals : OP_RETURN(v) \/ setLocal(v)
    \/ throw
    \/ exit
    \/ stepTry
    \/ catch
    \/ unwind
    \/ resetTerminated
    \/ \E d \in Decls : OP_NEW_FUNCTION(d)
    \/ \E f \in Funcs : hold(f) \/ drop(f) \/ clearFunctionValue(f)
    \/ \E c \in 1 .. Cardinality(Scopes), v \in Vals : OP_SET_UPVALUE(c, v)

(***************************************************************************)
(* The loop at the head of execute does nothing but leave frames until a   *)
(* try block catches the exception or the call of C++ code returns.        *)
(***************************************************************************)
Spec == Init /\ [][Next]_vars /\ WF_vars(catch \/ unwind)

-----------------------------------------------------------------------------
(* Properties.                                                             *)

Values == [capacity : Nat, pos : Nat, heap : Vals \cup {Null}]

Function == [decl : Decls, locals : Scopes \cup {Nil}]

Scope == [decl : Decls, ref_count : Nat \ {0}, parents : Seq(Scopes), values : Values \cup {Nil}]

Frame == [func : Funcs, locals : Scopes, pos : Nat, caller_size : Nat, need : Rets,
          sub_funcs : SUBSET Funcs, in_try : BOOLEAN]

(***************************************************************************)
(* Functions, Locals objects, frames and stacks have their types.          *)
(***************************************************************************)
TypeOK ==
    /\ func \in [Funcs -> Function \cup {NoFunc}]
    /\ held \subseteq LiveFuncs
    /\ locals \in [Scopes -> Scope \cup {NoLocals}]
    /\ prog_refs \in Nat
    /\ stack \in [capacity : Nat, values : Seq(Vals \cup {Null})]
    /\ call_stack_funcs \in Seq(Frame)
    /\ ret_stack_funcs \in Seq(Nat)
    /\ terminated \in {"no", "exception", "exit"}
    /\ call_stack_overflow \in BOOLEAN

FrameRefs(s) == {k \in Frames : call_stack_funcs[k].locals = s}
FuncRefs(s) == {f \in LiveFuncs : func[f].locals = s}
ScopeRefs(s) == {x \in LiveLocals : Parent(x) = s}

(***************************************************************************)
(* The counts are exact: a Locals object is counted by its frame, by the   *)
(* functions made in it and by the scopes directly inside, the program by  *)
(* its functions and Locals objects.  So nothing is freed too early, and   *)
(* the last of them takes the program along.                               *)
(***************************************************************************)
CountsExact ==
    /\ \A s \in LiveLocals :
          locals[s].ref_count =
              Cardinality(FrameRefs(s)) + Cardinality(FuncRefs(s)) + Cardinality(ScopeRefs(s))
    /\ prog_refs = Cardinality(LiveFuncs) + Cardinality(LiveLocals)

(***************************************************************************)
(* callFT copies the pointers to the outer scopes and retains the first    *)
(* one only.  The others stay valid all the same: they are the scopes the  *)
(* first one keeps, one for every enclosing function.  deleteLocals looks  *)
(* at the declaration to see whether there is an outer scope to release.   *)
(***************************************************************************)
ParentsAlive ==
    /\ \A s \in LiveLocals :
          /\ \A i \in DOMAIN locals[s].parents :
                /\ locals[s].parents[i] \in LiveLocals
                /\ locals[locals[s].parents[i]].parents
                      = SubSeq(locals[s].parents, i + 1, Len(locals[s].parents))
          /\ Outer[locals[s].decl] = IF Parent(s) = Nil THEN Nil ELSE locals[Parent(s)].decl
    /\ \A f \in LiveFuncs :
          /\ func[f].locals \in LiveLocals \cup {Nil}
          /\ Outer[func[f].decl] = IF func[f].locals = Nil THEN Nil ELSE locals[func[f].locals].decl

(***************************************************************************)
(* What a frame runs and has made is alive, and no two frames share a      *)
(* Locals object.                                                          *)
(***************************************************************************)
FramesAlive ==
    /\ \A k \in Frames :
          /\ call_stack_funcs[k].func \in LiveFuncs
          /\ call_stack_funcs[k].sub_funcs \subseteq LiveFuncs
          /\ call_stack_funcs[k].locals \in LiveLocals
          /\ locals[call_stack_funcs[k].locals].decl = func[call_stack_funcs[k].func].decl
    /\ \A j, k \in Frames : call_stack_funcs[j].locals = call_stack_funcs[k].locals => j = k

(***************************************************************************)
(* After every call, return, exception and growth of the stack, the frames *)
(* point to their own slots of the present buffer, the cached pointer is   *)
(* the one of the top frame, and no other scope points into the stack: it  *)
(* has a copy, if an inner function uses the variable.                     *)
(***************************************************************************)
PointersCurrent ==
    /\ \A k \in Frames :
          locals[call_stack_funcs[k].locals].values =
              InStack(stack.capacity, call_stack_funcs[k].pos)
    /\ stack_func_locals = IF Running THEN locals[Top.locals].values ELSE Nil
    /\ \A s \in LiveLocals :
          \/ \E k \in Frames : call_stack_funcs[k].locals = s
          \/ locals[s].decl \in Upvalue /\ \E x \in Vals \cup {Null} : locals[s].values = OnHeap(x)
          \/ locals[s].decl \notin Upvalue /\ locals[s].values = Nil

NestedFrame(k) == k - 1 \in ToSet(ret_stack_funcs)

(***************************************************************************)
(* A frame begins behind the variables of the one below.  Where it ends    *)
(* the frame below finds the stack as high as it needs it: leaving the     *)
(* frame cuts the stack at its begin, when C++ code called it, or gives it *)
(* the height it had.  Nested runs of execute begin at growing depths, the *)
(* first at the bottom.                                                    *)
(***************************************************************************)
FramesOrdered ==
    /\ \A j, k \in Frames : j < k => call_stack_funcs[j].pos + NumLocals <= call_stack_funcs[k].pos
    /\ \A k \in Frames :
          LET below == IF k = 1 THEN 0 ELSE call_stack_funcs[k - 1].pos + StackSize IN
          /\ call_stack_funcs[k].pos <= call_stack_funcs[k].caller_size
          /\ call_stack_funcs[k].caller_size <= stack.capacity
          /\ below <= IF NestedFrame(k) THEN call_stack_funcs[k].pos ELSE call_stack_funcs[k].caller_size
    /\ \A i \in DOMAIN ret_stack_funcs : ret_stack_funcs[i] < Len(call_stack_funcs)
    /\ \A i, j \in DOMAIN ret_stack_funcs : i < j => ret_stack_funcs[i] < ret_stack_funcs[j]
    /\ Running => NestedFrame(1)

(***************************************************************************)
(* execute asserts before every instruction that the stack is at least as  *)
(* high as the top frame needs.  An exception that was caught above frames *)
(* of any height leaves it so, and the stack never outgrows its buffer.    *)
(***************************************************************************)
StackCoversFrame ==
    /\ Running => Len(stack.values) >= Top.pos + StackSize
    /\ Len(stack.values) <= stack.capacity

(***************************************************************************)
(* Frames, Locals objects, the cached pointer and the stack agree.         *)
(***************************************************************************)
FramesCurrent == TypeOK /\ FramesAlive /\ PointersCurrent /\ FramesOrdered /\ StackCoversFrame

\* The variable of a scope, where GET_UPVALUE of an inner function reads it
Variable(s) ==
    IF locals[s].values.capacity > 0
    THEN stack.values[locals[s].values.pos + NumLocals] ELSE locals[s].values.heap

Captured == {s \in LiveLocals : locals[s].decl \in Upvalue}

(***************************************************************************)
(* A captured variable changes by an assignment only: calls, returns,      *)
(* exceptions, growth of the stack and collections leave it as it is.      *)
(***************************************************************************)
VariableKept ==
    [][\A s \in Captured \cap Captured' :
          Variable(s)' # Variable(s) =>
              \E v \in Vals : \/ setLocal(v)
                              \/ \E c \in 1 .. Cardinality(Scopes) : OP_SET_UPVALUE(c, v)]_vars

(***************************************************************************)
(* deleteLocals reads the declaration of the scope after it has released   *)
(* the program that owns it: the program must have another reference.      *)
(***************************************************************************)
DeclReadable ==
    [][LET gone == {s \in LiveLocals : locals'[s] = NoLocals} IN
       gone # {} => prog_refs - Cardinality(gone) > 0]_vars

(***************************************************************************)
(* Whatever is thrown is caught, or leaves all frames.                     *)
(***************************************************************************)
UnwindingEnds == terminated # "no" ~> (terminated = "no" \/ ~Running)
=============================================================================
