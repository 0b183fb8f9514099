------------------------------ MODULE Execute ------------------------------
(***************************************************************************)
(* The interpreter loop, execute, and the pointers it holds while script   *)
(* code runs inside an opcode.  An opcode on objects calls a method        *)
(* through callFT, which runs a nested execute; meanwhile the buffers of   *)
(* call_stack_funcs and of stack_values may be reallocated, and a pointer  *)
(* that the opcode took before is then a pointer to freed memory.          *)
(*                                                                         *)
(* A buffer only grows, so its capacity tells one buffer from the next.    *)
(* The contents of the value stack are left out, and so are the frames     *)
(* that max_call_stack refuses (see CallStack).  Which accesses the guards *)
(* of __get and __set refuse is in PropAccess: handlers may be functions   *)
(* of C++ code, which have no frame here, so that any access may be.       *)
(***************************************************************************)
EXTENDS Naturals, Sequences, SequencesExt

CONSTANTS
    MaxFrames,      \* bound on the depth of calls
    FrameSize,      \* FunctionDecl::stack_size of a function that calls others
    NullValues,     \* OS_TOP_STACK_NULL_VALUES
    Align,          \* the value stack grows to a multiple of it, 16
    InitCalls,      \* the first capacity of call_stack_funcs, 8
    InitStack,      \* the capacity of the value stack when the program starts
    MaxLeft,        \* bound on the values that refused accesses leave above a frame:
                    \* none is refused while one has so many
    Destroyed       \* what is left of a vector destroyed in place, as the build has it

ExecuteAssumption ==
    /\ MaxFrames \in Nat \ {0} /\ FrameSize \in Nat /\ FrameSize >= 4
    /\ NullValues \in Nat /\ Align \in Nat \ {0}
    /\ InitCalls \in Nat \ {0} /\ InitStack \in Nat /\ InitStack >= NullValues
    /\ MaxLeft \in Nat
    /\ Destroyed # {} /\ Destroyed \subseteq {"empty", "dangling"}

VARIABLES
    call_stack_funcs,   \* [pos, size, left, caller_size, at, res]: the StackFunctions in use;
                        \* left counts the values that nobody pops before the frame is left
    funcs_capacity,     \* of call_stack_funcs
    sub_funcs,          \* the vector sub_funcs of every StackFunction, in use or not
    stack,              \* [capacity, count]: stack_values
    stack_func_locals,  \* the cached pointer to the variables of the top frame
    runs,               \* [ret, op]: the active runs of execute and what each one serves
    raised,             \* terminated: an exception is set
    freed               \* the kinds of accesses to freed memory so far

executeVars == <<call_stack_funcs, funcs_capacity, sub_funcs, stack, stack_func_locals,
                 runs, raised, freed>>

\* The position of a frame in its code: at any instruction, at the JUMP that
\* follows a comparison, or at the first instruction of a branch
Code == {"any", "jump", "then", "else"}

\* What the caller of a run of execute does with its result
Callers == {"host", "compare", "operator", "getter", "get", "set"}

Depth == Len(call_stack_funcs)
Top == Last(call_stack_funcs)
NoPointer == [capacity |-> 0, pos |-> 0]

\* A run works on the frames above ret_stack_funcs and returns when they are left
Executing == runs # << >> /\ Depth > Last(runs).ret
Returned == runs # << >> /\ Depth = Last(runs).ret

ExecuteInit ==
    /\ call_stack_funcs = << >>
    /\ funcs_capacity = 0
    /\ sub_funcs = [k \in 1 .. MaxFrames |-> "empty"]
    /\ stack = [capacity |-> InitStack, count |-> NullValues]
    /\ stack_func_locals = NoPointer
    /\ runs = << >>
    /\ raised = FALSE
    /\ freed = {}

-----------------------------------------------------------------------------
(* The buffers *)

Floor(n) == n - (n % Align)

PRE_VARS == 2           \* the function and this: all that a leaf function has
LeafSize == PRE_VARS

\* growStackValues: the capacity after c that holds n values
GrownFrom(c, n) ==
    LET double == Floor(2 * c + Align)
    IN  IF n <= c THEN c ELSE IF n <= double THEN double ELSE Floor(n + Align)

Grown(n) == GrownFrom(stack.capacity, n)

\* The buffer of call_stack_funcs that has room for one more frame
GrownCalls ==
    IF Depth < funcs_capacity THEN funcs_capacity
    ELSE IF funcs_capacity = 0 THEN InitCalls ELSE 2 * funcs_capacity

\* reloadStackFunctionCache, and the last lines of growStackValues
reloadStackFunctionCache(calls, capacity) ==
    stack_func_locals' =
        IF calls = << >> THEN NoPointer
        ELSE [capacity |-> capacity, pos |-> Last(calls).pos]

\* The stack when a function of that size starts at pos and count values are on it
Reserved(pos, size, count) == Grown(IF pos + size > count THEN pos + size ELSE count)

\* callFT of a script function whose arguments start at pos, when the stack
\* has count values and has grown to capacity: frames are copied to a larger
\* buffer, and a slot that was in use before is used again as it is
callFT(pos, size, count, capacity, at) ==
    LET frame == [pos |-> pos, size |-> size, left |-> 0, caller_size |-> count,
                  at |-> "any", res |-> FALSE]
        calls == (IF Depth = 0 THEN << >>
                  ELSE [call_stack_funcs EXCEPT ![Depth].at = at]) \o <<frame>>
    IN  /\ Depth < MaxFrames
        /\ call_stack_funcs' = calls
        /\ funcs_capacity' = GrownCalls
        /\ sub_funcs' = [k \in DOMAIN sub_funcs |->
                            IF k > Depth /\ GrownCalls # funcs_capacity THEN "empty"
                            ELSE sub_funcs[k]]
        /\ stack' = [capacity |-> capacity, count |-> pos + size]
        /\ reloadStackFunctionCache(calls, capacity)
        /\ UNCHANGED raised

\* Mutant: the stack ends after the result
badRestoreStack == stack' = [stack EXCEPT !.count = Top.pos + 1]

\* stack_values.count = stack_func->caller_stack_size
restoreStack == stack' = [stack EXCEPT !.count = Top.caller_size]

\* The vector is cleared and then destroyed in place: its last stores are dead
\* to a compiler, which may leave them out
clearSubFuncs ==
    \E left \in IF sub_funcs[Depth] = "empty" THEN {"empty"} ELSE Destroyed :
        sub_funcs' = [sub_funcs EXCEPT ![Depth] = left]

\* Leaving a function, with the end of clearStackFunction
leave ==
    /\ restoreStack
    /\ call_stack_funcs' = Front(call_stack_funcs)
    /\ clearSubFuncs
    /\ reloadStackFunctionCache(call_stack_funcs', stack.capacity)

-----------------------------------------------------------------------------
(* Opcodes *)

\* A frame is about to fetch an instruction other than the JUMP of a comparison
CanFetch == Executing /\ ~raised /\ Top.at # "jump"

\* C++ code calls a function: OS::call
hostCall ==
    /\ runs = << >>
    /\ callFT(stack.count, FrameSize, stack.count + PRE_VARS,
              Reserved(stack.count, FrameSize, stack.count + PRE_VARS), "any")
    /\ runs' = <<[ret |-> 0, op |-> [kind |-> "host", stack_func |-> 0,
                                     count |-> stack.count]]>>
    /\ UNCHANGED freed

\* An opcode calls a method with n values pushed on the stack, in a nested run.
\* It keeps the pointer stack_func in a local variable.
callMethod(kind, n, at) ==
    /\ callFT(stack.count, FrameSize, stack.count + n,
              Reserved(stack.count, FrameSize, stack.count + n), at)
    /\ runs' = Append(runs, [ret |-> Depth, op |-> [kind |-> kind, stack_func |-> funcs_capacity,
                                                    count |-> stack.count]])

\* References to operands on the stack are read after n pushes
readOperands(n) ==
    freed' = IF Grown(stack.count + n) = stack.capacity THEN freed ELSE freed \cup {"operand"}

\* OP_CALL, OP_CALL_METHOD, OP_SUPER_CALL of a script function: the same run enters it
opCall ==
    /\ CanFetch /\ Top.size = FrameSize
    /\ \E size \in {LeafSize, FrameSize} :
            callFT(Top.pos + PRE_VARS, size, stack.count,
                   Reserved(Top.pos + PRE_VARS, size, stack.count), "any")
    /\ UNCHANGED <<runs, freed>>

\* The same with more arguments than parameters: when there is room for the frame,
\* an array is pushed and popped.  growStackValues then looks for the top frame
\* through this->stack_func, before reloadStackFunctionCache
opCallRest ==
    /\ CanFetch /\ Top.size = FrameSize
    /\ \E size \in {LeafSize, FrameSize} :
            LET pos == Top.pos + PRE_VARS
                reserved == Reserved(pos, size, stack.count)
                capacity == GrownFrom(reserved, stack.count + 1)
            IN  /\ callFT(pos, size, stack.count, capacity, "any")
                /\ freed' = IF capacity # reserved /\ GrownCalls # funcs_capacity
                            THEN freed \cup {"cache"} ELSE freed
    /\ UNCHANGED runs

\* OP_LOGIC_EQ, OP_LOGIC_GREATER, OP_LOGIC_GE of numbers
opCompareNumbers ==
    /\ CanFetch
    /\ \E res \in BOOLEAN :
            call_stack_funcs' = [call_stack_funcs EXCEPT
                ![Depth].at = IF res THEN "then" ELSE "else", ![Depth].res = res]
    /\ UNCHANGED <<funcs_capacity, sub_funcs, stack, stack_func_locals, runs, raised, freed>>

\* The same opcodes of objects call __cmp with the references to both operands;
\* the frame is left at the JUMP that follows
opCompareObjects ==
    /\ CanFetch
    /\ readOperands(2)
    /\ callMethod("compare", 3, "jump")

\* OP_ADD and the other operators of objects, and the comparisons whose result is
\* stored; those of numbers change nothing here
opOperator ==
    /\ CanFetch
    /\ readOperands(2)
    /\ callMethod("operator", 3, "any")

\* pushRecursion finds Limit handlers of the property active and returns without
\* its pop(2), and neither its caller nor a try block pops the counters.  The
\* message and the exception are pushed above them, and popped.
refuse ==
    /\ \A k \in 1 .. Depth : call_stack_funcs[k].left + 2 <= MaxLeft
    /\ stack' = [capacity |-> Grown(stack.count + 6), count |-> stack.count + 2]
    /\ reloadStackFunctionCache(call_stack_funcs, Grown(stack.count + 6))
    /\ call_stack_funcs' = [call_stack_funcs EXCEPT ![Depth].left = @ + 2, ![Depth].at = "any"]
    /\ raised' = TRUE
    /\ UNCHANGED <<funcs_capacity, sub_funcs, runs, freed>>

\* OP_GET_PROPERTY by a method __get: the object and the name are copied first
opGet ==
    /\ CanFetch
    /\ \/ callMethod("get", 3, "any") /\ UNCHANGED freed
       \/ refuse

\* OP_GET_PROPERTY by a method __get@name: the name of the method is pushed and
\* popped, the method is pushed, then the reference to the object is read
opGetter ==
    /\ CanFetch
    /\ readOperands(1)
    /\ callMethod("getter", 2, "any")

\* OP_SET_PROPERTY by __set@name or by __set: the name and the value are copied first
opSet ==
    /\ CanFetch
    /\ \/ \E n \in {3, 4} : callMethod("set", n, "any") /\ UNCHANGED freed
       \/ refuse

\* OP_NEW_OBJECT, OP_NEW_ARRAY: a value is pushed and popped
opNewObject ==
    /\ CanFetch
    /\ stack' = [stack EXCEPT !.capacity = Grown(stack.count + 1)]
    /\ reloadStackFunctionCache(call_stack_funcs, Grown(stack.count + 1))
    /\ call_stack_funcs' = [call_stack_funcs EXCEPT ![Depth].at = "any"]
    /\ UNCHANGED <<funcs_capacity, sub_funcs, runs, raised, freed>>

\* OP_NEW_FUNCTION: the functions a frame has created are kept in sub_funcs
opNewFunction ==
    /\ CanFetch
    /\ freed' = IF sub_funcs[Depth] = "dangling" THEN freed \cup {"sub_funcs"} ELSE freed
    /\ sub_funcs' = [sub_funcs EXCEPT ![Depth] = "used"]
    /\ stack' = [stack EXCEPT !.capacity = Grown(stack.count + 1)]
    /\ reloadStackFunctionCache(call_stack_funcs, Grown(stack.count + 1))
    /\ call_stack_funcs' = [call_stack_funcs EXCEPT ![Depth].at = "any"]
    /\ UNCHANGED <<funcs_capacity, runs, raised>>

\* OP_JUMP after a comparison goes to the other branch
opJump ==
    /\ Executing /\ ~raised /\ Top.at = "jump"
    /\ call_stack_funcs' = [call_stack_funcs EXCEPT ![Depth].at = "else"]
    /\ UNCHANGED <<funcs_capacity, sub_funcs, stack, stack_func_locals, runs, raised, freed>>

opReturn ==
    /\ CanFetch
    /\ leave
    /\ UNCHANGED <<funcs_capacity, runs, raised, freed>>

-----------------------------------------------------------------------------
(* The end of an opcode that called a method: popping the run that served  *)
(* it, with the result on the stack.                                       *)

opOf == Last(runs).op

\* callFT of a number of parameters: stack_values.count = start_pos + ret_values,
\* and the opcode pops the value
popResult ==
    /\ runs' = Front(runs)
    /\ stack' = [stack EXCEPT !.count = opOf.count]

\* The call of C++ code returns
hostReturn ==
    /\ Returned /\ opOf.kind = "host"
    /\ popResult
    /\ raised' = FALSE
    /\ UNCHANGED <<call_stack_funcs, funcs_capacity, sub_funcs, stack_func_locals, freed>>

\* The comparison is done: the JUMP is skipped or followed through stack_func,
\* the pointer taken before the call.  When the frames have moved since, it
\* points to the freed buffer and the frame stays where it is.
takeBranch(res) ==
    call_stack_funcs' = [call_stack_funcs EXCEPT
        ![Depth].at = IF opOf.stack_func # funcs_capacity THEN @
                      ELSE IF res THEN "then" ELSE "else",
        ![Depth].res = res]

finishCompare ==
    /\ Returned /\ opOf.kind = "compare"
    /\ popResult
    /\ \E res \in BOOLEAN : takeBranch(res)
    /\ freed' = IF opOf.stack_func = funcs_capacity THEN freed ELSE freed \cup {"frame"}
    /\ UNCHANGED <<funcs_capacity, sub_funcs, stack_func_locals, raised>>

\* The value is stored through this->stack_func_locals; "set" stores none
finishValue ==
    /\ Returned /\ opOf.kind \in {"operator", "getter", "get", "set"}
    /\ popResult
    /\ freed' = IF opOf.kind = "set" \/ stack_func_locals = [capacity |-> stack.capacity, pos |-> Top.pos]
                THEN freed ELSE freed \cup {"result"}
    /\ UNCHANGED <<call_stack_funcs, funcs_capacity, sub_funcs, stack_func_locals, raised>>

-----------------------------------------------------------------------------
(* Exceptions *)

opThrow ==
    /\ CanFetch
    /\ raised' = TRUE
    /\ UNCHANGED <<call_stack_funcs, funcs_capacity, sub_funcs, stack, stack_func_locals, runs, freed>>

\* The top frame of the run has a try block around its position
catchInFrame ==
    /\ Executing /\ raised
    /\ raised' = FALSE
    /\ call_stack_funcs' = [call_stack_funcs EXCEPT ![Depth].at = "any"]
    /\ UNCHANGED <<funcs_capacity, sub_funcs, stack, stack_func_locals, runs, freed>>

\* It has none and is left
unwind ==
    /\ Executing /\ raised
    /\ leave
    /\ UNCHANGED <<funcs_capacity, runs, raised, freed>>

Opcode ==
    \/ opCall \/ opCallRest \/ opCompareNumbers \/ opCompareObjects \/ opOperator \/ opGet \/ opGetter
    \/ opSet \/ opNewObject \/ opNewFunction \/ opJump \/ opReturn \/ opThrow

ExecuteNext ==
    \/ hostCall \/ Opcode
    \/ hostReturn \/ finishCompare \/ finishValue
    \/ catchInFrame \/ unwind

ExecuteSpec == ExecuteInit /\ [][ExecuteNext]_executeVars

-----------------------------------------------------------------------------
(* Properties *)

FrameType == [pos : Nat, size : {LeafSize, FrameSize}, left : Nat, caller_size : Nat,
              at : Code, res : BOOLEAN]

\* Frames fit into their buffer, the stack into its own; every pointer is a buffer and a place in it
FramesTyped ==
    /\ call_stack_funcs \in Seq(FrameType) /\ Depth <= MaxFrames
    /\ funcs_capacity \in Nat /\ Depth <= funcs_capacity
    /\ sub_funcs \in [1 .. MaxFrames -> {"empty", "used", "dangling"}]
    /\ stack \in [capacity : Nat, count : Nat] /\ stack.count <= stack.capacity
    /\ stack_func_locals \in [capacity : Nat, pos : Nat]
    /\ runs \in Seq([ret : Nat, op : [kind : Callers, stack_func : Nat, count : Nat]])
    /\ raised \in BOOLEAN
    /\ freed \subseteq {"operand", "result", "frame", "cache", "sub_funcs"}

\* The variables of the frames: while a frame is on top the stack ends where it
\* ends, and above it are exactly the two values of each access that was refused
\* in it, whatever calls, returns and exceptions came before; with the frame those
\* go too (the assertion at the head of the loop of execute asks for at least the
\* variables).
StackExact == Executing => stack.count = Top.pos + Top.size + Top.left

\* The value of an operator or of a property is stored in the frame that asked
\* for it, although the stack may have moved while the method ran.
ResultsStored == "result" \notin freed

\* The operands of an operator, and the object of a getter, are read from the
\* stack as it is, never from a buffer that was freed.
OperandsCurrent == "operand" \notin freed

\* The branch that runs after a comparison is the one that its result selects.
BranchFollowsResult ==
    \A k \in DOMAIN call_stack_funcs :
        /\ call_stack_funcs[k].at = "then" => call_stack_funcs[k].res
        /\ call_stack_funcs[k].at = "else" => ~call_stack_funcs[k].res

\* When the value stack moves, the frame whose cached pointer moves with it is
\* found in the buffer that the frames are in.
CacheFrameCurrent == "cache" \notin freed

\* A frame starts with no functions: those of an earlier call in the same place
\* have been released.
SubFuncsFresh == "sub_funcs" \notin freed

\* The frames and the stack agree at every moment, and a value computed while
\* the buffers moved reaches the frame that asked for it.
FramesExact == FramesTyped /\ StackExact /\ ResultsStored
=============================================================================
