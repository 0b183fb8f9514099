------------------------------- MODULE Jumps -------------------------------
(***************************************************************************)
(* The code the compiler writes for loops, switches, branches, try blocks  *)
(* and nested functions: one sequence of instructions for all functions,   *)
(* in which jumps are written first and directed when their target is      *)
(* known.  At run time an exception looks for its try block by the         *)
(* position of the instruction after the one that failed.                  *)
(*                                                                         *)
(* Every behaviour writes one program.  An instruction carries the         *)
(* constructs of the text it was written for; that is what the properties  *)
(* compare the jumps with.  Positions count from 0.                        *)
(***************************************************************************)
EXTENDS Integers, Sequences, SequencesExt, FiniteSetsExt

CONSTANTS
    LoopKinds,      \* the loops that programs have
    MaxConstructs,  \* bound: constructs of a program
    MaxLeaves,      \* bound: simple statements, break and continue
    MaxCases        \* bound: case labels of a switch

JumpsAssumption ==
    LoopKinds \subseteq {"while", "for", "do", "forin"} /\ MaxConstructs \in Nat /\ MaxLeaves \in Nat /\ MaxCases \in Nat \ {0}

VARIABLES
    prog_opcodes,   \* [op, sBx, in, tag, label]
    open,           \* the constructs being written, the innermost last
    functions,      \* [pos, size, try_blocks] of every finished function, by construct
    constructs, leaves

vars == <<prog_opcodes, open, functions, constructs, leaves>>

Loops == {"while", "for", "do", "forin"}

getOpcodePos(code) == Len(code)
at(code, p) == code[p + 1]

\* A construct: its part that is being written, where it began, a jump that waits for its
\* target, the breaks of a loop or switch, the try blocks of a function
Construct(kind, part, start, jump) ==
    [id |-> constructs + 1, kind |-> kind, part |-> part, start |-> start, jump |-> jump,
     breaks |-> << >>, try_blocks |-> << >>, labels |-> << >>, rank |-> 0]

Where(stack) == [i \in DOMAIN stack |-> 
    [id |-> stack[i].id, kind |-> stack[i].kind, part |-> stack[i].part, rank |-> stack[i].rank]]

\* tag says what the text means a jump for, label which label of a switch it goes to
Op(op, sBx, stack, tag) == [op |-> op, sBx |-> sBx, in |-> Where(stack), tag |-> tag, label |-> 0]

CaseJump(stack, label) == [Op("jump", 1, stack, "case") EXCEPT !.label = label]

Init ==
    /\ prog_opcodes = <<Op("new_function", 0, << >>, "")>>
    /\ constructs = 1
    /\ leaves = 0
    /\ open = <<[id |-> 1, kind |-> "function", part |-> "body", start |-> 1, jump |-> 0,
                 breaks |-> << >>, try_blocks |-> << >>, labels |-> << >>, rank |-> 0]>>
    /\ functions = [id \in {} |-> {}]

top == Last(open)
mayOpen == open # << >> /\ constructs < MaxConstructs
opened(c) == open' = Append(open, c) /\ constructs' = constructs + 1
closed == open' = Front(open)
inside(kind, part) == open # << >> /\ top.kind = kind /\ top.part = part

fixJumpOpcode(code, offs, pos) == [code EXCEPT ![pos + 1].sBx = offs]

\* A condition and the jump that is taken when it does not hold
Condition(stack) == <<Op("logic", 0, stack, ""), Op("jump", 0, stack, "branch")>>

-----------------------------------------------------------------------------
(* Simple statements, branches and try blocks.                             *)

statement ==
    /\ open # << >> /\ leaves < MaxLeaves
    /\ prog_opcodes' = Append(prog_opcodes, Op("plain", 0, open, ""))
    /\ leaves' = leaves + 1
    /\ UNCHANGED <<open, functions, constructs>>

\* if, ?:, && and ||
openIf ==
    LET c == Construct("if", "then", getOpcodePos(prog_opcodes), getOpcodePos(prog_opcodes) + 1) IN
    /\ mayOpen
    /\ prog_opcodes' = prog_opcodes \o Condition(Append(open, [c EXCEPT !.part = "cond"]))
    /\ opened(c)
    /\ UNCHANGED <<functions, leaves>>

openElse ==
    LET jump_pos == getOpcodePos(prog_opcodes) IN
    /\ inside("if", "then")
    /\ prog_opcodes' = fixJumpOpcode(Append(prog_opcodes, Op("jump", 0, open, "over")),
                                     jump_pos + 1 - top.jump - 1, top.jump)
    /\ open' = [open EXCEPT ![Len(open)].part = "else", ![Len(open)].jump = jump_pos]
    /\ UNCHANGED <<functions, constructs, leaves>>

closeIf ==
    /\ inside("if", "then") \/ inside("if", "else")
    /\ prog_opcodes' = fixJumpOpcode(prog_opcodes, getOpcodePos(prog_opcodes) - top.jump - 1, top.jump)
    /\ closed
    /\ UNCHANGED <<functions, constructs, leaves>>

openTry ==
    /\ mayOpen
    /\ opened(Construct("try", "try", getOpcodePos(prog_opcodes), 0))
    /\ UNCHANGED <<prog_opcodes, functions, leaves>>

openCatch ==
    /\ inside("try", "try")
    /\ prog_opcodes' = Append(prog_opcodes, Op("jump", 0, open, "over"))
    /\ open' = [open EXCEPT ![Len(open)].part = "catch",
                            ![Len(open)].jump = getOpcodePos(prog_opcodes)]
    /\ UNCHANGED <<functions, constructs, leaves>>

\* scope->function
functionOf(stack) == CHOOSE i \in DOMAIN stack :
    stack[i].kind = "function" /\ \A j \in DOMAIN stack : j > i => stack[j].kind # "function"

TryBlock(start, end, id) == [start_code_pos |-> start, end_code_pos |-> end, id |-> id]

addTryBlock(stack, c) ==
    [stack EXCEPT ![functionOf(stack)].try_blocks = Append(@, TryBlock(c.start, c.jump + 1, c.id))]

closeCatch ==
    /\ inside("try", "catch")
    /\ prog_opcodes' = fixJumpOpcode(prog_opcodes, getOpcodePos(prog_opcodes) - top.jump - 1, top.jump)
    /\ open' = addTryBlock(Front(open), top)
    /\ UNCHANGED <<functions, constructs, leaves>>

-----------------------------------------------------------------------------
(* Loops.  All but for-in are scopes whose last part is the one that       *)
(* continue goes to.                                                       *)

LoopBreak(pos, type) == [pos |-> pos, type |-> type]

\* "if(!cond) break", and where its break is
IfNotBreak(stack) == Condition(stack) \o <<Op("jump", 0, stack, "break")>>
exitBreak(code) == LoopBreak(getOpcodePos(code) + 2, "break")

directCondition(code, p) == fixJumpOpcode(code, 1, p + 1)

openLoop(kind, cond) ==
    LET pre == IF kind \in {"for", "forin"} THEN Append(prog_opcodes, Op("plain", 0, open, "")) ELSE prog_opcodes
        c == Construct(kind, "body", getOpcodePos(pre), 0)
        head == Append(open, [c EXCEPT !.part = "cond"])
        next == IF kind = "forin" THEN Append(pre, Op("plain", 0, head, "")) ELSE pre
    IN
    /\ mayOpen
    /\ cond = (kind # "do") \/ kind = "for"
    /\ prog_opcodes' = IF cond THEN directCondition(next \o IfNotBreak(head), getOpcodePos(next)) ELSE next
    /\ opened(IF cond THEN [c EXCEPT !.breaks = <<exitBreak(next)>>] ELSE c)
    /\ UNCHANGED <<functions, leaves>>

\* Mutant: a break goes where a continue goes
badBreakTarget(b, continue_pos, end_pos) == continue_pos

breakTarget(b, continue_pos, end_pos) == IF b.type = "break" THEN end_pos ELSE continue_pos

fixLoopBreaks(code, breaks, scope_start_pos, scope_end_pos) ==
    FoldLeft(LAMBDA acc, b : fixJumpOpcode(acc, breakTarget(b, scope_start_pos, scope_end_pos) - b.pos - 1, b.pos),
             code, breaks)

\* start_for_post, 0 when the scope is not a FOR_LOOP_SCOPE
start_for_post(kind, code) == IF kind = "forin" THEN 0 ELSE getOpcodePos(code)

\* The post part, the jump back, and the targets of break and continue
closeLoop(post) ==
    LET kind == top.kind
        tail == Append(Front(open), [top EXCEPT !.part = IF kind = "do" THEN "cond" ELSE "post"])
        withPost == IF kind = "do" THEN directCondition(prog_opcodes \o IfNotBreak(tail), getOpcodePos(prog_opcodes))
                    ELSE IF post THEN Append(prog_opcodes, Op("plain", 0, tail, "")) ELSE prog_opcodes
        breaks == IF kind = "do" THEN Append(top.breaks, exitBreak(prog_opcodes)) ELSE top.breaks
        continue_pos == IF start_for_post(kind, prog_opcodes) # 0 THEN start_for_post(kind, prog_opcodes) ELSE top.start
        whole == Append(withPost, Op("jump", top.start - getOpcodePos(withPost) - 1, open, "back"))
    IN
    /\ open # << >> /\ kind \in Loops
    /\ post => kind = "for"
    /\ prog_opcodes' = fixLoopBreaks(whole, breaks, continue_pos, getOpcodePos(whole))
    /\ closed
    /\ UNCHANGED <<functions, constructs, leaves>>

-----------------------------------------------------------------------------
(* Switch: the tests of all labels come first, then the body, in which     *)
(* the labels are found.  Labels are counted in the order of the body.     *)

\* A test is a condition and the jump to the label; default, or else the end, is tested last
CaseTests(stack, cases) ==
    FlattenSeq([i \in DOMAIN cases |-> Condition(stack) \o <<CaseJump(stack, cases[i])>>])

openSwitch(n, default) ==
    LET c == Construct("switch", "body", getOpcodePos(prog_opcodes), 0)
        head == Append(open, [c EXCEPT !.part = "cond"])
        ranks == SetToSortSeq((1 .. n + 1) \ {default}, <)
        cases == IF default = n + 2 THEN SubSeq(ranks, 1, n) ELSE ranks
        first == getOpcodePos(prog_opcodes) + 1
        from(i) == first + 3 * i - 1
        tests == Append(prog_opcodes, Op("plain", 0, head, "")) \o CaseTests(head, cases)
    IN
    /\ mayOpen
    /\ prog_opcodes' = Append(FoldLeft(LAMBDA acc, i : directCondition(acc, first + 3 * (i - 1)),
                                       tests, [i \in 1 .. Len(cases) |-> i]),
                              CaseJump(head, default))
    /\ opened([c EXCEPT !.labels = [r \in 1 .. n + 2 |->
            IF r = default THEN getOpcodePos(tests)
            ELSE IF \E i \in DOMAIN cases : cases[i] = r THEN from(CHOOSE i \in DOMAIN cases : cases[i] = r) ELSE 0]])
    /\ UNCHANGED <<functions, leaves>>

\* setCaseLabelPos: both ends are known
directLabel(code, from_pos) ==
    IF from_pos = 0 THEN code ELSE fixJumpOpcode(code, getOpcodePos(code) - from_pos - 1, from_pos)

isLabel(c, r) == r < Len(c.labels) /\ c.labels[r] # 0

caseLabel ==
    /\ open # << >> /\ top.kind = "switch" /\ isLabel(top, top.rank + 1)
    /\ prog_opcodes' = directLabel(prog_opcodes, top.labels[top.rank + 1])
    /\ open' = [open EXCEPT ![Len(open)].rank = @ + 1]
    /\ UNCHANGED <<functions, constructs, leaves>>

\* A switch without default goes to its end
closeSwitch ==
    LET all == directLabel(prog_opcodes, Last(top.labels)) IN
    /\ open # << >> /\ top.kind = "switch" /\ ~isLabel(top, top.rank + 1)
    /\ prog_opcodes' = fixLoopBreaks(all, top.breaks, top.start, getOpcodePos(all))
    /\ closed
    /\ UNCHANGED <<functions, constructs, leaves>>

-----------------------------------------------------------------------------
(* break, continue and nested functions.                                   *)

\* addLoopBreak: the scope that a break or continue belongs to, if there is one
loopScope(stack, type) ==
    LET stops == IF type = "break" THEN Loops \cup {"switch"} ELSE Loops IN
    { i \in DOMAIN stack :
        /\ stack[i].kind \in stops
        /\ \A j \in i + 1 .. Len(stack) : stack[j].kind \notin stops \cup {"function"} }

breakOrContinue(type) ==
    /\ open # << >> /\ leaves < MaxLeaves
    /\ \E i \in loopScope(open, type) :
        /\ prog_opcodes' = Append(prog_opcodes, Op("jump", 0, open, type))
        /\ open' = [open EXCEPT ![i].breaks = Append(@, LoopBreak(getOpcodePos(prog_opcodes), type))]
    /\ leaves' = leaves + 1
    /\ UNCHANGED <<functions, constructs>>

openFunction ==
    /\ mayOpen
    /\ prog_opcodes' = Append(prog_opcodes, Op("new_function", 0, open, ""))
    /\ opened(Construct("function", "body", getOpcodePos(prog_opcodes) + 1, 0))
    /\ UNCHANGED <<functions, leaves>>

\* OP_RETURN, then the size that OP_NEW_FUNCTION skips
closeFunction ==
    LET whole == Append(prog_opcodes, Op("return", 0, open, "")) IN
    /\ inside("function", "body")
    /\ prog_opcodes' = whole
    /\ functions' = [id \in DOMAIN functions \cup {top.id} |->
            IF id = top.id THEN [pos |-> top.start, size |-> getOpcodePos(whole) - top.start, try_blocks |-> top.try_blocks]
            ELSE functions[id]]
    /\ closed
    /\ UNCHANGED <<constructs, leaves>>

Next ==
    \/ statement
    \/ openIf \/ openElse \/ closeIf
    \/ openTry \/ openCatch \/ closeCatch
    \/ \E kind \in LoopKinds, cond \in BOOLEAN : openLoop(kind, cond)
    \/ \E post \in BOOLEAN : closeLoop(post)
    \/ \E n \in 1 .. MaxCases : \E default \in 1 .. n + 2 : openSwitch(n, default)
    \/ caseLabel \/ closeSwitch
    \/ \E type \in {"break", "continue"} : breakOrContinue(type)
    \/ openFunction \/ closeFunction

Spec == Init /\ [][Next]_vars

-----------------------------------------------------------------------------
(* Run time.                                                               *)

\* Where a jump goes: the instruction pointer is already behind it
target(p) == p + 1 + at(prog_opcodes, p).sBx

\* Mutant: the position where the block starts counts, too
badInRange(cur_opcode_pos, t) == cur_opcode_pos >= t.start_code_pos /\ cur_opcode_pos < t.end_code_pos

inRange(cur_opcode_pos, t) == cur_opcode_pos > t.start_code_pos /\ cur_opcode_pos < t.end_code_pos

\* found_try_block, as the loop over the blocks of the function leaves it: none or one
found_try_block(f, cur_opcode_pos) ==
    LET closer(t, found) == t.start_code_pos >= found.start_code_pos /\ t.end_code_pos < found.end_code_pos
        step(found, t) == IF inRange(cur_opcode_pos, t) /\ \A u \in found : closer(t, u) THEN {t} ELSE found
    IN  FoldLeft(step, {}, functions[f].try_blocks)

\* Where the instruction pointer can be when instruction p has failed: a comparison whose
\* method throws still skips the next instruction or jumps
afterFailure(p) ==
    CASE at(prog_opcodes, p).op = "plain" -> {p + 1}
      [] at(prog_opcodes, p).op = "logic" -> {p + 2, target(p + 1)}
      [] OTHER -> {}

-----------------------------------------------------------------------------
(* The text.                                                               *)

Written == open = << >>
Positions == 0 .. Len(prog_opcodes) - 1
Ops(id) == { p \in Positions :
    LET in == at(prog_opcodes, p).in IN \E i \in DOMAIN in : in[i].id = id }
Part(id, part) == { p \in Positions :
    LET in == at(prog_opcodes, p).in IN \E i \in DOMAIN in : in[i].id = id /\ in[i].part = part }

\* Position t is the first one behind the instructions S
Behind(t, S) == t - 1 \in S /\ \A p \in S : p < t

\* The function of an instruction, and the constructs around it in that function
Function(p) == at(prog_opcodes, p).in[functionOf(at(prog_opcodes, p).in)].id
Around(p) == SubSeq(at(prog_opcodes, p).in, functionOf(at(prog_opcodes, p).in) + 1, Len(at(prog_opcodes, p).in))

InnermostOf(p, kinds) == LET s == SelectSeq(Around(p), LAMBDA c : c.kind \in kinds) IN Last(s)

\* A position, or the one that the jump back written there goes to
Resumed(p) == IF at(prog_opcodes, p).tag = "back" THEN target(p) ELSE p

Jumps(tag) == { p \in Positions : at(prog_opcodes, p).op = "jump" /\ at(prog_opcodes, p).tag = tag }

\* Where a continue of the text goes on
ContinueOf(id) ==
    IF Part(id, "post") # {} THEN Min(Part(id, "post"))
    ELSE IF Part(id, "cond") # {} THEN Min(Part(id, "cond"))
    ELSE Resumed(Min(Ops(id)))

(* Whatever is nested in whatever, break goes to the first instruction     *)
(* after the closest loop or switch of its function (fixLoopBreaks).       *)
BreakLeaves ==
    Written => \A p \in Jumps("break") : Behind(target(p), Ops(InnermostOf(p, Loops \cup {"switch"}).id))

(* continue goes on with the closest loop of its function, also out of a   *)
(* switch: with the third part of for, or else with the condition          *)
(* (start_for_post).                                                       *)
ContinueResumes ==
    Written => \A p \in Jumps("continue") : Resumed(target(p)) = ContinueOf(InnermostOf(p, Loops).id)

(* A branch that is not taken goes behind the code it skips, and the end   *)
(* of a branch or of a try block behind the whole statement.               *)
BranchesExact ==
    Written =>
        /\ \A p \in Jumps("branch") :
            LET c == Last(at(prog_opcodes, p).in) IN
            IF c.kind = "if" THEN Behind(target(p), {p} \cup Part(c.id, "then")) ELSE target(p) = p + 2
        /\ \A p \in Jumps("over") : Behind(target(p), Ops(Last(at(prog_opcodes, p).in).id))

(* The jump of a case label goes to the code after that label in the body, *)
(* default's too, and behind the switch when there is none.                *)
CasesExact ==
    Written => \A p \in Jumps("case") :
        LET id == Last(at(prog_opcodes, p).in).id
            label == at(prog_opcodes, p).label
            labelled == { q \in Positions :
                LET in == at(prog_opcodes, q).in IN
                \E i \in DOMAIN in : in[i].id = id /\ in[i].rank >= label /\ in[i].part = "body" }
        IN  IF labelled = {} THEN Behind(target(p), Ops(id))
            ELSE target(p) \in labelled /\ \A q \in labelled : target(p) <= q

(* The head of execute's loop: an exception of an instruction, wherever    *)
(* the instruction left the instruction pointer, is caught by the closest  *)
(* try block of the text of its function, and by no other.                 *)
HandlerInnermost ==
    Written => \A p \in Positions : \A cur \in afterFailure(p) :
        LET tries == SelectSeq(Around(p), LAMBDA c : c.kind = "try" /\ c.part = "try")
        IN  { t.id : t \in found_try_block(Function(p), cur) } = IF tries = << >> THEN {} ELSE {Last(tries).id}

(* The assertions at OP_JUMP and at the head of the loop: no jump leaves   *)
(* the code of its function or enters that of a nested one.                *)
StaysInFunction ==
    Written => \A p \in Positions : at(prog_opcodes, p).op = "jump" =>
        LET id == Function(p)
            f == functions[id] IN
        /\ target(p) \in f.pos .. f.pos + f.size - 1
        /\ Function(target(p)) = id \/ at(prog_opcodes, target(p)).op = "new_function"

(* Every jump of every program goes where the text says.                   *)
JumpsLand == BreakLeaves /\ ContinueResumes /\ BranchesExact /\ CasesExact /\ StaysInFunction
=============================================================================
