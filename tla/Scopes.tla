------------------------------- MODULE Scopes -------------------------------
(***************************************************************************)
(* The names of a compiled text (src/src/objectscript.cpp).                *)
(*                                                                         *)
(* The parser goes through the text once.  It opens and closes scopes,     *)
(* declares variables, and resolves the target of every assignment at      *)
(* once.  Names that are read stay as they are until the whole text is     *)
(* parsed: postCompilePass2 resolves them, then registerUpvalue flags      *)
(* every variable that an inner function uses, because clearStackFunction  *)
(* keeps only the flagged ones when a call returns.                        *)
(*                                                                         *)
(* The text is arbitrary: each action is one construct of it.  A resolved  *)
(* name is the pair the opcodes hold, the number of functions to go up and *)
(* the slot there.  The variables that every function has (_F, this, _E    *)
(* and _G) are left out, and the slots are counted without them.           *)
(***************************************************************************)
EXTENDS Integers, Sequences, FiniteSets, FiniteSetsExt

CONSTANTS
    Names,        \* the names the text uses
    MaxScopes,    \* bound: scopes of the text, the main function included
    MaxAccesses,  \* bound: names read or assigned
    MaxDecls      \* bound: variables declared

ScopesAssumption ==
    /\ MaxScopes \in Nat \ {0}
    /\ MaxAccesses \in Nat
    /\ MaxDecls \in Nat

VARIABLES
    scopes,  \* every Scope, in the order of their creation; 1 is the main function
    cur,     \* the scope the parser is in; 0 when the text is compiled
    code     \* the accesses to names, in the order of the text

vars == <<scopes, cur, code>>

-----------------------------------------------------------------------------
(* Scopes and their variables.                                             *)

\* A new Scope, before its variables are added.
NewScope(parent, type, self) ==
    [parent |-> parent, type |-> type,
     function |-> IF type = "function" THEN self ELSE scopes[parent].function,
     locals |-> <<>>, numLocals |-> 0, maxUp |-> 0]

\* Scope::addLocalVar: a variable of scope s, in the next slot of its function.
\* The variable keeps that slot to the end of the function, whatever scope it
\* belongs to.
AddLocalVar(ss, s, name) ==
    LET f == ss[s].function
        v == [name |-> name, index |-> ss[f].numLocals, upvalue |-> FALSE]
        added == [ss EXCEPT ![s].locals = Append(@, v)]
    IN [added EXCEPT ![f].numLocals = @ + 1]

\* Going out of a function, and only then, is one step up for the opcodes.
NextUp(ss, s, up) == IF ss[s].type = "function" THEN up + 1 ELSE up

\* What findLocalVar leaves in LocalVarDesc.
NotFound == [found |-> FALSE, index |-> 0, up |-> 0, upScope |-> 0]

\* findLocalVar: the last variable of that name in the innermost scope that has
\* a visible one.  A variable of an outer function is visible wherever it is
\* declared, one of the same function only if its slot is below active, or if
\* the search is for a declaration and this is the scope it started in.
FindLocalVar(ss, scope, name, active, allScopes, decl) ==
    LET visible(s, up, upScope) ==
            {i \in 1..Len(ss[s].locals) :
                /\ ss[s].locals[i].name = name
                /\ \/ up > 0
                   \/ decl /\ upScope = 0
                   \/ ss[s].locals[i].index < active}
        find[s \in 0..Len(ss), up \in 0..Len(ss), upScope \in 0..Len(ss)] ==
            IF s = 0 THEN NotFound
            ELSE IF visible(s, up, upScope) # {}
                 THEN [found |-> TRUE, up |-> up, upScope |-> upScope,
                       index |-> ss[s].locals[Max(visible(s, up, upScope))].index]
                 ELSE IF ~allScopes THEN NotFound
                      ELSE find[ss[s].parent, NextUp(ss, s, up), upScope + 1]
    IN find[scope, 0, 0]

\* scope->function->max_up_count is raised when a name is resolved.
RaiseMaxUp(ss, scope, d) ==
    IF d.found /\ ss[ss[scope].function].maxUp < d.up
    THEN [ss EXCEPT ![ss[scope].function].maxUp = d.up] ELSE ss

\* Lib::registerLocalVar: `local` declares in the current scope, `var` in the
\* scope of the function; a variable that is there already is taken as it is.
\* Returns the scopes and what the declared name stands for.
RegisterLocalVar(ss, scope, name, active, isLocal) ==
    LET home == IF isLocal THEN scope ELSE ss[scope].function
        d == FindLocalVar(ss, home, name, active, FALSE, TRUE)
    IN IF d.found THEN [ss |-> ss, d |-> d]
       ELSE [ss |-> AddLocalVar(ss, home, name),
             d |-> [found |-> TRUE, up |-> 0, upScope |-> 0,
                    index |-> ss[ss[home].function].numLocals]]

\* The variables that exist when an access is parsed; only the properties use it.
Seen == [s \in 1..Len(scopes) |-> scopes[s].numLocals]

\* One access as the expression tree holds it.
Access(op, name, active, d) ==
    [op |-> op, scope |-> cur, name |-> name, active |-> active,
     found |-> d.found, index |-> d.index, up |-> d.up, seen |-> Seen]

ActiveLocals == scopes[scopes[cur].function].numLocals

\* The variables declared so far, parameters included.
Declared == UNION {{s} \X (1..Len(scopes[s].locals)) : s \in 1..Len(scopes)}

-----------------------------------------------------------------------------
(* The constructs of the text.                                             *)

\* The scope of the main function, as expectTextExpression creates it.
Init ==
    /\ scopes = <<[parent |-> 0, type |-> "function", function |-> 1,
                   locals |-> <<>>, numLocals |-> 0, maxUp |-> 0]>>
    /\ cur = 1
    /\ code = <<>>

\* The head of a function with its parameters, a block, or a catch block with
\* the variable of the exception.
Enter(type, names) ==
    /\ cur # 0
    /\ Len(scopes) < MaxScopes
    /\ Cardinality(Declared) + Cardinality(names) <= MaxDecls
    /\ LET self == Len(scopes) + 1
           opened == Append(scopes, NewScope(cur, type, self))
       IN /\ scopes' = IF names = {} THEN opened
                       ELSE AddLocalVar(opened, self, CHOOSE n \in names : TRUE)
          /\ cur' = self
    /\ UNCHANGED code

\* A name that is read: an EXP_TYPE_NAME that waits for postCompilePass2.
Read(name) ==
    /\ cur # 0
    /\ Len(code) < MaxAccesses
    /\ code' = Append(code, Access("get", name, ActiveLocals, NotFound))
    /\ UNCHANGED <<scopes, cur>>

\* badAssign: only the current scope is searched.
badAssign(name) ==
    /\ cur # 0
    /\ Len(code) < MaxAccesses
    /\ LET d == FindLocalVar(scopes, cur, name, ActiveLocals, FALSE, FALSE)
       IN /\ scopes' = RaiseMaxUp(scopes, cur, d)
          /\ code' = Append(code, Access("set", name, ActiveLocals, d))
    /\ UNCHANGED cur

\* name = value: newAssingExpression looks the name up right away.
Assign(name) ==
    /\ cur # 0
    /\ Len(code) < MaxAccesses
    /\ LET d == FindLocalVar(scopes, cur, name, ActiveLocals, TRUE, FALSE)
       IN /\ scopes' = RaiseMaxUp(scopes, cur, d)
          /\ code' = Append(code, Access("set", name, ActiveLocals, d))
    /\ UNCHANGED cur

\* var name, or local name, without a value.
Declare(isLocal, name) ==
    /\ cur # 0
    /\ Cardinality(Declared) < MaxDecls
    /\ scopes' = RegisterLocalVar(scopes, cur, name, 0, isLocal).ss
    /\ scopes' # scopes
    /\ UNCHANGED <<cur, code>>

\* var name = value, or local: the assignment is built first, with no variable
\* of the function active, and may find one of an outer function; declaring
\* the name then replaces what was found.
DeclareSet(isLocal, name) ==
    /\ cur # 0
    /\ Len(code) < MaxAccesses
    /\ Cardinality(Declared) < MaxDecls
    /\ LET d == FindLocalVar(scopes, cur, name, 0, TRUE, FALSE)
           r == RegisterLocalVar(RaiseMaxUp(scopes, cur, d), cur, name, 0, isLocal)
       IN /\ scopes' = r.ss
          /\ code' = Append(code, Access("decl", name, 0, r.d))
    /\ UNCHANGED cur

\* var name = other = value: the inner assignment is declared as well, unless
\* it found a variable of the current scope itself.
DeclareChain(isLocal, name, other) ==
    /\ cur # 0
    /\ Len(code) + 1 < MaxAccesses
    /\ Cardinality(Declared) + 1 < MaxDecls
    /\ LET dOther == FindLocalVar(scopes, cur, other, ActiveLocals, TRUE, FALSE)
           dName == FindLocalVar(scopes, cur, name, 0, TRUE, FALSE)
           raised == RaiseMaxUp(RaiseMaxUp(scopes, cur, dOther), cur, dName)
           r1 == RegisterLocalVar(raised, cur, name, 0, isLocal)
           r2 == IF dOther.found /\ dOther.upScope = 0
                 THEN [ss |-> r1.ss, d |-> dOther]
                 ELSE RegisterLocalVar(r1.ss, cur, other, ActiveLocals, isLocal)
       IN /\ scopes' = r2.ss
          /\ code' = code \o <<Access("decl", other, ActiveLocals, r2.d),
                               Access("decl", name, 0, r1.d)>>
    /\ UNCHANGED cur

\* The end of a block or of an inner function.
Leave ==
    /\ cur > 1
    /\ cur' = scopes[cur].parent
    /\ UNCHANGED <<scopes, code>>

\* The scopes around s, itself included, out to the main function.
Enclosing(ss, s) ==
    LET around[t \in 0..Len(ss)] ==
            IF t = 0 THEN {} ELSE {t} \union around[ss[t].parent]
    IN around[s]

\* scope = scope->function->parent, up times: the scope, in the function that
\* owns the variable, that contains the inner function.
ScopeUp(ss, scope, up) ==
    LET climb[t \in 0..Len(ss), n \in 0..up] ==
            IF t = 0 \/ n = 0 THEN t ELSE climb[ss[ss[t].function].parent, n - 1]
    IN climb[scope, up]

\* badRegisterUpvalue: only the scope that contains the inner function.
badRegisterUpvalue(ss, a) ==
    LET from == ScopeUp(ss, a.scope, a.up)
        searched == {from}
        flag(v) == IF v.index = a.index THEN [v EXCEPT !.upvalue = TRUE] ELSE v
    IN [s \in 1..Len(ss) |->
          IF s \notin searched THEN ss[s]
          ELSE [ss[s] EXCEPT !.locals = [i \in DOMAIN @ |-> flag(@[i])]]]

\* registerUpvalue: from there over the scopes of that function to the variable
\* in the slot.
RegisterUpvalue(ss, a) ==
    LET from == ScopeUp(ss, a.scope, a.up)
        searched == {s \in Enclosing(ss, from) : ss[s].function = ss[from].function}
        flag(v) == IF v.index = a.index THEN [v EXCEPT !.upvalue = TRUE] ELSE v
    IN [s \in 1..Len(ss) |->
          IF s \notin searched THEN ss[s]
          ELSE [ss[s] EXCEPT !.locals = [i \in DOMAIN @ |-> flag(@[i])]]]

\* postCompilePass2: the name of a read.
Resolve(ss, a) ==
    LET d == FindLocalVar(ss, a.scope, a.name, a.active, TRUE, FALSE)
    IN IF a.op # "get" THEN a
       ELSE [a EXCEPT !.found = d.found, !.index = d.index, !.up = d.up]

\* The end of the text: every read is resolved, then every use of a variable of
\* an outer function flags the variable.
Finish ==
    LET resolved == [i \in DOMAIN code |-> Resolve(scopes, code[i])]
        raise[i \in 0..Len(code)] ==
            IF i = 0 THEN scopes ELSE RaiseMaxUp(raise[i - 1], code[i].scope, resolved[i])
        flag[i \in 0..Len(code)] ==
            IF i = 0 THEN raise[Len(code)]
            ELSE IF resolved[i].found /\ resolved[i].up > 0
                 THEN RegisterUpvalue(flag[i - 1], resolved[i]) ELSE flag[i - 1]
    IN /\ cur = 1
       /\ cur' = 0
       /\ code' = resolved
       /\ scopes' = flag[Len(code)]

EnterFunction == \E names \in {{}} \union {{n} : n \in Names} : Enter("function", names)
EnterBlock == Enter("block", {})
EnterCatch == \E n \in Names : Enter("block", {n})

Next ==
    \/ EnterFunction
    \/ EnterBlock
    \/ EnterCatch
    \/ \E n \in Names : Read(n) \/ Assign(n)
    \/ \E n \in Names, isLocal \in BOOLEAN : Declare(isLocal, n) \/ DeclareSet(isLocal, n)
    \/ \E n, m \in Names, isLocal \in BOOLEAN : DeclareChain(isLocal, n, m)
    \/ Leave
    \/ Finish

Spec == Init /\ [][Next]_vars

-----------------------------------------------------------------------------
(* Properties.                                                             *)

Variable == [name : Names, index : Nat, upvalue : BOOLEAN]

\* Every scope lies inside an earlier one, every slot is below num_locals of
\* its function, every access belongs to a scope.
TypeOK ==
    /\ cur \in 0..Len(scopes)
    /\ \A s \in 1..Len(scopes) :
          scopes[s] \in [parent : 0..(s - 1), type : {"function", "block"}, function : 1..s,
                         locals : Seq(Variable), numLocals : 0..MaxDecls, maxUp : 0..MaxScopes]
    /\ \A k \in 1..Len(code) :
          /\ code[k].op \in {"get", "set", "decl"}
          /\ code[k].scope \in 1..Len(scopes)

Compiled == cur = 0

\* The variables that belong to scope s or to a scope inside its function.
SlotsOf(f) ==
    UNION {{s} \X (1..Len(scopes[s].locals)) : s \in {t \in 1..Len(scopes) : scopes[t].function = f}}
Slot(v) == scopes[v[1]].locals[v[2]]

\* The variable the interpreter reaches for a compiled access: the slot
\* index of locals->getParent(up - 1), or of the function itself.
OwnerOf(a) ==
    LET from == ScopeUp(scopes, a.scope, a.up)
    IN IF from = 0 THEN 0 ELSE scopes[from].function
Reached(a) == {v \in SlotsOf(OwnerOf(a)) : Slot(v).index = a.index}

\* The slots of a function are exactly 0 .. num_locals - 1, one variable each:
\* writeOpcodes fills locals_compiled, allocated but not initialised, from the
\* variables of the scopes, and the interpreter reads all of it.
EverySlotDescribed ==
    \A f \in 1..Len(scopes) :
        scopes[f].type = "function" =>
            LET slots == SlotsOf(f) IN
            /\ {Slot(v).index : v \in slots} = 0..(scopes[f].numLocals - 1)
            /\ Cardinality(slots) = scopes[f].numLocals

\* When a call returns, clearStackFunction keeps the variables flagged upvalue
\* and no others: a variable is flagged exactly if some inner function reads or
\* assigns it.  The assertions of OP_GET_UPVALUE and OP_SET_UPVALUE.
KeptExactly ==
    Compiled =>
        /\ \A k \in 1..Len(code) :
              code[k].found /\ code[k].up > 0 =>
                  /\ Reached(code[k]) # {}
                  /\ code[k].up <= scopes[scopes[code[k].scope].function].maxUp
        /\ \A v \in Declared :
              Slot(v).upvalue <=>
                  \E k \in 1..Len(code) :
                      code[k].found /\ code[k].up > 0 /\ v \in Reached(code[k])

\* A name never reaches a variable of a scope it is not inside of, nor a
\* variable of another name, although all slots of a function stay allocated.
ResolvedInScope ==
    Compiled =>
        \A k \in 1..Len(code) :
            code[k].found =>
                \A v \in Reached(code[k]) :
                    /\ v[1] \in Enclosing(scopes, code[k].scope)
                    /\ Slot(v).name = code[k].name

\* No variable of that name around the access was declared since it was parsed.
NoneDeclaredSince(a) ==
    \A v \in Declared :
        v[1] \in Enclosing(scopes, a.scope) /\ Slot(v).name = a.name
            => Slot(v).index < a.seen[scopes[v[1]].function]

\* Assignments are resolved while the text is parsed and reads after it.  A
\* read that follows an assignment in the same scope still reaches the variable
\* that was assigned, as long as the name is not declared again between them or,
\* in an outer function, later.
ReadsWhatWasAssigned ==
    Compiled =>
        \A j, k \in 1..Len(code) :
            (/\ j < k
             /\ code[j].op = "set" /\ code[k].op = "get"
             /\ code[j].scope = code[k].scope
             /\ code[j].name = code[k].name
             /\ NoneDeclaredSince(code[j]))
            => /\ code[j].found = code[k].found
               /\ code[j].found => Reached(code[j]) = Reached(code[k])

\* The variables of a compiled text have their own slots, are kept after their
\* call if an inner function needs them, and are reached by their names only.
VariablesPlaced == TypeOK /\ EverySlotDescribed /\ KeptExactly /\ ResolvedInScope
=============================================================================
