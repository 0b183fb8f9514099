----------------------------- MODULE PropAccess -----------------------------
(***************************************************************************)
(* Access to properties: prototypes, the handlers that scripts define      *)
(* (__get@name, __get, and the same for set, del and isset) and valueOf,   *)
(* and the guards against handlers that call themselves.  A handler is     *)
(* script code: it may access any property, return or throw.               *)
(*                                                                         *)
(* A guard is a table of tables, from objects to names to counters.  The   *)
(* name NaN is different from itself, so that an entry of that name is     *)
(* never found.  Values are left out, and so are the special name          *)
(* "prototype" and the elements of arrays; prototypes have no cycles.      *)
(***************************************************************************)
EXTENDS Naturals, Sequences, FiniteSets, SequencesExt, Functions

CONSTANTS
    Objs,
    Prototype,      \* the prototype of each object, Nil for none
    Nil,
    Names,          \* names that scripts use
    NaN,            \* the name that is not a number
    Handlers,       \* the sets of handlers that the objects may have: <<object, kind>>
    Limit,          \* the count that pushRecursion refuses, 4
    MaxDepth        \* bound on the number of active handlers

Named == {"get@", "set@", "del@", "isset@"}     \* handlers of one property
General == {"get", "set", "del", "isset"}       \* handlers of all properties
Guarded == {"get", "set"}
Kinds == Named \cup General \cup {"valueOf"}

ASSUME PropAccessAssumption ==
    /\ Prototype \in [Objs -> Objs \cup {Nil}] /\ Nil \notin Objs
    /\ Handlers \subseteq SUBSET (Objs \X Kinds)
    /\ Limit \in Nat \ {0} /\ MaxDepth \in Nat

VARIABLES
    handlers,       \* the handlers that the objects have, for every name
    table,          \* the names of each object's own properties
    frames,         \* [kind, obj, name]: the active handlers, the running one last
    guard,          \* guard["get"], guard["set"]: check_get_recursion, check_set_recursion
    valueof_guard,  \* check_valueof_recursion: a set of objects
    terminated      \* an exception is set

vars == <<handlers, table, frames, guard, valueof_guard, terminated>>

\* The table of an object in a guard: its counters, and whether there are
\* entries of the name NaN, which nothing deletes
NoCounters == [count |-> << >>, nan |-> FALSE]

Init ==
    /\ handlers \in Handlers
    /\ table = [o \in Objs |-> {}]
    /\ frames = << >>
    /\ guard = [g \in Guarded |-> << >>]
    /\ valueof_guard = {}
    /\ terminated = FALSE

-----------------------------------------------------------------------------
(* Lookup along the prototypes *)

\* o, its prototype, the prototype of that, and so on
Chain(o) ==
    LET up[n \in 0 .. Cardinality(Objs)] ==
            IF n = 0 THEN o ELSE IF up[n - 1] = Nil THEN Nil ELSE Prototype[up[n - 1]]
    IN  {up[n] : n \in 0 .. Cardinality(Objs)} \ {Nil}

\* getPropertyValue with prototype_enabled
HasProp(o, n) == n # NaN /\ \E p \in Chain(o) : n \in table[p]
HasHandler(o, kind) == \E p \in Chain(o) : <<p, kind>> \in handlers

\* table->get and deleteTableProperty of one object
HasOwn(o, n) == n # NaN /\ n \in table[o]

-----------------------------------------------------------------------------
(* The guards *)

SubTable(g, o) == IF o \in DOMAIN guard[g] THEN guard[g][o] ELSE NoCounters

Counter(g, o, n) ==
    IF n \in DOMAIN SubTable(g, o).count THEN SubTable(g, o).count[n] ELSE 0

Put(f, k, v) == [x \in DOMAIN f \cup {k} |-> IF x = k THEN v ELSE f[x]]

\* pushRecursion returns true
CanPush(g, o, n) == Counter(g, o, n) + 1 < Limit

pushRecursion(g, o, n) ==
    LET sub == SubTable(g, o)
        pushed == IF n = NaN THEN [sub EXCEPT !.nan = TRUE]
                  ELSE [sub EXCEPT !.count = Put(sub.count, n, Counter(g, o, n) + 1)]
    IN  guard' = [guard EXCEPT ![g] = Put(guard[g], o, pushed)]

\* Mutant: the entry of the object goes with the last use of any name
badPopRecursion(g, o, n) ==
    IF Counter(g, o, n) > 1
    THEN guard' = [guard EXCEPT ![g][o].count[n] = @ - 1]
    ELSE guard' = [guard EXCEPT ![g] = Restrict(@, DOMAIN @ \ {o})]

\* popRecursion: an entry of the object goes with its last name; a counter that
\* is not found is left
popRecursion(g, o, n) ==
    LET sub == SubTable(g, o)
    IN  IF Counter(g, o, n) = 0 THEN UNCHANGED guard
        ELSE IF Counter(g, o, n) > 1
        THEN guard' = [guard EXCEPT ![g][o].count[n] = @ - 1]
        ELSE IF DOMAIN sub.count = {n} /\ ~sub.nan
        THEN guard' = [guard EXCEPT ![g] = Restrict(@, DOMAIN @ \ {o})]
        ELSE guard' = [guard EXCEPT ![g][o].count = Restrict(@, DOMAIN @ \ {n})]

-----------------------------------------------------------------------------
(* Script code, in the running handler or outside of all of them, accesses *)
(* property n of object o, which is not found.                             *)

call(kind, o, n) ==
    /\ Len(frames) < MaxDepth
    /\ frames' = Append(frames, [kind |-> kind, obj |-> o, name |-> n])

\* A handler that is called without a guard
callUnguarded(kind, o, n) ==
    call(kind, o, n) /\ UNCHANGED <<table, guard, terminated>>

callGuarded(g, o, n) ==
    CanPush(g, o, n) /\ call(g, o, n) /\ pushRecursion(g, o, n) /\ UNCHANGED <<table, terminated>>

setException == terminated' = TRUE /\ UNCHANGED <<table, frames, guard>>

addProperty(o, n) == table' = [table EXCEPT ![o] = @ \cup {n}]

\* A handler __get@name without a handler for the change
IsReadonly(o, n) == n # NaN /\ HasHandler(o, "get@")

\* OS_GETTER_VALUE_PTR
getProperty(o, n) ==
    /\ ~terminated /\ ~HasProp(o, n)
    /\ \/ /\ n # NaN /\ HasHandler(o, "get@")
          /\ callUnguarded("get@", o, n)
       \/ /\ ~(n # NaN /\ HasHandler(o, "get@")) /\ HasHandler(o, "get")
          /\ \/ callGuarded("get", o, n)
             \/ ~CanPush("get", o, n) /\ setException
    /\ UNCHANGED <<handlers, valueof_guard>>

\* OS_SETTER_VALUE_PTR.  When the guard refuses, the property is added after
\* the exception has been set.
setProperty(o, n) ==
    LET named == n # NaN /\ HasHandler(o, "set@")
        readonly == ~named /\ IsReadonly(o, n)
        general == ~named /\ ~readonly /\ HasHandler(o, "set")
    IN  /\ ~terminated /\ ~HasOwn(o, n)
        /\ \/ named /\ callUnguarded("set@", o, n)
           \/ readonly /\ setException
           \/ general /\ callGuarded("set", o, n)
           \/ /\ general /\ ~CanPush("set", o, n)
              /\ addProperty(o, n) /\ terminated' = TRUE /\ UNCHANGED <<frames, guard>>
           \/ /\ ~named /\ ~readonly /\ ~general
              /\ addProperty(o, n) /\ UNCHANGED <<frames, guard, terminated>>
        /\ UNCHANGED <<handlers, valueof_guard>>

\* deleteValueProperty: the own property, or else the handlers of a name that
\* no prototype has
deleteProperty(o, n) ==
    LET named == n # NaN /\ HasHandler(o, "del@")
        readonly == ~named /\ IsReadonly(o, n)
    IN  /\ ~terminated
        /\ \/ /\ HasOwn(o, n)
              /\ table' = [table EXCEPT ![o] = @ \ {n}]
              /\ UNCHANGED <<frames, guard, terminated>>
           \/ /\ ~HasProp(o, n)
              /\ \/ named /\ callUnguarded("del@", o, n)
                 \/ readonly /\ setException
                 \/ ~named /\ ~readonly /\ HasHandler(o, "del") /\ callUnguarded("del", o, n)
        /\ UNCHANGED <<handlers, valueof_guard>>

\* hasProperty: a handler __get@name answers without being called
hasProperty(o, n) ==
    LET named == n # NaN /\ HasHandler(o, "isset@")
    IN  /\ ~terminated /\ ~HasProp(o, n)
        /\ \/ named /\ callUnguarded("isset@", o, n)
           \/ /\ ~named /\ ~(n # NaN /\ HasHandler(o, "get@")) /\ HasHandler(o, "isset")
              /\ callUnguarded("isset", o, n)
        /\ UNCHANGED <<handlers, valueof_guard>>

\* valueOf is looked up from the prototype on
HasValueOf(o) == Prototype[o] # Nil /\ HasHandler(Prototype[o], "valueOf")

\* pushValueOf of an object whose valueOf is not active already
pushValueOf(o) ==
    /\ ~terminated /\ HasValueOf(o) /\ o \notin valueof_guard
    /\ call("valueOf", o, Nil)
    /\ valueof_guard' = valueof_guard \cup {o}
    /\ UNCHANGED <<handlers, table, guard, terminated>>

-----------------------------------------------------------------------------
(* The end of a handler *)

throw ==
    /\ frames # << >> /\ ~terminated
    /\ setException
    /\ UNCHANGED <<handlers, valueof_guard>>

\* A try block of the running code
catch ==
    /\ terminated
    /\ terminated' = FALSE
    /\ UNCHANGED <<handlers, table, frames, guard, valueof_guard>>

\* The handler returns, or an exception leaves it: callFT returns in either case
return ==
    LET f == Last(frames)
    IN  /\ frames # << >>
        /\ frames' = Front(frames)
        /\ IF f.kind \in Guarded THEN popRecursion(f.kind, f.obj, f.name) ELSE UNCHANGED guard
        /\ valueof_guard' = IF f.kind = "valueOf" THEN valueof_guard \ {f.obj} ELSE valueof_guard
        /\ UNCHANGED <<handlers, table, terminated>>

access(o, n) == getProperty(o, n) \/ setProperty(o, n) \/ deleteProperty(o, n) \/ hasProperty(o, n)

Next ==
    \/ \E o \in Objs, n \in Names : access(o, n)
    \/ \E o \in Objs : pushValueOf(o)
    \/ throw \/ catch \/ return

Spec == Init /\ [][Next]_vars

-----------------------------------------------------------------------------
(* Properties *)

Active(kind, o, n) ==
    Cardinality({k \in DOMAIN frames : frames[k] = [kind |-> kind, obj |-> o, name |-> n]})

\* The guards hold objects, the frames are handlers of objects and names
TypeOK ==
    /\ handlers \in Handlers
    /\ table \in [Objs -> SUBSET Names]
    /\ frames \in Seq([kind : Kinds, obj : Objs, name : Names \cup {Nil}]) /\ Len(frames) <= MaxDepth
    /\ DOMAIN guard = Guarded
    /\ \A g \in Guarded : DOMAIN guard[g] \subseteq Objs
    /\ valueof_guard \subseteq Objs
    /\ terminated \in BOOLEAN

\* The names whose counters are found
Counted == Names \ {NaN}

\* The counters of the guards are the numbers of active handlers, whatever way
\* earlier ones ended, and a guard keeps no object that has none, unless a
\* handler of the name NaN left its entry.
GuardsExact ==
    /\ \A g \in Guarded, o \in Objs, n \in Counted : Counter(g, o, n) = Active(g, o, n)
    /\ \A g \in Guarded : \A o \in DOMAIN guard[g] :
            guard[g][o].nan \/ \E n \in Counted : Active(g, o, n) > 0

\* A handler __get or __set that uses the property it serves is stopped: at
\* most Limit - 1 of them are active for one name of one object.
BoundedNesting ==
    \A g \in Guarded, o \in Objs, n \in Counted : Active(g, o, n) < Limit

\* valueOf of an object is active at most once, and the object is in the guard
\* exactly as long.
ValueOfOnce ==
    \A o \in Objs : Active("valueOf", o, Nil) = IF o \in valueof_guard THEN 1 ELSE 0

\* A property with a handler __get@name and no __set@name is read only: no
\* sequence of accesses through any object gives its object an own value.
ReadonlyNeverSet ==
    \A o \in Objs : HasHandler(o, "get@") /\ ~HasHandler(o, "set@") => table[o] \subseteq {NaN}

\* popRecursion finds the counter of the handler that ends, unless its name is NaN
PopFindsCounter ==
    \A k \in DOMAIN frames :
        frames[k].kind \in Guarded => Counter(frames[k].kind, frames[k].obj, frames[k].name) > 0

\* The guards are exact however handlers end, they stop what recurs, and read
\* only properties stay so.
AccessSound == TypeOK /\ GuardsExact /\ BoundedNesting /\ ValueOfOnce /\ ReadonlyNeverSet
=============================================================================
