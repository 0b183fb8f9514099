------------------------------- MODULE Sqlite -------------------------------
(***************************************************************************)
(* The SQLite extension (src/src/ext-sqlite3/os-sqlite3.cpp): connections  *)
(* and statements are C++ objects that script values own through           *)
(* userptr_refs.  A connection lists its statements and a statement points *)
(* to its connection, but their values do not refer to each other, so the  *)
(* collector destroys them in any order.                                   *)
(*                                                                         *)
(* Objects live at addresses that the allocator hands out again.  The      *)
(* collector itself is RefGC: here it may take any value the program has   *)
(* dropped, at any moment.  The library is external: preparing a text may  *)
(* fail or succeed, or yield no statement when the text has none, and a    *)
(* step yields a row, the end or an error.                                 *)
(***************************************************************************)
EXTENDS UserPointers, FiniteSets

CONSTANTS
    Addrs,      \* addresses of objects, positive numbers
    Texts,      \* the texts the program prepares: does the text hold a statement?
    MaxValues   \* bound: values created

ASSUME SqliteAssumption ==
    /\ Addrs \subseteq Nat \ {0}
    /\ Texts \subseteq BOOLEAN
    /\ MaxValues \in Nat

Null == 0

VARIABLES
    objects,  \* address -> the C++ object there
    values,   \* value_id -> [state, ptr]; the sequence of all values so far
    refs,     \* userptr_refs
    held,     \* the values the program can still name
    failed,   \* the assertions of the code that did not hold
    crashed   \* the process has read through a null pointer

sqliteVars == <<objects, values, refs, held, failed, crashed>>

\* What the constructors set; free memory is an object of no kind.
Constructed(kind, owner, stmt, val) ==
    [kind |-> kind, owner |-> owner, stmt |-> stmt, list |-> <<>>, code |-> "ok", val |-> val]

Free == Constructed("free", Null, FALSE, 0)

SqliteInit ==
    /\ objects = [a \in Addrs |-> Free]
    /\ values = <<>>
    /\ refs = EmptyTable
    /\ held = {}
    /\ failed = {}
    /\ crashed = FALSE

-----------------------------------------------------------------------------
(* Values of objects.                                                      *)

\* pushUserPointerValue: the value the table has for the address, or a new one.
PushUserPointerValue(ptr) ==
    LET id == FindUserPointerValue(refs, ptr)
        new == Len(values) + 1
    IN IF id # 0
       THEN /\ held' = held \union {id}
            /\ UNCHANGED <<values, refs>>
       ELSE /\ values' = Append(values, [state |-> "live", ptr |-> ptr])
            /\ refs' = RegisterUserptrRef(refs, [ptr |-> ptr, id |-> new])
            /\ held' = held \union {new}

\* OS_GET_SELF: the object of a value that the program calls a method of.
Self(v, kind) ==
    /\ ~crashed
    /\ v \in held
    /\ objects[values[v].ptr].kind = kind

-----------------------------------------------------------------------------
(* Connections.                                                            *)

\* Sqlite::__newinstance with a database that opens, maybe with an error that
\* is thrown while the connection exists; without one nothing is left behind.
NewConnection(a) ==
    /\ ~crashed
    /\ Len(values) < MaxValues
    /\ objects[a].kind = "free"
    /\ objects' = [objects EXCEPT ![a] = Constructed("conn", Null, FALSE, Len(values) + 1)]
    /\ PushUserPointerValue(a)
    /\ UNCHANGED <<failed, crashed>>

\* Sqlite::addStatement: the new statement at the head of the list.
AddStatement(o, c, a) == [o EXCEPT ![c].list = <<a>> \o @]

\* The statement that Sqlite::prepare makes for connection c.
Prepare(c, hasStatement) == Constructed("stmt", c, hasStatement, Len(values) + 1)

\* Sqlite::query.  A text without a statement leaves the library's handle NULL,
\* which prepare asserts against.  Parameters that cannot be bound throw, and
\* the statement is returned all the same; a text with an error changes nothing.
Query(v, a, hasStatement) ==
    LET c == values[v].ptr
    IN /\ Self(v, "conn")
       /\ Len(values) < MaxValues
       /\ objects[a].kind = "free"
       /\ objects' = AddStatement([objects EXCEPT ![a] = Prepare(c, hasStatement)], c, a)
       /\ failed' = IF hasStatement THEN failed ELSE failed \union {"prepare"}
       /\ PushUserPointerValue(a)
       /\ UNCHANGED crashed

\* SqliteStatement::step, for fetch, execute and each step of an iterator; the
\* end is remembered, and the statement is never reset.
Step(v, code) ==
    LET s == values[v].ptr
    IN /\ Self(v, "stmt")
       /\ objects[s].owner # Null /\ objects[s].stmt
       /\ objects[s].code # "done"
       /\ objects' = [objects EXCEPT ![s].code = code]
       /\ UNCHANGED <<values, refs, held, failed, crashed>>

\* step or bind of a statement whose connection is gone, or that has no handle: the
\* assertion fails; without it the library refuses the missing handle, and
\* the missing connection is read through a null pointer unless the end was
\* reached before.
StepUnowned(v) ==
    LET s == values[v].ptr
    IN /\ Self(v, "stmt")
       /\ ~(objects[s].owner # Null /\ objects[s].stmt)
       /\ failed' = failed \union {"step"}
       /\ crashed' = (objects[s].code # "done" /\ objects[s].owner = Null)
       /\ objects' = IF objects[s].code # "done" /\ objects[s].owner # Null
                 THEN [objects EXCEPT ![s].code = "error"] ELSE objects
       /\ UNCHANGED <<values, refs, held>>

\* SqliteStatement::__iter pushes the value of the statement again.
Iter(v) ==
    /\ Self(v, "stmt")
    /\ Len(values) < MaxValues
    /\ PushUserPointerValue(values[v].ptr)
    /\ UNCHANGED <<objects, failed, crashed>>

-----------------------------------------------------------------------------
(* Destruction.                                                            *)

\* Sqlite::removeStatement: unlinked, finalized, and no longer owned.
RemoveStatement(o, s) ==
    LET c == o[s].owner
    IN [o EXCEPT ![c].list = RemoveFirst(@, s), ![s].owner = Null, ![s].stmt = FALSE]

\* The memory of an object is free again.
Freed(o, a) == [o EXCEPT ![a] = Free]

\* badDestroyConnection: the statements keep their handles and their owner.
badDestroyConnection(o, c) == Freed(o, c)

\* ~Sqlite removes the first statement until its list is empty, and closes the
\* database.
DestroyConnection(o, c) ==
    [a \in DOMAIN o |->
        IF a = c THEN Free
        ELSE IF a \in ToSet(o[c].list) THEN [o[a] EXCEPT !.owner = Null, !.stmt = FALSE]
        ELSE o[a]]

\* ~SqliteStatement takes itself out of the list of a connection that still
\* exists.
DestroyStatement(o, s) ==
    Freed(IF o[s].owner # Null THEN RemoveStatement(o, s) ELSE o, s)

\* The value is forgotten by the program.
Drop(v) ==
    /\ ~crashed
    /\ v \in held
    /\ held' = held \ {v}
    /\ UNCHANGED <<objects, values, refs, failed, crashed>>

\* A collection frees the value: clearValue clears the pointer, takes the value
\* out of the table and calls the destructor of the object, which frees it.
Collect(v) ==
    LET a == values[v].ptr
    IN /\ ~crashed
       /\ v \notin held
       /\ values[v].state = "live"
       /\ refs' = UnregisterUserptrRef(refs, a, v)
       /\ values' = [values EXCEPT ![v] = [state |-> "deleted", ptr |-> Null]]
       /\ \/ /\ objects[a].kind = "conn"
             /\ objects' = DestroyConnection(objects, a)
          \/ /\ objects[a].kind = "stmt"
             /\ objects' = DestroyStatement(objects, a)
       /\ UNCHANGED <<held, failed, crashed>>

SqliteNext ==
    \/ \E a \in Addrs : NewConnection(a)
    \/ \E v \in 1..Len(values) :
          \/ \E a \in Addrs, hasStatement \in Texts : Query(v, a, hasStatement)
          \/ \E code \in {"row", "done", "error"} : Step(v, code)
          \/ StepUnowned(v)
          \/ Iter(v)
          \/ Drop(v)
          \/ Collect(v)

SqliteSpec == SqliteInit /\ [][SqliteNext]_sqliteVars

-----------------------------------------------------------------------------
(* Properties.                                                             *)

Live == {v \in 1..Len(values) : values[v].state = "live"}
Conns == {a \in Addrs : objects[a].kind = "conn"}
Stmts == {a \in Addrs : objects[a].kind = "stmt"}

SqliteObject == [kind : {"free", "conn", "stmt"}, owner : Addrs \union {Null}, stmt : BOOLEAN,
                 list : Seq(Addrs), code : {"ok", "row", "done", "error"}, val : Nat]

UserPointer == [state : {"live", "deleted"}, ptr : Addrs \union {Null}]

\* Objects are connections, statements or free memory; values are live or
\* deleted, and the program names live ones.
ObjectsTyped ==
    /\ objects \in [Addrs -> SqliteObject]
    /\ values \in Seq(UserPointer)
    /\ held \subseteq Live
    /\ \A v \in Live : values[v].ptr \in Addrs
    /\ failed \subseteq {"prepare", "step"}
    /\ crashed \in BOOLEAN

\* In whatever order connections and statements are destroyed, the list of a
\* connection holds exactly its statements, once each; a statement points to a
\* connection that exists or to none, and only an owned one keeps its handle:
\* sqlite3_close finds no open statement.
ListsAttached ==
    /\ \A c \in Conns :
          /\ ToSet(objects[c].list) = {s \in Stmts : objects[s].owner = c}
          /\ IsInjective(objects[c].list)
    /\ \A s \in Stmts :
          /\ objects[s].owner = Null \/ objects[s].owner \in Conns
          /\ objects[s].stmt => objects[s].owner # Null

\* userptr_refs holds exactly the live values, each in the chain of its address,
\* whenever the table grows and whatever was freed: it never leads to a freed
\* value.
TableExact ==
    /\ Entries(refs) = {[ptr |-> values[v].ptr, id |-> v] : v \in Live}
    /\ refs.count = Cardinality(Live)
    /\ \A i \in 1..Len(refs.heads) :
          \A k \in 1..Len(refs.heads[i]) : SlotOf(refs, refs.heads[i][k].ptr) = i

\* An object has exactly one live value, the one made for it: memory that is
\* handed out again is not taken for the object that was there before, and no
\* object is left without a value that frees it.
ValueOfItsObject ==
    /\ \A v \in Live : objects[values[v].ptr].kind # "free" /\ objects[values[v].ptr].val = v
    /\ \A a \in Conns \union Stmts : objects[a].val \in Live

\* OS_ASSERT(owner && stmt) at the head of SqliteStatement::step: a statement
\* that the program uses has its connection.
StepAssertion == "step" \notin failed

\* OS_ASSERT(stmt) in Sqlite::prepare: a text that the library accepts gives a
\* statement.
PrepareAssertion == "prepare" \notin failed

\* Every object has its value, every value its object, and every statement its
\* place in the list of its connection.
ObjectsOwned == ObjectsTyped /\ ListsAttached /\ TableExact /\ ValueOfItsObject
=============================================================================
