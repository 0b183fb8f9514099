----------------------------- MODULE PropTable -----------------------------
(***************************************************************************)
(* Core::Table, the properties of a value: every Property is a cell that   *)
(* hangs in a chain of the hash table (hash_next) and in a doubly linked   *)
(* list (prev, next) that keeps the order of insertion.  Iterators are     *)
(* registered with the table, hold a raw pointer to the property they will *)
(* return next, and are moved by deleteTableProperty.  The table appears   *)
(* with the first property and goes away with Object.clear or its owner.   *)
(*                                                                         *)
(* Keys are told apart by OS_EQUAL_EXACTLY; the reference counts of keys   *)
(* and values are the subject of RefGC.                                    *)
(***************************************************************************)
EXTENDS Naturals, Sequences, FiniteSets, SequencesExt

CONSTANTS
    Keys,       \* indices; the numbers among them are NumKeys
    NumKeys,
    Hash,       \* getValueHash, a function on Keys
    Vals,
    Cells,      \* memory for Property objects
    Iters,      \* memory for IteratorState objects
    Nil,
    InitHeads   \* slots of a new table (4 in the code)

PropTableAssumption ==
    /\ NumKeys \subseteq Keys /\ NumKeys \subseteq Nat
    /\ Hash \in [Keys -> Nat]
    /\ IsFiniteSet(Cells)
    /\ Nil \notin Keys /\ Nil \notin Cells
    /\ InitHeads \in Nat \ {0}

VARIABLES
    table,      \* [heads, count, next_index, first, last], or NoTable
    prop,       \* prop[c]: [index, value, hash_next, prev, next]; freed cells are Free
    iterators,  \* the IteratorState objects registered with the table, in list order
    iter        \* iter[i]: [table, prop, ascending]

tableVars == <<table, prop, iterators, iter>>

NoTable == [heads |-> << >>, count |-> 0, next_index |-> 0, first |-> Nil, last |-> Nil]

Free == [index |-> Nil, value |-> Nil, hash_next |-> Nil, prev |-> Nil, next |-> Nil]

Detached == [table |-> FALSE, prop |-> Nil, ascending |-> TRUE]

TableInit ==
    /\ table = NoTable
    /\ prop = [c \in Cells |-> Free]
    /\ iterators = << >>
    /\ iter = [i \in Iters |-> Detached]

Allocated == {c \in Cells : prop[c] # Free}

-----------------------------------------------------------------------------
(* The chains of the hash table.                                           *)

HeadsOf(t) == DOMAIN t.heads

Slot(t, k) == Hash[k] % Cardinality(HeadsOf(t))

\* The cells met from c on, following one kind of pointer; a cycle would show
\* as a repeated cell
Follow(p, c, link) ==
    LET Steps == 1 .. Cardinality(Cells) + 1
        cell[n \in Steps] ==
            IF n = 1 THEN c
            ELSE LET b == cell[n - 1] IN IF b = Nil THEN Nil ELSE p[b][link]
    IN  [n \in 1 .. Cardinality({n \in Steps : cell[n] # Nil}) |-> cell[n]]

Chain(t, p, s) == Follow(p, t.heads[s], "hash_next")

\* Table::get, which looks into one chain only
get(k) ==
    IF table = NoTable THEN Nil
    ELSE LET chain == Chain(table, prop, Slot(table, k))
             found == {n \in DOMAIN chain : prop[chain[n]].index = k}
         IN  IF found = {} THEN Nil ELSE chain[CHOOSE n \in found : TRUE]

\* A pair [t, p]: the table and the cells, c pushed on its chain
pushHash(tp, c) ==
    LET s == Slot(tp.t, tp.p[c].index) IN
    [t |-> [tp.t EXCEPT !.heads[s] = c],
     p |-> [tp.p EXCEPT ![c].hash_next = tp.t.heads[s]]]

\* The new heads are filled from the list, first to last
growHeads(t, p) ==
    LET size == IF t.heads = << >> THEN InitHeads ELSE 2 * Cardinality(HeadsOf(t))
        cells == Follow(p, t.first, "next")
        filled[n \in 0 .. Len(cells)] ==
            IF n = 0 THEN [t |-> [t EXCEPT !.heads = [s \in 0 .. size - 1 |-> Nil]], p |-> p]
            ELSE pushHash(filled[n - 1], cells[n])
    IN  filled[Len(cells)]

Full(t) == t.heads = << >> \/ t.count >= Cardinality(HeadsOf(t)) - 1

\* Mutant: an off-by-one in the comparison
badNextIndex(t, k) == IF k \in NumKeys /\ t.next_index < k THEN k + 1 ELSE t.next_index

nextIndex(t, k) == IF k \in NumKeys /\ t.next_index <= k THEN k + 1 ELSE t.next_index

-----------------------------------------------------------------------------
addTableProperty(c, k, v) ==
    /\ c \in Cells \ Allocated
    /\ LET new == [index |-> k, value |-> v, hash_next |-> Nil, prev |-> Nil, next |-> Nil]
           p0 == [prop EXCEPT ![c] = new]
           grown == IF Full(table) THEN growHeads(table, p0) ELSE [t |-> table, p |-> p0]
           tp == pushHash(grown, c)
           p1 == IF tp.t.first = Nil THEN tp.p
                 ELSE [tp.p EXCEPT ![tp.t.last].next = c, ![c].prev = tp.t.last]
       IN  /\ prop' = p1
           /\ table' = [tp.t EXCEPT
                 !.first = IF @ = Nil THEN c ELSE @,
                 !.last = c,
                 !.next_index = nextIndex(table, k),
                 !.count = @ + 1]
    /\ UNCHANGED <<iterators, iter>>

setProperty(c, v) ==
    /\ prop' = [prop EXCEPT ![c].value = v]
    /\ UNCHANGED <<table, iterators, iter>>

\* setTableValue and the end of setPropertyValue
setTableValue(k, v) ==
    \/ get(k) # Nil /\ setProperty(get(k), v)
    \/ get(k) = Nil /\ \E c \in Cells : addTableProperty(c, k, v)

\* OS::addProperty and Object.push: the next free number
addProperty(v) ==
    /\ table.next_index \in NumKeys
    /\ setTableValue(table.next_index, v)

setFirst(v) == table.count > 0 /\ setProperty(table.first, v)

setLast(v) == table.count > 0 /\ setProperty(table.last, v)

(***************************************************************************)
(* deleteTableProperty: out of the list, out of the chain, the iterators   *)
(* that were to return the property go on to its neighbour, and the cell   *)
(* is freed.                                                               *)
(***************************************************************************)
\* Mutant: the iterators are forgotten
badForgetIterators(c) == c \in Cells /\ UNCHANGED iter

\* Mutant: the direction is forgotten
badMoveIterators(c) ==
    iter' = [i \in Iters |->
        IF i \in ToSet(iterators) /\ iter[i].prop = c
        THEN [iter[i] EXCEPT !.prop = prop[c].next] ELSE iter[i]]

moveIterators(c) ==
    iter' = [i \in Iters |->
        IF i \in ToSet(iterators) /\ iter[i].prop = c
        THEN [iter[i] EXCEPT
                !.prop = IF iter[i].ascending THEN prop[c].next ELSE prop[c].prev]
        ELSE iter[i]]

deleteCell(c) ==
    LET s == Slot(table, prop[c].index)
        chain == Chain(table, prop, s)
        k == CHOOSE n \in DOMAIN chain : chain[n] = c
        n == prop[c].next
        b == prop[c].prev
    IN  /\ table' = [table EXCEPT
              !.first = IF @ = c THEN n ELSE @,
              !.last = IF @ = c THEN b ELSE @,
              !.heads[s] = IF k = 1 THEN prop[c].hash_next ELSE @,
              !.count = @ - 1]
        /\ prop' = [x \in Cells |->
              IF x = c THEN Free
              ELSE [prop[x] EXCEPT
                      !.next = IF x = b THEN n ELSE @,
                      !.prev = IF x = n THEN b ELSE @,
                      !.hash_next = IF k > 1 /\ x = chain[k - 1]
                                    THEN prop[c].hash_next ELSE @]]
        /\ moveIterators(c)
        /\ UNCHANGED iterators

deleteTableProperty(k) == get(k) # Nil /\ deleteCell(get(k))

deleteFirst == table.count > 0 /\ deleteTableProperty(prop[table.first].index)

deleteLast == table.count > 0 /\ deleteTableProperty(prop[table.last].index)

\* Object.clear and clearValue: clearTable drops the iterators, too
deleteTable ==
    /\ table # NoTable
    /\ table' = NoTable
    /\ prop' = [c \in Cells |-> Free]
    /\ iterators' = << >>
    /\ iter' = [i \in Iters |-> IF i \in ToSet(iterators) THEN Detached ELSE iter[i]]

\* sortTable: the comparison decides the order, the list is linked anew
sortTable ==
    /\ table.count > 1
    /\ \E props \in SetToSeqs(Allocated) :
          LET n == Len(props)
              at(c) == CHOOSE j \in 1 .. n : props[j] = c
          IN  /\ prop' = [c \in Cells |->
                    IF c \notin Allocated THEN Free
                    ELSE [prop[c] EXCEPT
                            !.prev = IF at(c) = 1 THEN Nil ELSE props[at(c) - 1],
                            !.next = IF at(c) = n THEN Nil ELSE props[at(c) + 1]]]
              /\ table' = [table EXCEPT !.first = props[1], !.last = props[n]]
    /\ UNCHANGED <<iterators, iter>>

-----------------------------------------------------------------------------
(* Iterators.  The IteratorState is the data of a userdata value: it lives *)
(* until the collector calls iteratorStateDestructor.                      *)

iterator(i, ascending) ==
    /\ table.count > 0
    /\ ~iter[i].table
    /\ iter' = [iter EXCEPT ![i] = [table |-> TRUE, ascending |-> ascending,
                                    prop |-> IF ascending THEN table.first ELSE table.last]]
    /\ iterators' = <<i>> \o iterators
    /\ UNCHANGED <<table, prop>>

removeIterator(i) ==
    /\ iter[i].table
    /\ iter' = [iter EXCEPT ![i] = Detached]
    /\ \E n \in DOMAIN iterators : iterators[n] = i /\ iterators' = RemoveAt(iterators, n)
    /\ UNCHANGED <<table, prop>>

iteratorStep(i) ==
    \/ /\ iter[i].table /\ iter[i].prop # Nil
       /\ iter' = [iter EXCEPT ![i].prop =
             IF iter[i].ascending THEN prop[@].next ELSE prop[@].prev]
       /\ UNCHANGED <<table, prop, iterators>>
    \/ iter[i].prop = Nil /\ removeIterator(i)

iteratorStateDestructor(i) == removeIterator(i)

TableNext ==
    \/ \E k \in Keys, v \in Vals : setTableValue(k, v)
    \/ \E v \in Vals : addProperty(v) \/ setFirst(v) \/ setLast(v)
    \/ \E k \in Keys : deleteTableProperty(k)
    \/ deleteFirst
    \/ deleteLast
    \/ deleteTable
    \/ sortTable
    \/ \E i \in Iters : \/ iterator(i, TRUE)
                        \/ iterator(i, FALSE)
                        \/ iteratorStep(i)
                        \/ iteratorStateDestructor(i)

TableSpec == TableInit /\ [][TableNext]_tableVars

-----------------------------------------------------------------------------
(* Properties.                                                             *)

CellOrNil == Cells \cup {Nil}

(***************************************************************************)
(* Every pointer of the table, its properties and its iterators is a cell  *)
(* or NULL, every property has an index and a value.                       *)
(***************************************************************************)
TableTypeOK ==
    /\ DOMAIN table = {"heads", "count", "next_index", "first", "last"}
    /\ table.count \in Nat /\ table.next_index \in Nat
    /\ table.first \in CellOrNil /\ table.last \in CellOrNil
    /\ \A s \in HeadsOf(table) : table.heads[s] \in CellOrNil
    /\ \A c \in Allocated :
          /\ prop[c].index \in Keys /\ prop[c].value \in Vals
          /\ {prop[c].hash_next, prop[c].prev, prop[c].next} \subseteq CellOrNil
    /\ \A i \in Iters : iter[i].prop \in CellOrNil
    /\ ToSet(iterators) \subseteq Iters

List == Follow(prop, table.first, "next")

(***************************************************************************)
(* The list and the chains hold the same properties, each of them once:    *)
(* the list read backwards is its reverse, the chains are disjoint, count  *)
(* is their number and Table::get finds every property under its own key.  *)
(***************************************************************************)
ListAndChainsAgree ==
    /\ ToSet(List) = Allocated /\ IsInjective(List)
    /\ Follow(prop, table.last, "prev") = Reverse(List)
    /\ table.count = Cardinality(Allocated)
    /\ \A c \in Allocated : get(prop[c].index) = c
    /\ \A s \in HeadsOf(table) : \A c \in ToSet(Chain(table, prop, s)) :
          c \in Allocated /\ Slot(table, prop[c].index) = s

(***************************************************************************)
(* An iterator never keeps a pointer to a freed property or to a table     *)
(* that is gone, and the table knows every iterator that points into it.   *)
(***************************************************************************)
IteratorsAttached ==
    /\ IsInjective(iterators)
    /\ \A i \in Iters :
          /\ iter[i].table <=> i \in ToSet(iterators)
          /\ iter[i].table => table # NoTable
          /\ iter[i].prop # Nil => iter[i].table /\ iter[i].prop \in Allocated

(***************************************************************************)
(* The number that addProperty takes is free: it is above every number the *)
(* table has, whatever was deleted or sorted.                              *)
(***************************************************************************)
NextIndexIsFree ==
    \A c \in Allocated : prop[c].index \in NumKeys => prop[c].index < table.next_index

(***************************************************************************)
(* The hash table, the list and the next number describe one set of        *)
(* properties.                                                             *)
(***************************************************************************)
TableSound == TableTypeOK /\ ListAndChainsAgree /\ NextIndexIsFree

-----------------------------------------------------------------------------
(* Refinement: the list is the order, an open iterator has yet to return   *)
(* the properties from its pointer on.                                     *)

Entries ==
    LET cells == List IN
    [n \in DOMAIN cells |-> <<prop[cells[n]].index, prop[cells[n]].value>>]

Ahead(i) == Follow(prop, iter[i].prop, IF iter[i].ascending THEN "next" ELSE "prev")

ToDo ==
    [i \in Iters |->
        LET cells == Ahead(i) IN
        [open |-> iter[i].table,
         up |-> iter[i].ascending,
         keys |-> [n \in DOMAIN cells |-> prop[cells[n]].index]]]

Map == INSTANCE OrderedMap WITH entries <- Entries, todo <- ToDo

(***************************************************************************)
(* The table is an ordered map with robust iterators: a loop that sees no  *)
(* sort returns every property that is not deleted before its turn exactly *)
(* once, in order, whatever it deletes or inserts.  After a sort the loop  *)
(* goes on from its next property in the new order: a property before that *)
(* one is skipped, one that was returned and now lies behind comes again.  *)
(***************************************************************************)
RefinesOrderedMap == Map!Spec
=============================================================================
