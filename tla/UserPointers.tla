---------------------------- MODULE UserPointers ----------------------------
(***************************************************************************)
(* userptr_refs (src/src/objectscript.cpp): the hash table by which the    *)
(* interpreter finds the value of a C++ object from the address of the     *)
(* object.  The table does not hold its values: an entry stays until       *)
(* clearValue takes it out, right before the object is destroyed.          *)
(*                                                                         *)
(* A table is a record: the chains, one sequence of values per slot, and   *)
(* the number of entries.  head_mask is Len(heads) - 1.  An entry is the   *)
(* pair of an address and a value_id.                                      *)
(***************************************************************************)
EXTENDS Integers, Sequences, SequencesExt

CONSTANT InitSlots  \* the size of the first array of chains, 32 in the code

ASSUME InitSlotsAssumption == InitSlots \in Nat \ {0, 1}

EmptyTable == [heads |-> <<>>, count |-> 0]

\* OS_PTR_HASH(ptr) & head_mask, as the number of a chain.
SlotIn(size, ptr) == (ptr % size) + 1
SlotOf(t, ptr) == SlotIn(Len(t.heads), ptr)

PushHead(t, e) == [t EXCEPT !.heads[SlotOf(t, e.ptr)] = <<e>> \o @, !.count = @ + 1]

\* What becomes of a chain when its entries are pushed, from the head on, on the
\* chains of a larger array: slot s gets its own, the last of them first.
Rehashed(chain, size, s) ==
    LET moved == {j \in DOMAIN chain : SlotIn(size, chain[j].ptr) = s}
        after(j) == Cardinality({k \in moved : k > j})
    IN  [p \in 1 .. Cardinality(moved) |->
            chain[CHOOSE j \in moved : after(j) = p - 1]]

\* The new array is filled from the old one; the chain of slot s comes from the one
\* old chain whose addresses can have it.
Grow(t) ==
    LET n == Len(t.heads)
    IN [t EXCEPT !.heads = IF n = 0 THEN [s \in 1 .. InitSlots |-> <<>>]
                           ELSE [s \in 1 .. 2 * n |-> Rehashed(t.heads[SlotIn(n, s - 1)], 2 * n, s)]]

\* registerUserptrRef: (count >> HASH_GROW_SHIFT) >= head_mask doubles the array.
\* (head_mask is 0 before the first entry.)
RegisterUserptrRef(t, e) ==
    LET mask == IF t.heads = <<>> THEN 0 ELSE Len(t.heads) - 1
    IN PushHead(IF t.count >= mask THEN Grow(t) ELSE t, e)

\* The first entry of a chain with the value_id, or with the address; 0 if none has it.
AtId(chain, id) == SelectInSeq(chain, LAMBDA e : e.id = id)
AtPtr(chain, ptr) == SelectInSeq(chain, LAMBDA e : e.ptr = ptr)

\* unregisterUserptrRef(ptr, value_id): nothing happens if the value is not there.
UnregisterUserptrRef(t, ptr, id) ==
    LET slot == SlotOf(t, ptr)
    IN IF t.count = 0 \/ AtId(t.heads[slot], id) = 0 THEN t
       ELSE [t EXCEPT !.heads[slot] = RemoveAt(@, AtId(@, id)), !.count = @ - 1]

\* The value_id that findUserPointerValue and pushUserPointerValue find for the
\* address, 0 if there is none.
FindUserPointerValue(t, ptr) ==
    LET chain == t.heads[SlotOf(t, ptr)]
    IN IF t.count = 0 \/ AtPtr(chain, ptr) = 0 THEN 0 ELSE chain[AtPtr(chain, ptr)].id

Entries(t) == UNION {ToSet(t.heads[i]) : i \in 1..Len(t.heads)}
=============================================================================
