----------------------------- MODULE MCCollect -----------------------------
(***************************************************************************)
(* The collector alone, on every heap of a family: the program has built   *)
(* some values, emptied its stack and calls gcFull again and again.  The   *)
(* first value has two fields and the others one; a field may lead to the  *)
(* first value (a cycle) or to a later one, and the globals may hold one   *)
(* value.  The values share the slots of the table, so that the table      *)
(* grows inside clearValue and candidates are pushed on the walked chain.  *)
(***************************************************************************)
EXTENDS ValueGC

CONSTANT First      \* the first value after Root

Targets(v) == {Nil, First} \cup {w \in Ids : w > v}

\* p[v] is the first field of v, second the second field of First
Pointers ==
    LET Pick(v) == IF v = Root THEN {Nil, First} ELSE Targets(v)
    IN  {p \in [Ids -> IdOrNil] : \A v \in Ids : p[v] \in Pick(v)}

EmptyTable == [heads |-> [s \in 0 .. InitHeads - 1 |-> << >>], count |-> 0]

HeapInit ==
    /\ values = Ids /\ destroy_list = {} /\ unused = {}
    /\ \E p \in Pointers, second \in Targets(First) :
          field = [x \in Ids \X Fields |->
                     IF x[2] = "p" THEN p[x[1]]
                     ELSE IF x[1] = First THEN second ELSE Nil]
    /\ str = [v \in Ids |-> Nil] /\ string_refs = {}
    /\ ref_count = [v \in Ids |-> Cardinality(Holders(v)) + CoreHolds(v)]
    /\ external_ref_count = [v \in Ids |-> 0]
    /\ handle = [h \in Handles |-> Nil] /\ owner = [h \in Handles |-> Host]
    /\ candidates = {v \in Ids : ref_count[v] = 0}
    /\ marked = {} /\ stack_values = << >>
    /\ phase = "idle" /\ victim = Nil
    /\ LET up == SetToSortSeq(candidates, <)
       IN \E order \in {up, Reverse(up)} :
             table = FoldLeft(registerFreeCandidateValue, EmptyTable, order)
    /\ loop = NoLoop

FullCollection ==
    \/ tableGcStart
    \/ visitUnlink
    \/ visitKeep
    \/ tableClearing
    \/ nextSlot
    \/ tableGcEnd /\ phase' = "fix"
    \/ \E v \in Ids : (gcSweep(v) \/ gcSweepEnd \/ destroyEnd) /\ UNCHANGED <<table, loop>>
    \/ \E v \in Ids : tableDestroyValue(v)

CollectSpec ==
    HeapInit /\ [][FullCollection]_tableVars /\ WF_tableVars(FullCollection)

(***************************************************************************)
(* A program that keeps calling gcFull gets rid of every value it cannot   *)
(* reach: chains of candidates are freed one level per collection, cycles  *)
(* and candidates that the table lost go with the mark-and-sweep.          *)
(***************************************************************************)
GarbageIsFreed == <>[](values = ReachableFrom({Root}))
=============================================================================
