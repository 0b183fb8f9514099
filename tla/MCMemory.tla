----------------------------- MODULE MCMemory -----------------------------
(***************************************************************************)
(* The allocator and the property tables in one state space: part says     *)
(* which of them moves, the variables of the other stay as they start.     *)
(***************************************************************************)
EXTENDS Heap, PropTable, TLC

VARIABLE part

heapVars == vars

\* Small blocks, in pages of which the second is needed; Heap itself, with the
\* constants of the configuration, has the medium and the large ones
Small == INSTANCE Heap WITH Sizes <- {3, 15}

\* Keys 0, 1 and 3 all share the one chain of a table of two slots; key 3
\* leaves the chain when the table grows to four
KeyHash == [k \in Keys |-> IF k = 3 THEN 2 ELSE 4 * k]

Symmetry == Permutations(Cells) \cup Permutations(Iters) \cup Permutations(Vals)

ASSUME HeapAssumption /\ Small!HeapAssumption /\ PropTableAssumption

-----------------------------------------------------------------------------
MCInit ==
    \/ part = "medium" /\ Init /\ TableInit
    \/ part = "small" /\ Small!Init /\ TableInit
    \/ part = "table" /\ TableInit /\ Init

MCNext ==
    /\ UNCHANGED part
    /\ \/ part = "medium" /\ Next /\ UNCHANGED tableVars
       \/ part = "small" /\ Small!Next /\ UNCHANGED tableVars
       \/ part = "table" /\ TableNext /\ UNCHANGED heapVars
       \/ \* the heap is destroyed
          destroyed /\ UNCHANGED <<tableVars, heapVars>>

MCSpec == MCInit /\ [][MCNext]_<<part, heapVars, tableVars>>
=============================================================================
