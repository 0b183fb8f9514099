------------------------------ MODULE ValueGC ------------------------------
(***************************************************************************)
(* RefGC with the candidate set kept the way the code keeps it: a hash     *)
(* table of singly linked chains (FreeCandidateValues) that grows while it *)
(* fills up, and a sweep that walks the chains with a `prev' pointer while *)
(* clearValue pushes new candidates onto the very same chains.  Every      *)
(* action is the action of RefGC with what it does to the table and to the *)
(* loop variables; that the set of RefGC is the content of the table is    *)
(* the invariant TableIsCandidates.                                        *)
(*                                                                         *)
(* value_id is the id itself and ids are handed out in increasing order.   *)
(* The ids in between belong to values that came and went unobserved: they *)
(* also are why a collection (every 256th creation) may start at any time, *)
(* and why used_bytes may ask for the mark phase or not.                   *)
(***************************************************************************)
EXTENDS RefGC, FiniteSetsExt, SequencesExt

CONSTANT
    InitHeads   \* slots of the first table (32 in the code)

ASSUME ValueGCAssumption == Ids \subseteq Nat /\ InitHeads \in Nat \ {0}

VARIABLES
    table,      \* gc_candidate_values: [heads: slot -> chain, count]
    loop        \* the sweep: [i, prev, candidate, head_mask], and whether the
                \* table grew under it (which no step reads)

tableVars == <<vars, table, loop>>

Slots(t) == DOMAIN t.heads

InTable(t) == UNION {ToSet(t.heads[i]) : i \in Slots(t)}

(***************************************************************************)
(* Growing doubles the slots.  Old slot i feeds the new slots i and        *)
(* i + size; a chain is rehashed from its head by pushing on the head of   *)
(* the new chain, so that a value ends up behind those that came after it. *)
(***************************************************************************)
rehashed(chain, size, s) ==
    LET moved == {j \in DOMAIN chain : chain[j] % size = s}
        after(j) == Cardinality({k \in moved : k > j})
    IN  [p \in 1 .. Cardinality(moved) |->
            chain[CHOOSE j \in moved : after(j) = p - 1]]

growHeads(t) ==
    LET size == Cardinality(Slots(t)) IN
    [t EXCEPT !.heads = [s \in 0 .. 2 * size - 1 |->
        rehashed(t.heads[s % size], 2 * size, s)]]

pushHead(t, v) ==
    LET slot == v % Cardinality(Slots(t)) IN
    [t EXCEPT !.heads[slot] = <<v>> \o @, !.count = @ + 1]

registerFreeCandidateValue(t, v) ==
    pushHead(IF t.count >= Cardinality(Slots(t)) - 1 THEN growHeads(t) ELSE t, v)

IndexIn(chain, v) == CHOOSE j \in DOMAIN chain : chain[j] = v

unregisterFreeCandidateValue(t, v) ==
    LET slot == v % Cardinality(Slots(t)) IN
    IF v \in ToSet(t.heads[slot])
    THEN [t EXCEPT !.heads[slot] = RemoveAt(@, IndexIn(@, v)), !.count = @ - 1]
    ELSE t

(***************************************************************************)
(* The sweep takes a candidate out of its chain: prev->next = next, or     *)
(* heads[i] = next when there is no prev, which also cuts off whatever was *)
(* pushed on the head since the walk began.                                *)
(***************************************************************************)
Next_(chain, v) ==
    LET k == IndexIn(chain, v)
    IN  IF k < Len(chain) THEN chain[k + 1] ELSE Nil

unlink(t, i, prev, v) ==
    LET chain == t.heads[i]
        k == IndexIn(chain, v)
    IN  [t EXCEPT !.heads[i] = IF prev = Nil THEN SubSeq(chain, k + 1, Len(chain))
                               ELSE RemoveAt(chain, k),
                  !.count = @ - 1]

NoLoop ==
    [i |-> 0, prev |-> Nil, candidate |-> Nil, head_mask |-> 0, grown |-> FALSE]

startSlot(t, i, mask, grown) ==
    [i |-> i, prev |-> Nil, head_mask |-> mask, grown |-> grown,
     candidate |-> IF i <= mask /\ t.heads[i] # << >> THEN Head(t.heads[i]) ELSE Nil]

HeadMask(t) == Cardinality(Slots(t)) - 1

TableInit ==
    /\ Init
    /\ table = [heads |-> [s \in 0 .. InitHeads - 1 |-> << >>], count |-> 0]
    /\ loop = NoLoop

-----------------------------------------------------------------------------
\* addFreeCandidateValue: a step registers the one candidate it adds
addFreeCandidateValue ==
    table' = IF candidates' \subseteq candidates THEN table
             ELSE registerFreeCandidateValue(table,
                      CHOOSE v \in candidates' : v \notin candidates)

TableProgram ==
    /\ Program
    /\ \A v \in unused \ unused' : v = Min(unused)
    /\ addFreeCandidateValue
    /\ UNCHANGED loop

tableGcStart ==
    /\ gcStart
    /\ loop' = startSlot(table, 0, HeadMask(table), FALSE)
    /\ UNCHANGED table

Visiting == phase = "candidates" /\ victim = Nil /\ loop.candidate # Nil

next_candidate == Next_(table.heads[loop.i], loop.candidate)

\* The candidate that left its chain becomes prev
badVisitUnlink ==
    /\ Visiting
    /\ table' = unlink(table, loop.i, loop.prev, loop.candidate)
    /\ loop' = [loop EXCEPT !.prev = loop.candidate, !.candidate = next_candidate]
    /\ \E lost \in {InTable(table) \ InTable(table')} :
          gcUnlink(loop.candidate, lost) \/ gcFree(loop.candidate, lost)

\* The two ways a candidate leaves its chain
visitUnlink ==
    /\ Visiting
    /\ table' = unlink(table, loop.i, loop.prev, loop.candidate)
    /\ loop' = [loop EXCEPT !.candidate = next_candidate]
    /\ \E lost \in {InTable(table) \ InTable(table')} :
          gcUnlink(loop.candidate, lost) \/ gcFree(loop.candidate, lost)

\* A candidate found on the stack, or registered during this collection
visitKeep ==
    /\ Visiting
    /\ ref_count[loop.candidate] = 0 /\ external_ref_count[loop.candidate] = 0
    /\ loop.candidate \in marked
    /\ loop' = [loop EXCEPT !.prev = loop.candidate, !.candidate = next_candidate]
    /\ UNCHANGED <<vars, table>>

\* A table that grew inside clearValue ends the walk over this slot
tableClearing ==
    /\ Clearing
    /\ addFreeCandidateValue
    /\ loop' = IF phase = "candidates" /\ victim' = Nil
                  /\ HeadMask(table) # loop.head_mask
               THEN startSlot(table, loop.i + 1, HeadMask(table), TRUE)
               ELSE loop

nextSlot ==
    /\ phase = "candidates" /\ victim = Nil
    /\ loop.candidate = Nil /\ loop.i <= loop.head_mask
    /\ loop' = startSlot(table, loop.i + 1, loop.head_mask, loop.grown)
    /\ UNCHANGED <<vars, table>>

\* for (i = 0; i < head_mask; i++)
badSweepDone == loop.i >= loop.head_mask

SweepDone == loop.i > loop.head_mask

tableGcEnd ==
    /\ SweepDone
    /\ gcEnd \/ gcMark
    /\ loop' = NoLoop
    /\ UNCHANGED table

tableFix ==
    /\ \/ \E v \in Ids : gcKeepExternal(v) \/ gcSweep(v)
       \/ gcSweepEnd
       \/ destroyEnd
       \/ Shutdown
    /\ UNCHANGED <<table, loop>>

tableDestroyValue(v) ==
    /\ destroyValue(v)
    /\ table' = unregisterFreeCandidateValue(table, v)
    /\ UNCHANGED loop

TableNext ==
    \/ TableProgram
    \/ tableGcStart
    \/ visitUnlink
    \/ visitKeep
    \/ tableClearing
    \/ nextSlot
    \/ tableGcEnd
    \/ tableFix
    \/ \E v \in Ids : tableDestroyValue(v)

TableSpec == TableInit /\ [][TableNext]_tableVars

-----------------------------------------------------------------------------
(***************************************************************************)
(* FreeCandidateValues::get, which looks into one slot only, finds exactly *)
(* the candidates: every chain is free of duplicates and holds ids of its  *)
(* own slot, through growth, unlinking and pushes in the middle of a walk. *)
(***************************************************************************)
TableIsCandidates ==
    /\ InTable(table) = candidates
    /\ \A i \in Slots(table) :
          /\ IsInjective(table.heads[i])
          /\ \A v \in ToSet(table.heads[i]) : v % Cardinality(Slots(table)) = i

(***************************************************************************)
(* The sweep never follows a pointer out of the chain it walks: candidate  *)
(* and prev stay in the chain of slot i, prev before candidate, whatever   *)
(* clearValue registers meanwhile.                                         *)
(***************************************************************************)
SweepStaysInChain ==
    phase = "candidates" /\ victim = Nil /\ loop.candidate # Nil =>
        LET chain == table.heads[loop.i] IN
        /\ loop.candidate \in ToSet(chain)
        /\ loop.prev # Nil =>
              \E j \in 1 .. Len(chain) - 1 :
                  chain[j] = loop.prev /\ chain[j + 1] = loop.candidate

(***************************************************************************)
(* The counter of the table never falls below the number of candidates, so *)
(* the assertions count > 0 of the unlinking code hold.                    *)
(***************************************************************************)
CountCoversTable == table.count >= Cardinality(InTable(table))

(***************************************************************************)
(* The table of candidates is sound at every step of a sweep.              *)
(***************************************************************************)
ChainsSound == TableIsCandidates /\ SweepStaysInChain /\ CountCoversTable

(***************************************************************************)
(* One sweep frees every candidate that nobody held and that was not on    *)
(* the stack when it began, unless the table grew under it: what is left   *)
(* are values of the stack and candidates registered during the sweep.     *)
(***************************************************************************)
SweepLeavesOnlyMarked ==
    phase = "candidates" /\ SweepDone /\ ~loop.grown => candidates \subseteq marked

(***************************************************************************)
(* Core::shutdown asserts gc_candidate_values.count == 0 once every value  *)
(* is destroyed.                                                           *)
(***************************************************************************)
ShutdownAssertion == phase = "off" => table.count = 0
=============================================================================
