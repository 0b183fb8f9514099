----------------------------- MODULE GCTrigger ------------------------------
(***************************************************************************)
(* When collections run (src/src/objectscript.cpp): every Period-th value  *)
(* that is created starts a cheap collection, which goes on to the full    *)
(* one if the memory in use has reached gc_next_when_used_bytes.  The full *)
(* collection then moves that threshold: it doubles it when even the rest  *)
(* is above, and halves it, down to gc_start_when_used_bytes, when the     *)
(* rest is far below.                                                      *)
(*                                                                         *)
(* Memory is counted in units.  The thresholds are ints of Width bits, and *)
(* doubling wraps, as the compilers in use do it.                          *)
(***************************************************************************)
EXTENDS Integers, FiniteSetsExt

CONSTANTS
    Width,     \* bits of an int, 32 in the code
    Period,    \* values created from one cheap collection to the next, 256
    MinStart,  \* the smallest threshold setGCStartWhenUsedBytes accepts, 128 KB
    InitStart, \* the threshold at the start, 2 MB
    MaxSet     \* bound: calls of setGCStartWhenUsedBytes

GCTriggerAssumption ==
    /\ Width \in Nat \ {0, 1, 2}
    /\ Period \in Nat \ {0}
    /\ MinStart \in 1..InitStart
    /\ InitStart < 2^(Width - 2)
    /\ MaxSet \in Nat

VARIABLES
    used,     \* allocator->getUsedBytes()
    start,    \* gc_start_when_used_bytes
    next,     \* gc_next_when_used_bytes
    created,  \* num_created_values, modulo Period
    sets,     \* calls of setGCStartWhenUsedBytes so far
    peak      \* the most memory a full collection has left in use

vars == <<used, start, next, created, sets, peak>>

Sizes == 0..(2^(Width - 1) - 1)
Quarter == 2^(Width - 2)
ToInt(n) == ((n + 2^(Width - 1)) % 2^Width) - 2^(Width - 1)

Init ==
    /\ used \in Sizes
    /\ start = InitStart
    /\ next = InitStart
    /\ created = 0
    /\ sets = 0
    /\ peak = 0

-----------------------------------------------------------------------------
\* while(used < next/2 && next/2 >= start) next /= 2.
Halve(u, s, n) ==
    LET halve[m \in 0..n] == IF u < m \div 2 /\ m \div 2 >= s THEN halve[m \div 2] ELSE m
    IN IF n > 0 THEN halve[n] ELSE n

\* badNextThreshold: not doubled when exactly the threshold is in use.
badNextThreshold(u, s, n) == IF u > n THEN ToInt(2 * n) ELSE Halve(u, s, n)

\* The threshold after a full collection that leaves u in use.
NextThreshold(u, s, n) == IF u >= n THEN ToInt(2 * n) ELSE Halve(u, s, n)

\* The full collection leaves `rest`.
FullCollection(rest) ==
    /\ used' = rest
    /\ next' = NextThreshold(rest, start, next)
    /\ peak' = Max({peak, rest})

\* A value is created and no collection is due.
Create ==
    /\ created < Period - 1
    /\ created' = created + 1
    /\ UNCHANGED <<used, start, next, sets, peak>>

\* gcFreeCandidateValues(false) on every Period-th value: the cheap collection
\* leaves `left`, and the full one follows at the threshold.
CreateAndCollect ==
    /\ created = Period - 1
    /\ created' = 0
    /\ \E left \in 0..used :
          \/ /\ left < next
             /\ used' = left
             /\ UNCHANGED <<next, peak>>
          \/ /\ left >= next
             /\ \E rest \in 0..left : FullCollection(rest)
    /\ UNCHANGED <<start, sets>>

\* gcFull: the program asks for a full collection.
GcFull ==
    /\ \E rest \in 0..used : FullCollection(rest)
    /\ UNCHANGED <<start, created, sets>>

\* setGCStartWhenUsedBytes
SetStart(bytes) ==
    /\ sets < MaxSet
    /\ sets' = sets + 1
    /\ start' = Max({bytes, MinStart})
    /\ next' = start'
    /\ UNCHANGED <<used, created, peak>>

\* The program allocates and frees memory of its own.
Use(u) ==
    /\ used' = u
    /\ u # used
    /\ UNCHANGED <<start, next, created, sets, peak>>

Next ==
    \/ Create
    \/ CreateAndCollect
    \/ GcFull
    \/ \E b \in Sizes : SetStart(b)
    \/ \E u \in Sizes : Use(u)

\* A program that runs creates values.
Spec == Init /\ [][Next]_vars /\ WF_vars(Create \/ CreateAndCollect)

-----------------------------------------------------------------------------
(* Properties.                                                             *)

\* The thresholds are ints; memory in use is not negative.
TypeOK ==
    /\ used \in Sizes
    /\ start \in Sizes \ {0}
    /\ next \in (-(2^(Width - 1)))..(2^(Width - 1) - 1)
    /\ created \in 0..(Period - 1)
    /\ sets \in 0..MaxSet
    /\ peak \in Sizes

\* The threshold stays between its start and twice what a collection has had to
\* leave in use, as long as that is below a quarter of the range of an int, one
\* gigabyte.  Above it the doubling wraps.
ThresholdBounded ==
    peak < Quarter => start <= next /\ next <= Max({2 * peak, start})

\* No endless row of full collections: a program whose memory settles, below the
\* gigabyte, ends up below the threshold.
ThresholdSettles ==
    \A u \in 0..(Quarter - 1) :
        <>[](used = u /\ peak < Quarter) => <>[](used < next)

\* The threshold follows the memory in use, and lets a program that has settled run.
TriggerSound == [](TypeOK /\ ThresholdBounded) /\ ThresholdSettles
=============================================================================
