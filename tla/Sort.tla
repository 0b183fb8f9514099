-------------------------------- MODULE Sort --------------------------------
(***************************************************************************)
(* The sorting of arrays and of tables.  OS::qsort orders an array of      *)
(* pointers with an explicit stack of ranges; every comparison may run     *)
(* script code, which may answer inconsistently or throw.  The sort does   *)
(* not look at the exception: it goes on to the end with the results the   *)
(* interpreter gives to a terminated program.                              *)
(*                                                                         *)
(* A step ends at every comparison.  The elements are 1..n, in the order   *)
(* of the array before the sort.                                           *)
(***************************************************************************)
EXTENDS Integers, Sequences, FiniteSets, SequencesExt

CONSTANTS
    MaxLen,         \* bound on the length of the array
    Ranks,          \* what a value is compared by
    Comparators,    \* "values", "user" or both
    Cutoff          \* OS_QSORT_CUTOFF

SortAssumption ==
    /\ MaxLen \in Nat \ {0} /\ Cutoff \in Nat \ {0} /\ Ranks \subseteq Int
    /\ Comparators \subseteq {"values", "user"}

VARIABLES
    arr,                \* the array base, of elements
    rank,               \* the value of each element; NoRank: no __cmp method
    comparator,         \* "values": compareArrayValues, "user": a script function
    phase,              \* where OS::qsort is
    lo, hi, l, h,       \* the range at hand and the two scans of its partition
    p, max,             \* the scan of qsortShortsort
    stk,                \* lostk and histk: ranges that wait
    terminated,         \* an exception is set
    raised              \* an exception was set at some time during the sort

scans == <<l, h, p, max>>
exception == <<terminated, raised>>
sortVars == <<arr, rank, comparator, phase, lo, hi, scans, stk, exception>>

NoRank == 0
Lengths == 2..MaxLen
Size == hi - lo + 1

Swap(s, a, b) == [s EXCEPT ![a] = s[b], ![b] = s[a]]

----------------------------------------------------------------------------
(* Comparisons *)

Sign(n) == IF n < 0 THEN -1 ELSE IF n > 0 THEN 1 ELSE 0

\* setExceptionValue with a string: the constructor of Exception is not called
\* in a terminated program, so that the new exception is null and clears the old
setException ==
    /\ raised' = TRUE
    /\ terminated' = ~terminated

\* compareArrayValues, comparePropValues: numbers, or objects without __cmp
compareValues(a, b, r) ==
    \/ /\ rank[a] # NoRank /\ rank[b] # NoRank
       /\ r = Sign(rank[a] - rank[b])
       /\ UNCHANGED exception
    \/ /\ rank[a] = NoRank \/ rank[b] = NoRank
       /\ r = 0
       /\ setException

\* compareUserArrayValues, compareUserPropValues: the function answers anything
\* or throws; callF does nothing once the program is terminated
compareUser(r) ==
    \/ /\ ~terminated
       /\ UNCHANGED exception
    \/ r = 0 /\ ~terminated /\ setException
    \/ r = 0 /\ terminated /\ UNCHANGED exception

comp(i, j, r) ==
    /\ r \in {-1, 0, 1}
    /\ \/ comparator = "values" /\ compareValues(arr[i], arr[j], r)
       \/ comparator = "user" /\ compareUser(r)

----------------------------------------------------------------------------
(* OS::qsort *)

\* sortArray and sortTable: the elements in the order of the array or the list
SortInit ==
    /\ comparator \in Comparators
    /\ \E n \in Lengths :
        /\ arr = [i \in 1..n |-> i]
        /\ rank \in [1..n -> IF comparator = "values" THEN Ranks ELSE {NoRank}]
        /\ hi = n
    /\ phase = "recurse" /\ lo = 1
    /\ l = 1 /\ h = 1 /\ p = 1 /\ max = 1
    /\ stk = << >>
    /\ terminated = FALSE /\ raised = FALSE

recurse ==
    /\ phase = "recurse"
    /\ \/ /\ Size <= Cutoff
          /\ phase' = "short" /\ max' = lo /\ p' = lo + 1
          /\ UNCHANGED <<arr, l, h>>
       \/ /\ Size > Cutoff
          /\ arr' = Swap(arr, lo + Size \div 2, lo)
          /\ l' = lo + 1 /\ h' = hi + 1
          /\ phase' = "up"
          /\ UNCHANGED <<p, max>>
    /\ UNCHANGED <<rank, comparator, lo, hi, stk, exception>>

\* do l += width while(l <= hi && comp(l, lo) <= 0)
scanUp ==
    /\ phase = "up"
    /\ \/ \E r \in {-1, 0, 1} :
            /\ l <= hi /\ comp(l, lo, r)
            /\ \/ r <= 0 /\ l' = l + 1 /\ UNCHANGED <<h, phase>>
               \/ r > 0 /\ h' = h - 1 /\ phase' = "down" /\ UNCHANGED l
       \/ /\ l > hi
          /\ h' = h - 1 /\ phase' = "down"
          /\ UNCHANGED <<l, exception>>
    /\ UNCHANGED <<arr, rank, comparator, lo, hi, p, max, stk>>

\* do h -= width while(h > lo && comp(h, lo) >= 0)
scanDown ==
    /\ phase = "down"
    /\ \/ \E r \in {-1, 0, 1} :
            /\ h > lo /\ comp(h, lo, r)
            /\ \/ r >= 0 /\ h' = h - 1 /\ UNCHANGED phase
               \/ r < 0 /\ phase' = "meet" /\ UNCHANGED h
       \/ /\ h <= lo
          /\ phase' = "meet"
          /\ UNCHANGED <<h, exception>>
    /\ UNCHANGED <<arr, rank, comparator, lo, hi, l, p, max, stk>>

exchange ==
    /\ phase = "meet" /\ h >= l
    /\ arr' = Swap(arr, l, h)
    /\ l' = l + 1
    /\ phase' = "up"
    /\ UNCHANGED <<rank, comparator, lo, hi, h, p, max, stk, exception>>

\* The pivot takes its place; the larger part waits, the other is next.
\* A part of one element is dropped.
LeftPart == <<lo, h - 1>>
RightPart == <<l, hi>>
LeftIsLarger == h - lo > hi - l

split ==
    /\ phase = "meet" /\ h < l
    /\ arr' = Swap(arr, lo, h)
    /\ LET larger == IF LeftIsLarger THEN LeftPart ELSE RightPart
           other == IF LeftIsLarger THEN RightPart ELSE LeftPart
       IN /\ stk' = IF larger[1] < larger[2] THEN Append(stk, larger) ELSE stk
          /\ \/ other[1] < other[2] /\ lo' = other[1] /\ hi' = other[2] /\ phase' = "recurse"
             \/ other[1] >= other[2] /\ phase' = "pop" /\ UNCHANGED <<lo, hi>>
    /\ UNCHANGED <<rank, comparator, scans, exception>>

\* Mutant: the smallest value is taken for the largest
badFindMax ==
    /\ phase = "short" /\ hi > lo /\ p <= hi
    /\ \E r \in {-1, 0, 1} : comp(p, max, r) /\ max' = IF r >= 0 THEN max ELSE p
    /\ p' = p + 1
    /\ UNCHANGED <<arr, rank, comparator, phase, lo, hi, l, h, stk>>

\* qsortShortsort: for(p) if(comp(p, max) > 0) max = p
findMax ==
    /\ phase = "short" /\ hi > lo /\ p <= hi
    /\ \E r \in {-1, 0, 1} :
        /\ comp(p, max, r)
        /\ max' = IF r > 0 THEN p ELSE max
    /\ p' = p + 1
    /\ UNCHANGED <<arr, rank, comparator, phase, lo, hi, l, h, stk>>

\* Mutant: the range does not shrink
badPlaceMaxStuck ==
    /\ phase = "short" /\ hi > lo /\ p > hi
    /\ arr' = Swap(arr, max, hi)
    /\ max' = lo /\ p' = lo + 1
    /\ UNCHANGED <<rank, comparator, phase, lo, hi, l, h, stk, exception>>

placeMax ==
    /\ phase = "short" /\ hi > lo /\ p > hi
    /\ arr' = Swap(arr, max, hi)
    /\ hi' = hi - 1
    /\ max' = lo /\ p' = lo + 1
    /\ UNCHANGED <<rank, comparator, phase, lo, l, h, stk, exception>>

pop ==
    /\ \/ phase = "pop"
       \/ phase = "short" /\ hi <= lo
    /\ \/ /\ stk # << >>
          /\ lo' = Last(stk)[1] /\ hi' = Last(stk)[2]
          /\ stk' = Front(stk)
          /\ phase' = "recurse"
       \/ /\ stk = << >>
          /\ phase' = "done"
          /\ UNCHANGED <<lo, hi, stk>>
    /\ UNCHANGED <<arr, rank, comparator, scans, exception>>

SortNext == recurse \/ scanUp \/ scanDown \/ exchange \/ split \/ findMax \/ placeMax \/ pop

\* The sort is a loop of one thread, and the scripts it calls return
SortSpec == SortInit /\ [][SortNext]_sortVars /\ WF_sortVars(SortNext)

----------------------------------------------------------------------------
(* Properties *)

\* Types of the variables.
SortTypeOK ==
    /\ \E n \in Lengths :
        /\ arr \in [1..n -> 1..n] /\ rank \in [1..n -> Ranks \cup {NoRank}]
        /\ {lo, hi, max} \subseteq 1..n /\ {l, h, p} \subseteq 1..(n + 1)
        /\ stk \in Seq((1..n) \X (1..n))
    /\ comparator \in Comparators
    /\ phase \in {"recurse", "up", "down", "meet", "short", "pop", "done"}
    /\ terminated \in BOOLEAN /\ raised \in BOOLEAN

Waiting == {stk[k] : k \in 1..Len(stk)}
Parts == IF phase \in {"pop", "done"} THEN Waiting ELSE Waiting \cup {<<lo, hi>>}
SamePart(i, j) == \E r \in Parts : {i, j} \subseteq r[1]..r[2]

\* Whatever the comparison function answers, and whether it throws or not, the
\* ranges that OS::qsort still has to sort lie inside the array and apart from
\* each other, and no element is lost or doubled.
PartsApart ==
    /\ \A r \in Parts : 1 <= r[1] /\ r[2] <= Len(arr)
    /\ \A r, s \in Parts : r # s => r[1]..r[2] \cap s[1]..s[2] = {}
    /\ Cardinality(Parts) >= Len(stk)
    /\ ToSet(arr) = 1..Len(arr)

\* With a comparison that is an order, two elements that are not in one of the
\* ranges still to be sorted are in their order: nothing that qsort has put
\* aside needs to move again, and at the end the array is sorted.
PartsInOrder ==
    comparator = "values" /\ NoRank \notin ToSet(rank) =>
        \A i, j \in 1..Len(arr) :
            i < j /\ ~SamePart(i, j) => rank[arr[i]] <= rank[arr[j]]

\* lostk and histk have 30 entries and no test for their end: because the larger
\* part waits, k waiting ranges need an array of at least 2^(k + 1) - 1 elements.
StackFits == 2 ^ (Len(stk) + 1) - 1 <= Len(arr)

\* An exception thrown during the sort is still set when the sort returns.
ExceptionKept == phase = "done" /\ raised => terminated

\* The sort ends, also with a comparison function that contradicts itself.
Terminates == <>(phase = "done")

\* The sort keeps its ranges apart and in order within its stack, whatever the
\* comparison does.
PartsSound == SortTypeOK /\ PartsApart /\ PartsInOrder /\ StackFits /\ ExceptionKept
=============================================================================
