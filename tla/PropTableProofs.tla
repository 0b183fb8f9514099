--------------------------- MODULE PropTableProofs ---------------------------
(***************************************************************************)
(* Proofs that TableSound and IteratorsAttached are invariants of          *)
(* PropTable, for any keys and hash function, any number of properties and *)
(* of iterators.                                                           *)
(*                                                                         *)
(* A linked list is proved about as a sequence: Path(P, c, link, q) says   *)
(* that the pointers link lead from c through the cells of q and end.      *)
(* The invariant (Fits) says that some sequence L of different cells is    *)
(* the list from first to last, its reverse the list from last to first    *)
(* (Listed), that the chains partition its cells by the slots of their     *)
(* keys (Chained), and that the iterators of the table stand on its cells  *)
(* (Attached).  Each operation then changes L: Append, RemoveAt, another   *)
(* order, nothing.                                                         *)
(***************************************************************************)
EXTENDS PropTable, FiniteSetTheorems, SequenceTheorems, WellFoundedInduction,
        NaturalsInduction, TLAPS

-----------------------------------------------------------------------------
(* Sequences without repetition.                                           *)

LEMMA LeastElement ==
  ASSUME NEW T \in SUBSET Nat, T # {}
  PROVE  \E x \in T : \A y \in T : x <= y
<1> DEFINE R == OpToRel(<, Nat)
<1>1. IsWellFoundedOn(R, Nat)
  BY NatLessThanWellFounded
<1>2. \A x, y \in Nat : <<y, x>> \in R <=> y < x
  BY DEF OpToRel
<1> HIDE DEF R
<1>3. PICK x \in T : \A y \in T : ~(<<y, x>> \in R)
  BY <1>1, WFMin
<1>4. \A y \in T : x \in Nat /\ y \in Nat /\ ~(y < x)
  BY <1>2, <1>3
<1> QED BY <1>4

Once(q, S) == q \in Seq(S) /\ \A m, n \in 1 .. Len(q) : q[m] = q[n] => m = n

\* The elements of q, and that x is not one of them
Of(q) == {q[n] : n \in 1 .. Len(q)}

LEMMA OfIsToSet ==
    ASSUME NEW S, NEW q \in Seq(S)
    PROVE  ToSet(q) = Of(q) /\ Of(q) \subseteq S /\ DOMAIN q = 1 .. Len(q) /\ Len(q) \in Nat
<1>1. DOMAIN q = 1 .. Len(q) /\ Len(q) \in Nat /\ \A n \in 1 .. Len(q) : q[n] \in S
    BY LenProperties, ElementOfSeq
<1> QED BY <1>1 DEF ToSet, Of

\* A sequence is given by what it has at its places
LEMMA SeqIs ==
    ASSUME NEW S, NEW n \in Nat, NEW f, f \in [1 .. n -> S]
    PROVE  f \in Seq(S) /\ Len(f) = n
BY SMT

LEMMA IntervalSize ==
    ASSUME NEW n \in Nat
    PROVE  IsFiniteSet(1 .. n) /\ Cardinality(1 .. n) = n
BY FS_Interval

LEMMA PushedIs ==
    ASSUME NEW S, NEW q, Once(q, S), NEW x \in S, x \notin Of(q)
    PROVE  LET r == <<x>> \o q IN
           /\ Once(r, S) /\ Len(r) = Len(q) + 1 /\ r[1] = x
           /\ \A n \in 1 .. Len(q) : r[n + 1] = q[n]
           /\ \A n \in 2 .. Len(q) + 1 : r[n] = q[n - 1]
           /\ Of(r) = Of(q) \cup {x}
<1> DEFINE r == <<x>> \o q
<1>1. q \in Seq(S) /\ Len(q) \in Nat
    BY LenProperties DEF Once
<1>2. <<x>> \in Seq(S) /\ Len(<<x>>) = 1 /\ <<x>>[1] = x
    OBVIOUS
<1>3. /\ r \in Seq(S) /\ Len(r) = Len(q) + 1
      /\ \A n \in 1 .. Len(q) + 1 : r[n] = IF n <= 1 THEN <<x>>[n] ELSE q[n - 1]
    BY <1>1, <1>2, ConcatProperties
<1> HIDE DEF r
<1>4. /\ r[1] = x
      /\ \A n \in 1 .. Len(q) : r[n + 1] = q[n]
      /\ \A n \in 2 .. Len(q) + 1 : r[n] = q[n - 1]
    BY <1>1, <1>2, <1>3
<1>5. \A y : y \in Of(r) <=> y \in Of(q) \cup {x}
    <2> TAKE y
    <2>1. ASSUME y \in Of(r) PROVE y \in Of(q) \cup {x}
        <3>1. PICK n \in 1 .. Len(q) + 1 : y = r[n]
            BY <2>1, <1>3 DEF Of
        <3>2. CASE n = 1
            BY <3>1, <3>2, <1>4
        <3>3. CASE n # 1
            <4>1. n - 1 \in 1 .. Len(q) /\ y = q[n - 1]
                BY <3>1, <3>3, <1>1, <1>4
            <4> QED BY <4>1 DEF Of
        <3> QED BY <3>2, <3>3
    <2>2. ASSUME y \in Of(q) PROVE y \in Of(r)
        <3>1. PICK n \in 1 .. Len(q) : y = q[n]
            BY <2>2 DEF Of
        <3>2. n + 1 \in 1 .. Len(r) /\ y = r[n + 1]
            BY <3>1, <1>1, <1>3, <1>4
        <3> QED BY <3>2 DEF Of
    <2>3. x \in Of(r)
        <3>1. 1 \in 1 .. Len(r)
            BY <1>1, <1>3
        <3> QED BY <3>1, <1>4 DEF Of
    <2> QED BY <2>1, <2>2, <2>3
<1>6. ASSUME NEW m \in 1 .. Len(r), NEW n \in 1 .. Len(r), r[m] = r[n] PROVE m = n
    <2>0. \A k \in 1 .. Len(q) : q[k] # x
        BY DEF Of
    <2>1. CASE m = 1 /\ n = 1
        BY <2>1
    <2>2. CASE m = 1 /\ n # 1
        <3>1. n - 1 \in 1 .. Len(q) /\ r[n] = q[n - 1]
            BY <2>2, <1>1, <1>3, <1>4
        <3> QED BY <3>1, <2>2, <1>6, <2>0, <1>4
    <2>3. CASE m # 1 /\ n = 1
        <3>1. m - 1 \in 1 .. Len(q) /\ r[m] = q[m - 1]
            BY <2>3, <1>1, <1>3, <1>4
        <3> QED BY <3>1, <2>3, <1>6, <2>0, <1>4
    <2>4. CASE m # 1 /\ n # 1
        <3>1. /\ m - 1 \in 1 .. Len(q) /\ r[m] = q[m - 1]
              /\ n - 1 \in 1 .. Len(q) /\ r[n] = q[n - 1]
            BY <2>4, <1>1, <1>3, <1>4
        <3>2. m - 1 = n - 1
            BY <3>1, <1>6 DEF Once
        <3> QED BY <3>2, <1>3
    <2> QED BY <2>1, <2>2, <2>3, <2>4
<1>7. Once(r, S)
    BY <1>3, <1>6 DEF Once
<1> QED BY <1>3, <1>4, <1>5, <1>7 DEF r

LEMMA AppendedIs ==
    ASSUME NEW S, NEW q, Once(q, S), NEW x \in S, x \notin Of(q)
    PROVE  LET r == Append(q, x) IN
           /\ Once(r, S) /\ Len(r) = Len(q) + 1 /\ r[Len(q) + 1] = x
           /\ \A n \in 1 .. Len(q) : r[n] = q[n]
           /\ Of(r) = Of(q) \cup {x}
<1> DEFINE r == Append(q, x)
<1>1. q \in Seq(S) /\ Len(q) \in Nat
    BY LenProperties DEF Once
<1>2. /\ r \in Seq(S) /\ Len(r) = Len(q) + 1 /\ r[Len(q) + 1] = x
      /\ \A n \in 1 .. Len(q) : r[n] = q[n]
    BY <1>1, AppendProperties
<1> HIDE DEF r
<1>3. 1 .. Len(r) = (1 .. Len(q)) \cup {Len(q) + 1}
    BY <1>1, <1>2
<1>4. Of(r) = Of(q) \cup {x}
    BY <1>2, <1>3 DEF Of
<1>5. \A k \in 1 .. Len(q) : q[k] # x
    BY DEF Of
<1>6. Once(r, S)
    BY <1>1, <1>2, <1>3, <1>5 DEF Once
<1> QED BY <1>2, <1>4, <1>6 DEF r

LEMMA RemovedIs ==
    ASSUME NEW S, NEW q, Once(q, S), NEW k \in 1 .. Len(q)
    PROVE  LET r == RemoveAt(q, k) IN
           /\ Once(r, S) /\ Len(r) = Len(q) - 1
           /\ \A n \in 1 .. k - 1 : r[n] = q[n]
           /\ \A n \in k .. Len(q) - 1 : r[n] = q[n + 1]
           /\ Of(r) = Of(q) \ {q[k]}
<1> DEFINE r == RemoveAt(q, k)
           a == SubSeq(q, 1, k - 1)
           b == SubSeq(q, k + 1, Len(q))
<1>1. q \in Seq(S) /\ Len(q) \in Nat /\ \A n \in 1 .. Len(q) : q[n] \in S
    BY LenProperties, ElementOfSeq DEF Once
<1>2. /\ a \in Seq(S) /\ Len(a) = k - 1
      /\ \A n \in 1 .. k - 1 : a[n] = q[n]
    <2>1. \A n \in 1 .. k - 1 : q[n] \in S
        BY <1>1
    <2>2. /\ a \in Seq(S) /\ Len(a) = IF 1 <= k - 1 THEN (k - 1) - 1 + 1 ELSE 0
          /\ \A n \in 1 .. (k - 1) - 1 + 1 : a[n] = q[1 + n - 1]
        BY <2>1, <1>1, SubSeqProperties
    <2> HIDE DEF a
    <2> QED BY <2>2, <1>1
<1>3. /\ b \in Seq(S) /\ Len(b) = Len(q) - k
      /\ \A n \in 1 .. Len(q) - k : b[n] = q[k + n]
    <2>1. \A n \in k + 1 .. Len(q) : q[n] \in S
        BY <1>1
    <2>2. /\ b \in Seq(S) /\ Len(b) = IF k + 1 <= Len(q) THEN Len(q) - (k + 1) + 1 ELSE 0
          /\ \A n \in 1 .. Len(q) - (k + 1) + 1 : b[n] = q[(k + 1) + n - 1]
        BY <2>1, <1>1, SubSeqProperties
    <2> HIDE DEF b
    <2> QED BY <2>2, <1>1
<1>4. r = a \o b
    BY DEF RemoveAt
<1> HIDE DEF r, a, b
<1>5. /\ r \in Seq(S) /\ Len(r) = Len(a) + Len(b)
      /\ \A n \in 1 .. Len(a) + Len(b) : r[n] = IF n <= Len(a) THEN a[n] ELSE b[n - Len(a)]
    BY <1>2, <1>3, <1>4, ConcatProperties
<1>6. /\ Len(r) = Len(q) - 1
      /\ \A n \in 1 .. k - 1 : r[n] = q[n]
      /\ \A n \in k .. Len(q) - 1 : r[n] = q[n + 1]
    <2>1. ASSUME NEW n \in k .. Len(q) - 1 PROVE r[n] = q[n + 1]
        <3>1. n \in 1 .. Len(a) + Len(b) /\ ~(n <= Len(a)) /\ n - Len(a) = n - k + 1
              /\ n - k + 1 \in 1 .. Len(q) - k /\ k + (n - k + 1) = n + 1
            BY <1>1, <1>2, <1>3
        <3> QED BY <3>1, <1>5, <1>3
    <2>2. Len(r) = Len(q) - 1
        BY <1>1, <1>2, <1>3, <1>5
    <2>3. ASSUME NEW n \in 1 .. k - 1 PROVE r[n] = q[n]
        <3>1. n \in 1 .. Len(a) + Len(b) /\ n <= Len(a)
            BY <1>1, <1>2, <1>3
        <3> QED BY <3>1, <1>5, <1>2
    <2> QED BY <2>1, <2>2, <2>3
<1> DEFINE old(n) == IF n < k THEN n ELSE n + 1
<1>7. \A n \in 1 .. Len(r) : old(n) \in 1 .. Len(q) /\ old(n) # k /\ r[n] = q[old(n)]
    BY <1>1, <1>6
<1>8. \A m, n \in 1 .. Len(r) : old(m) = old(n) => m = n
    BY <1>1, <1>6
<1>9. \A n \in 1 .. Len(q) : n # k => \E m \in 1 .. Len(r) : n = old(m)
    <2> TAKE n \in 1 .. Len(q)
    <2>1. CASE n < k
        <3>1. n \in 1 .. Len(r) /\ n = old(n)
            BY <2>1, <1>1, <1>6
        <3> QED BY <3>1
    <2>2. CASE n > k
        <3>1. n - 1 \in 1 .. Len(r) /\ n = old(n - 1)
            BY <2>2, <1>1, <1>6
        <3> QED BY <3>1
    <2> QED BY <2>1, <2>2, <1>1
<1> HIDE DEF old
<1>10. Once(r, S)
    <2>1. ASSUME NEW m \in 1 .. Len(r), NEW n \in 1 .. Len(r), r[m] = r[n] PROVE m = n
        <3>1. old(m) = old(n)
            BY <2>1, <1>7 DEF Once
        <3> QED BY <3>1, <1>8
    <2> QED BY <2>1, <1>2, <1>3, <1>5 DEF Once
<1>11. \A y : y \in Of(r) <=> y \in Of(q) \ {q[k]}
    <2> TAKE y
    <2>1. ASSUME y \in Of(r) PROVE y \in Of(q) \ {q[k]}
        <3>1. PICK n \in 1 .. Len(r) : y = r[n]
            BY <2>1 DEF Of
        <3>2. y = q[old(n)] /\ old(n) \in 1 .. Len(q) /\ old(n) # k
            BY <3>1, <1>7
        <3> QED BY <3>2 DEF Of, Once
    <2>2. ASSUME y \in Of(q) \ {q[k]} PROVE y \in Of(r)
        <3>1. PICK n \in 1 .. Len(q) : y = q[n] /\ n # k
            BY <2>2 DEF Of
        <3>2. PICK m \in 1 .. Len(r) : n = old(m)
            BY <3>1, <1>9
        <3> QED BY <3>1, <3>2, <1>7 DEF Of
    <2> QED BY <2>1, <2>2
<1> QED BY <1>6, <1>10, <1>11 DEF r

LEMMA ReversedIs ==
    ASSUME NEW S, NEW q, Once(q, S)
    PROVE  LET r == Reverse(q) IN
           /\ Once(r, S) /\ Len(r) = Len(q)
           /\ \A n \in 1 .. Len(q) : r[n] = q[Len(q) - n + 1] /\ q[n] = r[Len(q) - n + 1]
           /\ Of(r) = Of(q)
<1> DEFINE r == Reverse(q)
           back(n) == Len(q) - n + 1
<1>1. q \in Seq(S) /\ Len(q) \in Nat /\ \A n \in 1 .. Len(q) : q[n] \in S
    BY LenProperties, ElementOfSeq DEF Once
<1>2. \A n \in 1 .. Len(q) : back(n) \in 1 .. Len(q) /\ back(back(n)) = n
    BY <1>1
<1>3. r = [n \in 1 .. Len(q) |-> q[back(n)]]
    BY DEF Reverse
<1> HIDE DEF r, back
<1>4. r \in [1 .. Len(q) -> S] /\ \A n \in 1 .. Len(q) : r[n] = q[back(n)]
    BY <1>1, <1>2, <1>3
<1>5. r \in Seq(S) /\ Len(r) = Len(q)
    BY <1>1, <1>4, SeqIs
<1>6. \A n \in 1 .. Len(q) : r[n] = q[back(n)] /\ q[n] = r[back(n)]
    BY <1>2, <1>4
<1>7. Once(r, S)
    BY <1>2, <1>5, <1>6 DEF Once
<1>8. Of(r) = Of(q)
    BY <1>2, <1>5, <1>6 DEF Of
<1> QED BY <1>5, <1>6, <1>7, <1>8 DEF r, back

LEMMA ReverseAppended ==
    ASSUME NEW S, NEW q, Once(q, S), NEW x \in S, x \notin Of(q)
    PROVE  Reverse(Append(q, x)) = <<x>> \o Reverse(q)
<1> DEFINE a == Append(q, x)
           u == Reverse(a)
           r == Reverse(q)
           v == <<x>> \o r
<1>1. /\ Once(a, S) /\ Len(a) = Len(q) + 1 /\ a[Len(q) + 1] = x
      /\ \A n \in 1 .. Len(q) : a[n] = q[n]
    BY AppendedIs
<1>2. /\ Once(r, S) /\ Len(r) = Len(q) /\ Of(r) = Of(q)
      /\ \A n \in 1 .. Len(q) : r[n] = q[Len(q) - n + 1]
    BY ReversedIs
<1> HIDE DEF a, r
<1>3. /\ Once(u, S) /\ Len(u) = Len(a)
      /\ \A n \in 1 .. Len(a) : u[n] = a[Len(a) - n + 1]
    BY <1>1, ReversedIs
<1>4. /\ Once(v, S) /\ Len(v) = Len(r) + 1 /\ v[1] = x
      /\ \A n \in 2 .. Len(r) + 1 : v[n] = r[n - 1]
    BY <1>2, PushedIs
<1> HIDE DEF u, v
<1>5. Len(q) \in Nat /\ u \in Seq(S) /\ v \in Seq(S) /\ Len(u) = Len(v)
    BY <1>1, <1>2, <1>3, <1>4, LenProperties DEF Once
<1>6. ASSUME NEW n \in 1 .. Len(u) PROVE u[n] = v[n]
    <2>1. CASE n = 1
        <3>1. Len(a) - n + 1 = Len(q) + 1 /\ n \in 1 .. Len(a)
            BY <2>1, <1>1, <1>3, <1>5
        <3> QED BY <3>1, <2>1, <1>1, <1>3, <1>4
    <2>2. CASE n # 1
        <3>1. /\ n \in 1 .. Len(a) /\ n \in 2 .. Len(r) + 1 /\ n - 1 \in 1 .. Len(q)
              /\ Len(a) - n + 1 \in 1 .. Len(q) /\ Len(a) - n + 1 = Len(q) - (n - 1) + 1
            BY <2>2, <1>1, <1>2, <1>3, <1>5
        <3>2. u[n] = q[Len(q) - (n - 1) + 1]
            BY <3>1, <1>1, <1>3
        <3>3. v[n] = r[n - 1] /\ r[n - 1] = q[Len(q) - (n - 1) + 1]
            BY <3>1, <1>2, <1>4
        <3> QED BY <3>2, <3>3
    <2> QED BY <2>1, <2>2
<1>7. u = v
    BY <1>5, <1>6, SeqEqual
<1> QED BY <1>7 DEF u, v, a, r

LEMMA ReverseRemoved ==
    ASSUME NEW S, NEW q, Once(q, S), NEW k \in 1 .. Len(q)
    PROVE  Reverse(RemoveAt(q, k)) = RemoveAt(Reverse(q), Len(q) - k + 1)
<1> DEFINE a == RemoveAt(q, k)
           u == Reverse(a)
           r == Reverse(q)
           i == Len(q) - k + 1
           v == RemoveAt(r, i)
<1>0. Len(q) \in Nat
    BY LenProperties DEF Once
<1>1. /\ Once(a, S) /\ Len(a) = Len(q) - 1
      /\ \A n \in 1 .. k - 1 : a[n] = q[n]
      /\ \A n \in k .. Len(q) - 1 : a[n] = q[n + 1]
    BY RemovedIs
<1>2. /\ Once(r, S) /\ Len(r) = Len(q)
      /\ \A n \in 1 .. Len(q) : r[n] = q[Len(q) - n + 1]
    BY ReversedIs
<1>20. i \in 1 .. Len(r)
    BY <1>0, <1>2
<1> HIDE DEF a, r
<1>3. /\ Once(u, S) /\ Len(u) = Len(a)
      /\ \A n \in 1 .. Len(a) : u[n] = a[Len(a) - n + 1]
    BY <1>1, ReversedIs
<1> HIDE DEF i
<1>4. /\ Once(v, S) /\ Len(v) = Len(r) - 1
      /\ \A n \in 1 .. i - 1 : v[n] = r[n]
      /\ \A n \in i .. Len(r) - 1 : v[n] = r[n + 1]
    BY <1>2, <1>20, RemovedIs
<1> HIDE DEF u, v
<1> USE DEF i
<1>5. u \in Seq(S) /\ v \in Seq(S) /\ Len(u) = Len(v)
    BY <1>1, <1>2, <1>3, <1>4, LenProperties DEF Once
<1>6. ASSUME NEW n \in 1 .. Len(u) PROVE u[n] = v[n]
    <2>0. n \in 1 .. Len(a) /\ n \in Nat /\ k \in Nat
        BY <1>3, <1>0
    <2>1. CASE n < i
        <3>1. /\ Len(a) - n + 1 \in k .. Len(q) - 1
              /\ (Len(a) - n + 1) + 1 = Len(q) - n + 1
              /\ n \in 1 .. i - 1 /\ n \in 1 .. Len(q)
            BY <2>0, <2>1, <1>0, <1>1
        <3>2. u[n] = q[Len(q) - n + 1]
            BY <3>1, <2>0, <1>1, <1>3
        <3>3. v[n] = q[Len(q) - n + 1]
            BY <3>1, <1>2, <1>4
        <3> QED BY <3>2, <3>3
    <2>2. CASE n >= i
        <3>1. /\ Len(a) - n + 1 \in 1 .. k - 1
              /\ Len(a) - n + 1 = Len(q) - (n + 1) + 1
              /\ n \in i .. Len(r) - 1 /\ n + 1 \in 1 .. Len(q)
            BY <2>0, <2>2, <1>0, <1>1, <1>2
        <3>2. u[n] = q[Len(q) - (n + 1) + 1]
            BY <3>1, <2>0, <1>1, <1>3
        <3>3. v[n] = q[Len(q) - (n + 1) + 1]
            BY <3>1, <1>2, <1>4
        <3> QED BY <3>2, <3>3
    <2> QED BY <2>0, <2>1, <2>2, <1>0
<1>7. u = v
    BY <1>5, <1>6, SeqEqual
<1> QED BY <1>7 DEF u, v, a, r

-----------------------------------------------------------------------------
(* Paths along one kind of pointer.                                        *)

\* From c on, link leads through the cells of q and ends
Path(P, c, link, q) ==
    /\ c = IF Len(q) = 0 THEN Nil ELSE q[1]
    /\ \A n \in 1 .. Len(q) : P[q[n]][link] = IF n = Len(q) THEN Nil ELSE q[n + 1]

\* A list without repetition is no longer than there are cells
LEMMA OnceIsShort ==
    ASSUME NEW S, IsFiniteSet(S), NEW q, Once(q, S)
    PROVE  /\ Len(q) \in Nat /\ Cardinality(S) \in Nat /\ Len(q) <= Cardinality(S)
           /\ IsFiniteSet(Of(q)) /\ Cardinality(Of(q)) = Len(q)
<1>1. q \in Seq(S) /\ Len(q) \in Nat /\ \A n \in 1 .. Len(q) : q[n] \in S
    BY LenProperties, ElementOfSeq DEF Once
<1> DEFINE D == 1 .. Len(q)
           f == [n \in D |-> q[n]]
<1>2. f \in Bijection(D, Of(q))
    BY DEF Once, Of, Bijection, Injection, Surjection, IsInjective
<1>3. IsFiniteSet(D) /\ Cardinality(D) = Len(q)
    BY <1>1, IntervalSize
<1>4. IsFiniteSet(Of(q)) /\ Cardinality(Of(q)) = Len(q)
    BY <1>2, <1>3, FS_Bijection DEF ExistsBijection
<1>5. Of(q) \subseteq S
    BY <1>1 DEF Of
<1> QED BY <1>1, <1>4, <1>5, FS_Subset, FS_CardinalityType

\* Follow walks a path to its end.
LEMMA FollowPath ==
    ASSUME PropTableAssumption, NEW P, NEW c, NEW link, NEW q, Once(q, Cells), Path(P, c, link, q)
    PROVE  Follow(P, c, link) = q
<1> DEFINE N == Cardinality(Cells) + 1
           Steps == 1 .. N
           Def(f) == [n \in Steps |-> IF n = 1 THEN c
                                      ELSE LET b == f[n - 1] IN IF b = Nil THEN Nil ELSE P[b][link]]
           cell == CHOOSE f : f = Def(f)
           g == [n \in Steps |-> IF n <= Len(q) THEN q[n] ELSE Nil]
<1>1. /\ Len(q) \in Nat /\ N \in Nat /\ Len(q) < N /\ Nil \notin Cells
      /\ \A n \in 1 .. Len(q) : q[n] \in Cells
    BY OnceIsShort, ElementOfSeq DEF PropTableAssumption, Once
<1>2. Follow(P, c, link) = [n \in 1 .. Cardinality({n \in Steps : cell[n] # Nil}) |-> cell[n]]
    BY DEF Follow
<1>3. \A n \in Steps : g[n] = IF n = 1 THEN c ELSE IF g[n - 1] = Nil THEN Nil ELSE P[g[n - 1]][link]
    <2> TAKE n \in Steps
    <2>1. CASE n = 1
        BY <2>1, <1>1 DEF Path
    <2>2. CASE n # 1 /\ n <= Len(q) + 1
        <3>1. n - 1 \in 1 .. Len(q) /\ n - 1 \in Steps
            BY <2>2, <1>1
        <3>2. g[n - 1] = q[n - 1] /\ g[n - 1] # Nil
            BY <3>1, <1>1
        <3>3. P[q[n - 1]][link] = IF n - 1 = Len(q) THEN Nil ELSE q[(n - 1) + 1]
            BY <3>1 DEF Path
        <3>4. g[n] = IF n - 1 = Len(q) THEN Nil ELSE q[(n - 1) + 1]
            BY <2>2, <1>1
        <3> QED BY <2>2, <3>2, <3>3, <3>4
    <2>3. CASE n > Len(q) + 1
        <3>1. n - 1 \in Steps /\ ~(n - 1 <= Len(q)) /\ n # 1 /\ ~(n <= Len(q))
            BY <2>3, <1>1
        <3> QED BY <3>1
    <2> QED BY <2>1, <2>2, <2>3, <1>1
<1>4. g = Def(g)
    BY <1>3
<1>5. cell = Def(cell)
    <2> HIDE DEF g, Def
    <2> QED BY <1>4
<1>6. \A n \in Steps : cell[n] = IF n = 1 THEN c ELSE IF cell[n - 1] = Nil THEN Nil ELSE P[cell[n - 1]][link]
    <2> HIDE DEF cell
    <2> QED BY <1>5
<1>7. DOMAIN cell = Steps
    <2> HIDE DEF cell
    <2> QED BY <1>5
<1>8. DOMAIN g = Steps
    OBVIOUS
<1>20. \A n \in Steps : g[n] = IF n <= Len(q) THEN q[n] ELSE Nil
    OBVIOUS
<1> HIDE DEF cell, g, Def
<1>9. \A n \in Steps : cell[n] = g[n]
    <2> DEFINE bad == {n \in Nat : n \in Steps /\ cell[n] # g[n]}
    <2> SUFFICES ASSUME bad # {} PROVE FALSE
        BY <1>1
    <2>1. PICK m \in bad : \A k \in bad : m <= k
        BY LeastElement
    <2>2. m # 1
        BY <1>3, <1>6
    <2>3. m - 1 \in Steps /\ m - 1 \in Nat /\ m - 1 \notin bad
        BY <2>1, <2>2, <1>1
    <2>4. cell[m - 1] = g[m - 1]
        BY <2>3
    <2>5. cell[m] = g[m]
        BY <2>2, <2>4, <1>3, <1>6
    <2> QED BY <2>5
<1>10. {n \in Steps : cell[n] # Nil} = 1 .. Len(q)
    <2>1. ASSUME NEW n \in 1 .. Len(q) PROVE n \in Steps /\ cell[n] # Nil
        <3>1. n \in Steps /\ n <= Len(q)
            BY <1>1
        <3> QED BY <3>1, <1>9, <1>20, <1>1
    <2>2. ASSUME NEW n \in Steps, cell[n] # Nil PROVE n \in 1 .. Len(q)
        <3>1. n <= Len(q)
            BY <2>2, <1>9, <1>20
        <3> QED BY <3>1, <1>1
    <2> QED BY <2>1, <2>2
<1>11. Cardinality({n \in Steps : cell[n] # Nil}) = Len(q)
    BY <1>1, <1>10, IntervalSize
<1>12. \A n \in 1 .. Len(q) : cell[n] = q[n]
    BY <1>1, <1>9, <1>20
<1>13. Follow(P, c, link) = [n \in 1 .. Len(q) |-> q[n]]
    BY <1>2, <1>11, <1>12
<1>14. q = [n \in 1 .. Len(q) |-> q[n]]
    BY LenProperties DEF Once
<1> QED BY <1>13, <1>14

\* A path stays when the pointers of its cells do.
LEMMA PathStays ==
    ASSUME NEW P, NEW Q, NEW c, NEW link, NEW q, Path(P, c, link, q),
           \A n \in 1 .. Len(q) : Q[q[n]][link] = P[q[n]][link]
    PROVE  Path(Q, c, link, q)
BY DEF Path

LEMMA PathPush ==
    ASSUME NEW P, NEW Q, NEW c, NEW link, NEW q, Once(q, Cells), Path(P, c, link, q),
           NEW x \in Cells, x \notin Of(q), Q[x][link] = c,
           \A n \in 1 .. Len(q) : Q[q[n]][link] = P[q[n]][link]
    PROVE  Path(Q, x, link, <<x>> \o q)
<1> DEFINE r == <<x>> \o q
<1>1. /\ Len(q) \in Nat /\ Len(r) = Len(q) + 1 /\ r[1] = x
      /\ \A n \in 1 .. Len(q) : r[n + 1] = q[n]
      /\ \A n \in 2 .. Len(q) + 1 : r[n] = q[n - 1]
    BY PushedIs, LenProperties DEF Once
<1> HIDE DEF r
<1>2. ASSUME NEW n \in 1 .. Len(r)
      PROVE  Q[r[n]][link] = IF n = Len(r) THEN Nil ELSE r[n + 1]
    <2>1. CASE n = 1
        <3>1. Q[r[n]][link] = c
            BY <2>1, <1>1
        <3>2. CASE Len(q) = 0
            BY <2>1, <3>1, <3>2, <1>1 DEF Path
        <3>3. CASE Len(q) # 0
            <4>1. r[n + 1] = q[1] /\ n # Len(r)
                BY <2>1, <3>3, <1>1
            <4> QED BY <4>1, <3>1, <3>3 DEF Path
        <3> QED BY <3>2, <3>3
    <2>2. CASE n # 1
        <3>1. n - 1 \in 1 .. Len(q) /\ r[n] = q[n - 1]
            BY <2>2, <1>1
        <3>2. Q[r[n]][link] = IF n - 1 = Len(q) THEN Nil ELSE q[(n - 1) + 1]
            BY <3>1 DEF Path
        <3>3. CASE n = Len(r)
            BY <3>3, <3>2, <1>1
        <3>4. CASE n # Len(r)
            <4>1. n \in 1 .. Len(q) /\ (n - 1) + 1 = n /\ n - 1 # Len(q)
                BY <3>4, <2>2, <1>1
            <4> QED BY <4>1, <3>2, <3>4, <1>1
        <3> QED BY <3>3, <3>4
    <2> QED BY <2>1, <2>2
<1> QED BY <1>1, <1>2 DEF Path, r

LEMMA PathAppend ==
    ASSUME NEW P, NEW Q, NEW c, NEW link, NEW q, Once(q, Cells), Path(P, c, link, q),
           NEW x \in Cells, x \notin Of(q), Q[x][link] = Nil,
           \A n \in 1 .. Len(q) : Q[q[n]][link] = IF n = Len(q) THEN x ELSE P[q[n]][link]
    PROVE  Path(Q, IF Len(q) = 0 THEN x ELSE c, link, Append(q, x))
<1> DEFINE r == Append(q, x)
<1>1. /\ Len(q) \in Nat /\ Len(r) = Len(q) + 1 /\ r[Len(q) + 1] = x
      /\ \A n \in 1 .. Len(q) : r[n] = q[n]
    BY AppendedIs, LenProperties DEF Once
<1> HIDE DEF r
<1>2. ASSUME NEW n \in 1 .. Len(r)
      PROVE  Q[r[n]][link] = IF n = Len(r) THEN Nil ELSE r[n + 1]
    <2>1. CASE n = Len(r)
        BY <2>1, <1>1
    <2>2. CASE n # Len(r)
        <3>1. n \in 1 .. Len(q) /\ r[n] = q[n]
            BY <2>2, <1>1
        <3>2. CASE n = Len(q)
            BY <3>1, <3>2, <2>2, <1>1
        <3>3. CASE n # Len(q)
            <4>1. n + 1 \in 1 .. Len(q) /\ r[n + 1] = q[n + 1]
                BY <3>1, <3>3, <1>1
            <4> QED BY <4>1, <3>1, <3>3, <2>2 DEF Path
        <3> QED BY <3>2, <3>3
    <2> QED BY <2>1, <2>2
<1>3. (IF Len(q) = 0 THEN x ELSE c) = IF Len(r) = 0 THEN Nil ELSE r[1]
    <2>1. CASE Len(q) = 0
        BY <2>1, <1>1
    <2>2. CASE Len(q) # 0
        BY <2>2, <1>1 DEF Path
    <2> QED BY <2>1, <2>2
<1> QED BY <1>2, <1>3 DEF Path, r

LEMMA PathRemove ==
    ASSUME NEW P, NEW Q, NEW c, NEW link, NEW q, Once(q, Cells), Path(P, c, link, q),
           NEW k \in 1 .. Len(q),
           \A n \in 1 .. Len(q) : n # k =>
               Q[q[n]][link] = IF n = k - 1 THEN P[q[k]][link] ELSE P[q[n]][link]
    PROVE  Path(Q, IF k = 1 THEN P[q[k]][link] ELSE c, link, RemoveAt(q, k))
<1> DEFINE r == RemoveAt(q, k)
<1>1. /\ Len(q) \in Nat /\ Len(r) = Len(q) - 1
      /\ \A n \in 1 .. k - 1 : r[n] = q[n]
      /\ \A n \in k .. Len(q) - 1 : r[n] = q[n + 1]
    BY RemovedIs, LenProperties DEF Once
<1> HIDE DEF r
<1>2. ASSUME NEW n \in 1 .. Len(r)
      PROVE  Q[r[n]][link] = IF n = Len(r) THEN Nil ELSE r[n + 1]
    <2>1. CASE n < k - 1
        <3>1. n \in 1 .. Len(q) /\ n # k /\ r[n] = q[n] /\ n # k - 1 /\ r[n + 1] = q[n + 1]
              /\ n # Len(q) /\ n # Len(r)
            BY <2>1, <1>1
        <3> QED BY <3>1 DEF Path
    <2>2. CASE n = k - 1
        <3>1. n \in 1 .. Len(q) /\ n # k /\ r[n] = q[n]
            BY <2>2, <1>1
        <3>2. Q[r[n]][link] = IF k = Len(q) THEN Nil ELSE q[k + 1]
            BY <3>1, <2>2 DEF Path
        <3>3. CASE k = Len(q)
            BY <3>2, <3>3, <2>2, <1>1
        <3>4. CASE k # Len(q)
            <4>1. r[n + 1] = q[k + 1] /\ n # Len(r)
                BY <3>4, <2>2, <1>1
            <4> QED BY <4>1, <3>2, <3>4
        <3> QED BY <3>3, <3>4
    <2>3. CASE n >= k
        <3>1. n + 1 \in 1 .. Len(q) /\ n + 1 # k /\ r[n] = q[n + 1] /\ n + 1 # k - 1
            BY <2>3, <1>1
        <3>2. Q[r[n]][link] = IF n + 1 = Len(q) THEN Nil ELSE q[(n + 1) + 1]
            BY <3>1 DEF Path
        <3>3. CASE n = Len(r)
            BY <3>2, <3>3, <1>1
        <3>4. CASE n # Len(r)
            <4>1. r[n + 1] = q[(n + 1) + 1] /\ n + 1 # Len(q)
                BY <3>4, <2>3, <1>1
            <4> QED BY <4>1, <3>2, <3>4
        <3> QED BY <3>3, <3>4
    <2> QED BY <2>1, <2>2, <2>3, <1>1
<1>3. (IF k = 1 THEN P[q[k]][link] ELSE c) = IF Len(r) = 0 THEN Nil ELSE r[1]
    <2>1. CASE k = 1
        <3>1. P[q[k]][link] = IF 1 = Len(q) THEN Nil ELSE q[1 + 1]
            BY <2>1 DEF Path
        <3>2. CASE Len(q) = 1
            BY <2>1, <3>1, <3>2, <1>1
        <3>3. CASE Len(q) # 1
            <4>1. r[1] = q[1 + 1] /\ Len(r) # 0
                BY <2>1, <3>3, <1>1
            <4> QED BY <4>1, <2>1, <3>1, <3>3
        <3> QED BY <3>2, <3>3
    <2>2. CASE k # 1
        <3>1. r[1] = q[1] /\ Len(r) # 0 /\ Len(q) # 0
            BY <2>2, <1>1
        <3> QED BY <3>1, <2>2 DEF Path
    <2> QED BY <2>1, <2>2
<1> QED BY <1>2, <1>3 DEF Path, r

-----------------------------------------------------------------------------
(* Tables and cells.                                                       *)

CellType == [index : Keys \cup {Nil}, value : Vals \cup {Nil},
             hash_next : CellOrNil, prev : CellOrNil, next : CellOrNil]

CellsType == [Cells -> CellType]

\* A table with n slots
TableType(n) ==
    [heads : [0 .. n - 1 -> CellOrNil], count : Nat, next_index : Nat,
     first : CellOrNil, last : CellOrNil]

SameTable(T, U) ==
    /\ U.count = T.count /\ U.next_index = T.next_index
    /\ U.first = T.first /\ U.last = T.last

SameCells(P, Q) ==
    \A c \in Cells : /\ Q[c].index = P[c].index /\ Q[c].value = P[c].value
                     /\ Q[c].prev = P[c].prev /\ Q[c].next = P[c].next

\* The cells of S hang in the chains of their slots
Chained(P, T, S) ==
    \E ch \in [DOMAIN T.heads -> Seq(Cells)] : \A s \in DOMAIN T.heads :
        /\ Once(ch[s], Cells)
        /\ Path(P, T.heads[s], "hash_next", ch[s])
        /\ Of(ch[s]) = {c \in S : Slot(T, P[c].index) = s}

LEMMA HeadsAre ==
    ASSUME NEW n \in Nat, NEW T \in TableType(n)
    PROVE  /\ DOMAIN T.heads = 0 .. n - 1 /\ Cardinality(DOMAIN T.heads) = n
           /\ \A s \in 0 .. n - 1 : T.heads[s] \in CellOrNil
<1>1. DOMAIN T.heads = 0 .. n - 1 /\ \A s \in 0 .. n - 1 : T.heads[s] \in CellOrNil
    BY DEF TableType
<1>2. Cardinality(0 .. n - 1) = n
    BY FS_Interval
<1> QED BY <1>1, <1>2

LEMMA SlotIs ==
    ASSUME PropTableAssumption, NEW n \in Nat \ {0}, NEW T \in TableType(n), NEW k \in Keys
    PROVE  Slot(T, k) = Hash[k] % n /\ Slot(T, k) \in 0 .. n - 1
<1>1. Hash[k] \in Nat
    BY DEF PropTableAssumption
<1>2. Slot(T, k) = Hash[k] % n
    BY HeadsAre DEF Slot, HeadsOf
<1>3. Hash[k] % n \in 0 .. n - 1
    BY <1>1
<1> QED BY <1>2, <1>3

LEMMA PushHashTable ==
    ASSUME NEW n \in Nat, NEW T \in TableType(n), NEW s \in 0 .. n - 1, NEW x \in Cells,
           NEW U, U = [T EXCEPT !.heads[s] = x]
    PROVE  U \in TableType(n) /\ U.heads = [T.heads EXCEPT ![s] = x] /\ SameTable(T, U)
<1>1. U.heads = [T.heads EXCEPT ![s] = x] /\ SameTable(T, U)
    BY DEF TableType, SameTable
<1>2. [T.heads EXCEPT ![s] = x] \in [0 .. n - 1 -> CellOrNil]
    BY DEF TableType, CellOrNil
<1>3. U \in TableType(n)
    <2>1. U = [T EXCEPT !.heads = [T.heads EXCEPT ![s] = x]]
        BY DEF TableType
    <2> QED BY <2>1, <1>2 DEF TableType
<1> QED BY <1>1, <1>3

LEMMA PushHashCells ==
    ASSUME NEW n \in Nat, NEW T \in TableType(n), NEW P \in CellsType, NEW x \in Cells,
           NEW s \in 0 .. n - 1, s = Slot(T, P[x].index),
           NEW r, r = pushHash([t |-> T, p |-> P], x)
    PROVE  /\ r.p \in CellsType /\ SameCells(P, r.p)
           /\ \A c \in Cells \ {x} : r.p[c] = P[c]
           /\ \A c \in Cells : r.p[c].hash_next = IF c = x THEN T.heads[s] ELSE P[c].hash_next
<1> DEFINE y == T.heads[s]
           Q == [P EXCEPT ![x].hash_next = y]
<1>1. r.p = Q
    BY DEF pushHash
<1>2. y \in CellOrNil
    BY HeadsAre
<1> HIDE DEF y
<1>3. DOMAIN P = Cells /\ \A c \in Cells : P[c] \in CellType
    BY DEF CellsType
<1>4. DOMAIN Q = Cells /\ \A c \in Cells : Q[c] = IF c = x THEN [P[c] EXCEPT !.hash_next = y] ELSE P[c]
    BY <1>3
<1>5. [P[x] EXCEPT !.hash_next = y] \in CellType
    BY <1>2, <1>3 DEF CellType
<1>6. Q \in CellsType
    <2>1. Q = [c \in Cells |-> Q[c]]
        BY <1>4
    <2> QED BY <2>1, <1>3, <1>4, <1>5 DEF CellsType
<1>7. SameCells(P, Q)
    BY <1>3, <1>4 DEF SameCells, CellType
<1>8. \A c \in Cells : Q[c].hash_next = IF c = x THEN y ELSE P[c].hash_next
    BY <1>3, <1>4 DEF CellType
<1>9. \A c \in Cells \ {x} : Q[c] = P[c]
    BY <1>4
<1> HIDE DEF Q
<1> QED BY <1>1, <1>6, <1>7, <1>8, <1>9 DEF y

LEMMA PushHashOthers ==
    ASSUME NEW T, NEW P \in CellsType, NEW x \in Cells,
           NEW r, r = pushHash([t |-> T, p |-> P], x)
    PROVE  \A c \in Cells \ {x} : r.p[c] = P[c]
<1>1. r.p = [P EXCEPT ![x].hash_next = T.heads[Slot(T, P[x].index)]]
    BY DEF pushHash
<1>2. DOMAIN P = Cells
    BY DEF CellsType
<1> QED BY <1>1, <1>2

\* addTableProperty pushes a new cell on the chain of its slot.
LEMMA PushHashIs ==
    ASSUME PropTableAssumption, NEW n \in Nat \ {0}, NEW T \in TableType(n), NEW P \in CellsType,
           NEW S \in SUBSET Cells, \A c \in S : P[c].index \in Keys, Chained(P, T, S),
           NEW x \in Cells \ S, P[x].index \in Keys,
           NEW r, r = pushHash([t |-> T, p |-> P], x)
    PROVE  /\ r.t \in TableType(n) /\ r.p \in CellsType
           /\ SameTable(T, r.t) /\ SameCells(P, r.p)
           /\ Chained(r.p, r.t, S \cup {x})
<1> DEFINE s == Slot(T, P[x].index)
           U == [T EXCEPT !.heads[s] = x]
           Q == [P EXCEPT ![x].hash_next = T.heads[s]]
<1>1. r.t = U /\ r.p = Q
    BY DEF pushHash
<1>2. s \in 0 .. n - 1
    BY SlotIs
<1>3. DOMAIN T.heads = 0 .. n - 1 /\ T.heads[s] \in CellOrNil
    BY <1>2, HeadsAre
<1> HIDE DEF s
<1>4. U \in TableType(n) /\ U.heads = [T.heads EXCEPT ![s] = x] /\ SameTable(T, U)
    BY <1>2, PushHashTable
<1>5. /\ Q \in CellsType /\ SameCells(P, Q)
      /\ \A c \in Cells \ {x} : Q[c] = P[c]
      /\ \A c \in Cells : Q[c].hash_next = IF c = x THEN T.heads[s] ELSE P[c].hash_next
    <2>1. s = Slot(T, P[x].index)
        BY DEF s
    <2> HIDE DEF Q
    <2>2. /\ r.p \in CellsType /\ SameCells(P, r.p)
          /\ \A c \in Cells \ {x} : r.p[c] = P[c]
          /\ \A c \in Cells : r.p[c].hash_next = IF c = x THEN T.heads[s] ELSE P[c].hash_next
        BY <2>1, <1>2, PushHashCells
    <2> QED BY <2>2, <1>1
<1> HIDE DEF U, Q
<1>6. PICK ch \in [DOMAIN T.heads -> Seq(Cells)] : \A i \in DOMAIN T.heads :
        /\ Once(ch[i], Cells)
        /\ Path(P, T.heads[i], "hash_next", ch[i])
        /\ Of(ch[i]) = {c \in S : Slot(T, P[c].index) = i}
    BY DEF Chained
<1> DEFINE cg == [i \in 0 .. n - 1 |-> IF i = s THEN <<x>> \o ch[s] ELSE ch[i]]
<1>7. x \notin Of(ch[s]) /\ \A i \in 0 .. n - 1 : \A j \in 1 .. Len(ch[i]) : ch[i][j] \in Cells \ {x}
    <2>1. x \notin Of(ch[s])
        BY <1>2, <1>3, <1>6
    <2>2. ASSUME NEW i \in 0 .. n - 1, NEW j \in 1 .. Len(ch[i]) PROVE ch[i][j] \in Cells \ {x}
        <3>1. ch[i][j] \in Of(ch[i])
            BY DEF Of
        <3> QED BY <3>1, <1>3, <1>6
    <2> QED BY <2>1, <2>2
<1>8. DOMAIN U.heads = 0 .. n - 1
    BY <1>4, HeadsAre
<1>9. \A k \in Keys : Slot(U, k) = Slot(T, k)
    BY <1>4, SlotIs
<1>10. \A c \in S \cup {x} : Slot(U, Q[c].index) = Slot(T, P[c].index)
    <2>1. \A c \in S \cup {x} : c \in Cells /\ P[c].index \in Keys /\ Q[c].index = P[c].index
        BY <1>5 DEF SameCells
    <2> QED BY <2>1, <1>9
<1>11. ASSUME NEW i \in 0 .. n - 1
       PROVE  /\ cg[i] \in Seq(Cells) /\ Once(cg[i], Cells)
              /\ Path(Q, U.heads[i], "hash_next", cg[i])
              /\ Of(cg[i]) = {c \in S \cup {x} : Slot(U, Q[c].index) = i}
    <2>0. /\ Once(ch[i], Cells) /\ Path(P, T.heads[i], "hash_next", ch[i])
          /\ Of(ch[i]) = {c \in S : Slot(T, P[c].index) = i}
        BY <1>3, <1>6
    <2>1. \A j \in 1 .. Len(ch[i]) : Q[ch[i][j]]["hash_next"] = P[ch[i][j]]["hash_next"]
        BY <1>5, <1>7
    <2>2. CASE i = s
        <3>1. cg[i] = <<x>> \o ch[i] /\ U.heads[i] = x
            BY <2>2, <1>2, <1>3, <1>4
        <3>2. Once(cg[i], Cells) /\ Of(cg[i]) = Of(ch[i]) \cup {x}
            BY <3>1, <2>0, <2>2, <1>7, PushedIs
        <3>3. Q[x]["hash_next"] = T.heads[i]
            BY <1>5, <2>2
        <3>4. Path(Q, x, "hash_next", <<x>> \o ch[i])
            BY <3>3, <2>0, <2>1, <2>2, <1>7, PathPush
        <3>5. Of(cg[i]) = {c \in S \cup {x} : Slot(U, Q[c].index) = i}
            BY <3>2, <2>0, <2>2, <1>10 DEF s
        <3> QED BY <3>1, <3>2, <3>4, <3>5 DEF Once
    <2>3. CASE i # s
        <3>1. cg[i] = ch[i] /\ U.heads[i] = T.heads[i]
            BY <2>3, <1>2, <1>3, <1>4
        <3>2. Path(Q, U.heads[i], "hash_next", ch[i])
            BY <3>1, <2>0, <2>1, PathStays
        <3>3. Of(ch[i]) = {c \in S \cup {x} : Slot(U, Q[c].index) = i}
            BY <2>0, <2>3, <1>10 DEF s
        <3> QED BY <3>1, <3>2, <3>3, <2>0 DEF Once
    <2> QED BY <2>2, <2>3
<1>12. Chained(Q, U, S \cup {x})
    <2> HIDE DEF cg
    <2>1. cg \in [0 .. n - 1 -> Seq(Cells)]
        BY <1>11 DEF cg
    <2>2. cg \in [DOMAIN U.heads -> Seq(Cells)]
        BY <2>1, <1>8
    <2>3. \A i \in DOMAIN U.heads :
              /\ Once(cg[i], Cells)
              /\ Path(Q, U.heads[i], "hash_next", cg[i])
              /\ Of(cg[i]) = {c \in S \cup {x} : Slot(U, Q[c].index) = i}
        BY <1>8, <1>11
    <2> QED BY <2>2, <2>3 DEF Chained
<1> QED BY <1>1, <1>4, <1>5, <1>12

\* No cell hangs in an empty table
LEMMA EmptyChained ==
    ASSUME NEW n \in Nat, NEW T \in TableType(n), T.heads = [i \in 0 .. n - 1 |-> Nil], NEW P
    PROVE  Chained(P, T, {})
<1> DEFINE ch == [i \in 0 .. n - 1 |-> << >>]
<1>1. DOMAIN T.heads = 0 .. n - 1
    BY HeadsAre
<1>2. << >> \in Seq(Cells) /\ Len(<< >>) = 0
    BY EmptySeq
<1>3. ch \in [DOMAIN T.heads -> Seq(Cells)]
    BY <1>1, <1>2
<1>4. ASSUME NEW i \in 0 .. n - 1
      PROVE  /\ Once(ch[i], Cells) /\ Path(P, T.heads[i], "hash_next", ch[i])
             /\ Of(ch[i]) = {c \in {} : Slot(T, P[c].index) = i}
    <2>1. ch[i] = << >> /\ T.heads[i] = Nil
        OBVIOUS
    <2>2. 1 .. Len(<< >>) = {}
        BY <1>2
    <2> QED BY <2>1, <2>2, <1>2 DEF Once, Path, Of
<1> HIDE DEF ch
<1> QED BY <1>1, <1>3, <1>4 DEF Chained

LEMMA NoHeads ==
    ASSUME NEW n \in Nat, NEW T \in TableType(n)
    PROVE  T.heads = << >> <=> n = 0
<1>1. T.heads \in [0 .. n - 1 -> CellOrNil]
    BY DEF TableType
<1>2. << >> \in [1 .. 0 -> CellOrNil]
    BY EmptySeq, LenProperties
<1>3. ASSUME n = 0 PROVE T.heads = << >>
    <2>1. 0 .. n - 1 = {} /\ 1 .. 0 = {}
        BY <1>3
    <2> QED BY <2>1, <1>1, <1>2
<1>4. ASSUME n # 0 PROVE T.heads # << >>
    <2>1. 0 \in 0 .. n - 1 /\ 0 \notin 1 .. 0
        BY <1>4
    <2> QED BY <2>1, <1>1, <1>2
<1> QED BY <1>3, <1>4

\* The new heads of a grown table lead to all cells of the list.
LEMMA GrowIs ==
    ASSUME PropTableAssumption, NEW n \in Nat, NEW T \in TableType(n), NEW P \in CellsType,
           NEW L, Once(L, Cells), Path(P, T.first, "next", L),
           \A c \in Of(L) : P[c].index \in Keys,
           NEW r, r = growHeads(T, P)
    PROVE  /\ r = [t |-> r.t, p |-> r.p]
           /\ \E m \in Nat \ {0} :
                 /\ r.t \in TableType(m) /\ r.p \in CellsType
                 /\ SameTable(T, r.t) /\ SameCells(P, r.p)
                 /\ \A c \in Cells \ Of(L) : r.p[c] = P[c]
                 /\ Chained(r.p, r.t, Of(L))
<1> DEFINE size == IF T.heads = << >> THEN InitHeads ELSE 2 * Cardinality(HeadsOf(T))
           E0 == [t |-> [T EXCEPT !.heads = [s \in 0 .. size - 1 |-> Nil]], p |-> P]
           F == Follow(P, T.first, "next")
           N == Len(F)
           Def(f, m) == [k \in 0 .. m |-> IF k = 0 THEN E0 ELSE pushHash(f[k - 1], F[k])]
           filled == CHOOSE f : f = Def(f, N)
<1>2. r = filled[N]
    BY DEF growHeads
<1>0. F = L
    BY FollowPath
<1> HIDE DEF F
<1>1. N \in Nat /\ \A k \in 1 .. N : F[k] \in Cells
    BY <1>0, LenProperties, ElementOfSeq DEF Once
<1>3. size \in Nat \ {0}
    <2>1. CASE T.heads = << >>
        BY <2>1 DEF PropTableAssumption
    <2>2. CASE T.heads # << >>
        <3>1. n # 0 /\ Cardinality(HeadsOf(T)) = n
            BY <2>2, NoHeads, HeadsAre DEF HeadsOf
        <3> QED BY <2>2, <3>1
    <2> QED BY <2>1, <2>2
<1> HIDE DEF size
<1>4. /\ E0.t \in TableType(size) /\ E0.p \in CellsType
      /\ SameTable(T, E0.t) /\ SameCells(P, E0.p)
      /\ Chained(E0.p, E0.t, {})
    <2>1. E0.t = [T EXCEPT !.heads = [s \in 0 .. size - 1 |-> Nil]] /\ E0.p = P
        OBVIOUS
    <2>2. [s \in 0 .. size - 1 |-> Nil] \in [0 .. size - 1 -> CellOrNil]
        BY DEF CellOrNil
    <2>3. E0.t \in TableType(size) /\ E0.t.heads = [s \in 0 .. size - 1 |-> Nil] /\ SameTable(T, E0.t)
        BY <2>1, <2>2 DEF TableType, SameTable
    <2>4. SameCells(P, E0.p)
        BY <2>1 DEF SameCells
    <2> HIDE DEF E0
    <2>5. Chained(E0.p, E0.t, {})
        BY <2>3, <1>3, EmptyChained
    <2> QED BY <2>1, <2>3, <2>4, <2>5
<1>40. \A a, b : [t |-> a, p |-> b] = [t |-> [t |-> a, p |-> b].t, p |-> [t |-> a, p |-> b].p]
    OBVIOUS
<1>41. E0 = [t |-> E0.t, p |-> E0.p]
    BY <1>40
<1> HIDE DEF E0
<1> DEFINE exists(m) == \E f : f = Def(f, m)
<1>5. exists(N)
    <2> DEFINE bad == {m \in Nat : ~exists(m)}
    <2> HIDE DEF exists
    <2> SUFFICES ASSUME bad # {} PROVE FALSE
        BY <1>1
    <2>1. PICK m \in bad : \A k \in bad : m <= k
        BY LeastElement
    <2>2. m \in Nat /\ ~exists(m)
        BY <2>1
    <2>3. CASE m = 0
        <3> DEFINE g == [k \in 0 .. 0 |-> E0]
        <3>1. g = Def(g, 0)
            OBVIOUS
        <3> QED BY <3>1, <2>2, <2>3 DEF exists
    <2>4. CASE m # 0
        <3>00. m - 1 \in Nat /\ ~(m <= m - 1)
            BY <2>2, <2>4
        <3>0. m - 1 \in Nat /\ m - 1 \notin bad
            <4> HIDE DEF bad
            <4> QED BY <2>1, <3>00
        <3>1. m - 1 \in Nat /\ exists(m - 1)
            BY <3>0
        <3>2. PICK f : f = Def(f, m - 1)
            BY <3>1 DEF exists
        <3>3. \A k \in 0 .. m - 1 : f[k] = IF k = 0 THEN E0 ELSE pushHash(f[k - 1], F[k])
            BY <3>2
        <3> DEFINE g == [k \in 0 .. m |-> IF k = m THEN pushHash(f[m - 1], F[m]) ELSE f[k]]
        <3>4. \A k \in 0 .. m : g[k] = IF k = 0 THEN E0 ELSE pushHash(g[k - 1], F[k])
            <4> TAKE k \in 0 .. m
            <4>1. CASE k = m
                <5>1. m - 1 \in 0 .. m /\ g[m - 1] = f[m - 1]
                    BY <2>2, <2>4
                <5> QED BY <5>1, <4>1, <2>4
            <4>2. CASE k # m /\ k # 0
                <5>1. k - 1 \in 0 .. m /\ k - 1 # m /\ k \in 0 .. m - 1
                    BY <4>2, <2>2
                <5>2. g[k - 1] = f[k - 1] /\ g[k] = f[k]
                    BY <5>1, <4>2
                <5> QED BY <5>1, <5>2, <4>2, <3>3
            <4>3. CASE k = 0
                <5>1. k \in 0 .. m - 1 /\ k # m
                    BY <4>3, <2>2, <2>4
                <5> QED BY <5>1, <4>3, <3>3
            <4> QED BY <4>1, <4>2, <4>3
        <3>5. g = Def(g, m)
            BY <3>4
        <3> HIDE DEF g, Def
        <3> QED BY <3>5, <2>2 DEF exists
    <2> QED BY <2>3, <2>4
<1>6. filled = Def(filled, N)
    <2> HIDE DEF Def
    <2> QED BY <1>5
<1>7. \A k \in 0 .. N : filled[k] = IF k = 0 THEN E0 ELSE pushHash(filled[k - 1], F[k])
    <2> HIDE DEF filled
    <2> QED BY <1>6
<1> HIDE DEF filled, exists, Def
<1> DEFINE first(k) == {F[j] : j \in 1 .. k}
           good(k) == \E t, q :
              /\ filled[k] = [t |-> t, p |-> q]
              /\ t \in TableType(size) /\ q \in CellsType
              /\ SameTable(T, t) /\ SameCells(P, q)
              /\ \A c \in Cells \ first(k) : q[c] = P[c]
              /\ Chained(q, t, first(k))
<1>8. good(0)
    <2>3. \A c \in Cells : E0.p[c] = P[c]
        BY DEF E0
    <2>1. filled[0] = E0 /\ E0 = [t |-> E0.t, p |-> E0.p]
        BY <1>1, <1>7, <1>41
    <2>2. first(0) = {}
        OBVIOUS
    <2> QED BY <2>1, <2>2, <2>3, <1>4
<1>9. ASSUME NEW k \in 1 .. N, good(k - 1) PROVE good(k)
    <2>1. PICK t, q :
              /\ filled[k - 1] = [t |-> t, p |-> q]
              /\ t \in TableType(size) /\ q \in CellsType
              /\ SameTable(T, t) /\ SameCells(P, q)
              /\ \A c \in Cells \ first(k - 1) : q[c] = P[c]
              /\ Chained(q, t, first(k - 1))
        BY <1>9
    <2> DEFINE x == F[k]
               u == pushHash([t |-> t, p |-> q], x)
    <2>2. filled[k] = u
        BY <2>1, <1>7, <1>1
    <2>3. first(k - 1) \in SUBSET Cells /\ x \in Cells \ first(k - 1)
        <3>1. \A j \in 1 .. k - 1 : j \in 1 .. N /\ j # k
            BY <1>1
        <3>2. \A j \in 1 .. k - 1 : F[j] \in Cells /\ F[j] # x
            BY <3>1, <1>0, <1>1 DEF Once
        <3> QED BY <3>2, <1>1
    <2>4. \A j \in 1 .. N : q[F[j]].index \in Keys
        BY <2>1, <1>0, <1>1 DEF SameCells, Of
    <2>5. \A c \in first(k - 1) : q[c].index \in Keys
        BY <2>4, <1>1
    <2>6. first(k) = first(k - 1) \cup {x}
        <3>1. 1 .. k = (1 .. k - 1) \cup {k}
            BY <1>1
        <3> QED BY <3>1
    <2>7. u = [t |-> u.t, p |-> u.p]
        BY DEF pushHash
    <2> HIDE DEF u, first
    <2>8. /\ u.t \in TableType(size) /\ u.p \in CellsType
          /\ SameTable(t, u.t) /\ SameCells(q, u.p)
          /\ \A c \in Cells \ {x} : u.p[c] = q[c]
          /\ Chained(u.p, u.t, first(k - 1) \cup {x})
        <3>1. q[x].index \in Keys
            BY <2>4
        <3>2. u = pushHash([t |-> t, p |-> q], x)
            BY DEF u
        <3>3. t \in TableType(size) /\ q \in CellsType /\ Chained(q, t, first(k - 1)) /\ size \in Nat \ {0}
            BY <2>1, <1>3
        <3> HIDE DEF x
        <3>4. PICK S, y, w : S = first(k - 1) /\ y = x /\ w = u
            OBVIOUS
        <3>5. /\ S \in SUBSET Cells /\ y \in Cells \ S /\ q[y].index \in Keys
              /\ \A c \in S : q[c].index \in Keys
              /\ Chained(q, t, S) /\ w = pushHash([t |-> t, p |-> q], y)
            BY <3>1, <3>2, <3>3, <3>4, <2>3, <2>5
        <3>6. PICK z \in Nat \ {0} : z = size
            BY <1>3
        <3>7. t \in TableType(z) /\ q \in CellsType
            BY <3>3, <3>6
        <3>8. /\ w.t \in TableType(z) /\ w.p \in CellsType
              /\ SameTable(t, w.t) /\ SameCells(q, w.p)
              /\ Chained(w.p, w.t, S \cup {y})
            BY <3>5, <3>7, PushHashIs
        <3>9. \A c \in Cells \ {y} : w.p[c] = q[c]
            BY <3>5, <3>7, PushHashOthers
        <3> QED BY <3>4, <3>6, <3>8, <3>9
    <2>9. SameTable(T, u.t) /\ SameCells(P, u.p)
        BY <2>1, <2>8 DEF SameTable, SameCells
    <2>10. \A c \in Cells \ first(k) : u.p[c] = P[c]
        <3>1. \A c \in Cells \ first(k) : c \in Cells \ {x} /\ c \in Cells \ first(k - 1)
            BY <2>6
        <3> QED BY <3>1, <2>1, <2>8
    <2> QED BY <2>2, <2>6, <2>7, <2>8, <2>9, <2>10
<1>10. good(N)
    <2> DEFINE bad == {k \in Nat : k <= N /\ ~good(k)}
    <2> HIDE DEF good
    <2> SUFFICES ASSUME bad # {} PROVE FALSE
        BY <1>1
    <2>1. PICK k \in bad : \A j \in bad : k <= j
        BY LeastElement
    <2>2. k \in Nat /\ k <= N /\ ~good(k) /\ k # 0
        BY <2>1, <1>8
    <2>3. k - 1 \in Nat /\ k - 1 <= N /\ k - 1 \notin bad /\ k \in 1 .. N
        BY <2>1, <2>2, <1>1
    <2>4. good(k - 1)
        BY <2>3
    <2> QED BY <2>2, <2>3, <2>4, <1>9
<1>11. first(N) = Of(L)
    BY <1>0 DEF Of
<1>12. PICK t, q :
          /\ filled[N] = [t |-> t, p |-> q]
          /\ t \in TableType(size) /\ q \in CellsType
          /\ SameTable(T, t) /\ SameCells(P, q)
          /\ \A c \in Cells \ first(N) : q[c] = P[c]
          /\ Chained(q, t, first(N))
    BY <1>10
<1>13. r.t = t /\ r.p = q /\ r = [t |-> t, p |-> q]
    BY <1>2, <1>12
<1> QED BY <1>3, <1>11, <1>12, <1>13

\* Chains stay when indices and chain pointers do.
LEMMA ChainedStays ==
    ASSUME NEW P, NEW Q, NEW T, NEW U, NEW S, Chained(P, T, S), U.heads = T.heads,
           \A c \in S : Q[c].hash_next = P[c].hash_next /\ Q[c].index = P[c].index
    PROVE  Chained(Q, U, S)
<1>1. PICK ch \in [DOMAIN T.heads -> Seq(Cells)] : \A s \in DOMAIN T.heads :
        /\ Once(ch[s], Cells)
        /\ Path(P, T.heads[s], "hash_next", ch[s])
        /\ Of(ch[s]) = {c \in S : Slot(T, P[c].index) = s}
    BY DEF Chained
<1>2. \A k : Slot(U, k) = Slot(T, k)
    BY DEF Slot, HeadsOf
<1>3. ASSUME NEW s \in DOMAIN U.heads
      PROVE  /\ Once(ch[s], Cells)
             /\ Path(Q, U.heads[s], "hash_next", ch[s])
             /\ Of(ch[s]) = {c \in S : Slot(U, Q[c].index) = s}
    <2>1. s \in DOMAIN T.heads /\ U.heads[s] = T.heads[s]
        OBVIOUS
    <2>2. \A j \in 1 .. Len(ch[s]) : ch[s][j] \in S
        <3>1. \A j \in 1 .. Len(ch[s]) : ch[s][j] \in Of(ch[s])
            BY DEF Of
        <3> QED BY <3>1, <2>1, <1>1
    <2>3. \A j \in 1 .. Len(ch[s]) : Q[ch[s][j]]["hash_next"] = P[ch[s][j]]["hash_next"]
        BY <2>2
    <2>4. Path(Q, U.heads[s], "hash_next", ch[s])
        BY <2>1, <2>3, <1>1, PathStays
    <2>5. {c \in S : Slot(U, Q[c].index) = s} = {c \in S : Slot(T, P[c].index) = s}
        BY <1>2
    <2> QED BY <2>1, <2>4, <2>5, <1>1
<1>4. ch \in [DOMAIN U.heads -> Seq(Cells)]
    BY <1>1
<1> QED BY <1>3, <1>4 DEF Chained

-----------------------------------------------------------------------------
(* The table and its cells, listed by L.                                   *)

Listed(P, T, L) ==
    /\ Once(L, Cells)
    /\ Path(P, T.first, "next", L)
    /\ Path(P, T.last, "prev", Reverse(L))

Sized(T) == \E n \in Nat : T \in TableType(n) /\ (n = 0 => T = NoTable)

Sound(T, P, L) ==
    /\ Sized(T) /\ P \in CellsType
    /\ Listed(P, T, L)
    /\ Of(L) = {c \in Cells : P[c] # Free}
    /\ \A c \in Of(L) : P[c].index \in Keys /\ P[c].value \in Vals
    /\ Chained(P, T, Of(L))
    /\ T.count = Len(L)
    /\ \A c, d \in Of(L) : P[c].index = P[d].index => c = d
    /\ \A c \in Of(L) : P[c].index \in NumKeys => P[c].index < T.next_index

LEMMA ListedIs ==
    ASSUME NEW P, NEW T, NEW L, Listed(P, T, L), NEW j \in 1 .. Len(L)
    PROVE  /\ P[L[j]].next = IF j = Len(L) THEN Nil ELSE L[j + 1]
           /\ P[L[j]].prev = IF j = 1 THEN Nil ELSE L[j - 1]
           /\ T.first = L[1] /\ T.last = L[Len(L)]
<1> DEFINE r == Reverse(L)
           i == Len(L) - j + 1
<1>0. Once(L, Cells) /\ Path(P, T.first, "next", L) /\ Path(P, T.last, "prev", r) /\ Len(L) \in Nat
    BY LenProperties DEF Listed, Once
<1>1. /\ Len(r) = Len(L)
      /\ \A n \in 1 .. Len(L) : r[n] = L[Len(L) - n + 1] /\ L[n] = r[Len(L) - n + 1]
    BY <1>0, ReversedIs
<1> HIDE DEF r
<1>2. P[L[j]]["next"] = IF j = Len(L) THEN Nil ELSE L[j + 1]
    BY <1>0 DEF Path
<1>3. i \in 1 .. Len(r) /\ r[i] = L[j]
    BY <1>0, <1>1
<1>4. P[r[i]]["prev"] = IF i = Len(r) THEN Nil ELSE r[i + 1]
    BY <1>0, <1>3 DEF Path
<1>5. i = Len(r) <=> j = 1
    BY <1>0, <1>1
<1>6. j # 1 => r[i + 1] = L[j - 1]
    <2> SUFFICES ASSUME j # 1 PROVE r[i + 1] = L[j - 1]
        OBVIOUS
    <2>1. i + 1 \in 1 .. Len(L) /\ Len(L) - (i + 1) + 1 = j - 1
        BY <1>0
    <2> QED BY <2>1, <1>1
<1>7. P[L[j]]["prev"] = IF j = 1 THEN Nil ELSE L[j - 1]
    BY <1>3, <1>4, <1>5, <1>6
<1>8. T.first = L[1]
    BY <1>0 DEF Path
<1>9. T.last = L[Len(L)]
    <2>1. T.last = r[1] /\ 1 \in 1 .. Len(L) /\ Len(L) - 1 + 1 = Len(L)
        BY <1>0, <1>1 DEF Path
    <2> QED BY <2>1, <1>1
<1> QED BY <1>2, <1>7, <1>8, <1>9

LEMMA EmptyListed ==
    ASSUME NEW P, NEW T, NEW L, Listed(P, T, L), Len(L) = 0
    PROVE  T.first = Nil /\ T.last = Nil /\ Of(L) = {} /\ L = << >>
<1>1. Once(L, Cells) /\ Len(Reverse(L)) = 0
    BY ReversedIs DEF Listed
<1>2. T.first = Nil /\ T.last = Nil
    BY <1>1 DEF Listed, Path
<1>3. Of(L) = {}
    BY DEF Of
<1>4. L = << >>
    BY <1>1, EmptySeq DEF Once
<1> QED BY <1>2, <1>3, <1>4

LEMMA SoundEmpty ==
    ASSUME PropTableAssumption
    PROVE  Sound(NoTable, [c \in Cells |-> Free], << >>)
<1> DEFINE P == [c \in Cells |-> Free]
           E == << >>
<1>1. E \in Seq(Cells) /\ Len(E) = 0 /\ 1 .. Len(E) = {}
    BY EmptySeq
<1>2. E \in [0 .. 0 - 1 -> CellOrNil]
    <2>1. 0 .. 0 - 1 = 1 .. 0
        OBVIOUS
    <2>2. E \in [1 .. 0 -> CellOrNil]
        BY EmptySeq, LenProperties
    <2> QED BY <2>1, <2>2
<1>3. NoTable \in TableType(0) /\ NoTable.heads = E /\ NoTable.count = 0
      /\ NoTable.first = Nil /\ NoTable.last = Nil
    BY <1>2 DEF NoTable, TableType, CellOrNil
<1>4. P \in CellsType
    BY DEF CellsType, CellType, Free, CellOrNil
<1>5. {c \in Cells : P[c] # Free} = {}
    OBVIOUS
<1> HIDE DEF P, E
<1>6. Once(E, Cells) /\ Of(E) = {}
    BY <1>1 DEF Once, Of
<1>7. Len(Reverse(E)) = 0
    BY <1>1, <1>6, ReversedIs
<1>8. Listed(P, NoTable, E)
    BY <1>1, <1>3, <1>6, <1>7 DEF Listed, Path
<1>9. NoTable.heads = [i \in 0 .. 0 - 1 |-> Nil]
    <2>1. 0 .. 0 - 1 = {}
        OBVIOUS
    <2> QED BY <2>1, <1>2, <1>3
<1>10. Chained(P, NoTable, Of(E))
    <2>1. PICK n \in Nat : n = 0
        OBVIOUS
    <2>2. NoTable \in TableType(n) /\ NoTable.heads = [i \in 0 .. n - 1 |-> Nil]
        BY <2>1, <1>3, <1>9
    <2>3. Chained(P, NoTable, {})
        BY <2>2, EmptyChained
    <2> QED BY <2>3, <1>6
<1>11. Sized(NoTable)
    BY <1>3 DEF Sized
<1>12. Sound(NoTable, P, E)
    BY <1>1, <1>3, <1>4, <1>5, <1>6, <1>8, <1>10, <1>11 DEF Sound
<1> QED BY <1>12 DEF P, E

\* A table without slots has no properties
LEMMA NoSlots ==
    ASSUME PropTableAssumption, NEW T, NEW P, NEW L, Sound(T, P, L), NEW n \in Nat, T \in TableType(n),
           n = 0 \/ T = NoTable
    PROVE  Len(L) = 0 /\ Of(L) = {} /\ T = NoTable
<1>1. T = NoTable
    <2>1. PICK m \in Nat : T \in TableType(m) /\ (m = 0 => T = NoTable)
        BY DEF Sound, Sized
    <2>2. ASSUME n = 0 PROVE T = NoTable
        <3>1. T.heads = << >>
            BY <2>2, NoHeads
        <3>2. m = 0
            BY <3>1, <2>1, NoHeads
        <3> QED BY <3>2, <2>1
    <2> QED BY <2>2
<1>2. T.count = 0
    BY <1>1 DEF NoTable
<1>3. Len(L) = 0
    BY <1>2 DEF Sound
<1> QED BY <1>1, <1>3, EmptyListed DEF Sound

\* The cells of a chain
LEMMA ChainIs ==
    ASSUME PropTableAssumption, NEW n \in Nat, NEW T \in TableType(n), NEW P, NEW S, Chained(P, T, S),
           NEW s \in 0 .. n - 1
    PROVE  /\ Once(Chain(T, P, s), Cells)
           /\ Path(P, T.heads[s], "hash_next", Chain(T, P, s))
           /\ Of(Chain(T, P, s)) = {c \in S : Slot(T, P[c].index) = s}
<1>1. PICK ch \in [DOMAIN T.heads -> Seq(Cells)] : \A i \in DOMAIN T.heads :
        /\ Once(ch[i], Cells)
        /\ Path(P, T.heads[i], "hash_next", ch[i])
        /\ Of(ch[i]) = {c \in S : Slot(T, P[c].index) = i}
    BY DEF Chained
<1>2. s \in DOMAIN T.heads
    BY HeadsAre
<1>3. Chain(T, P, s) = ch[s]
    BY <1>1, <1>2, FollowPath DEF Chain
<1> QED BY <1>1, <1>2, <1>3

\* Table::get finds the property of a key, if there is one, although it
\* looks into one chain only.
LEMMA GetIs ==
    ASSUME PropTableAssumption, NEW L, Sound(table, prop, L), NEW k \in Keys
    PROVE  \/ get(k) \in Of(L) /\ prop[get(k)].index = k
           \/ get(k) = Nil /\ \A c \in Of(L) : prop[c].index # k
<1>1. PICK n \in Nat : table \in TableType(n) /\ (n = 0 => table = NoTable)
    BY DEF Sound, Sized
<1>2. CASE table = NoTable
    BY <1>1, <1>2, NoSlots DEF get
<1>3. CASE table # NoTable
    <2> DEFINE s == Slot(table, k)
               chain == Chain(table, prop, s)
               found == {j \in DOMAIN chain : prop[chain[j]].index = k}
    <2>1. n \in Nat \ {0} /\ s \in 0 .. n - 1
        BY <1>1, <1>3, SlotIs
    <2>2. get(k) = IF found = {} THEN Nil ELSE chain[CHOOSE j \in found : TRUE]
        BY <1>3 DEF get
    <2> HIDE DEF s
    <2>3. /\ Once(chain, Cells)
          /\ Of(chain) = {c \in Of(L) : Slot(table, prop[c].index) = s}
        BY <1>1, <2>1, ChainIs DEF Sound
    <2> HIDE DEF chain
    <2>4. DOMAIN chain = 1 .. Len(chain)
        BY <2>3, LenProperties DEF Once
    <2>5. CASE found = {}
        <3>1. ASSUME NEW c \in Of(L), prop[c].index = k PROVE FALSE
            <4>1. c \in Of(chain)
                BY <3>1, <2>3 DEF s
            <4>2. PICK j \in 1 .. Len(chain) : chain[j] = c
                BY <4>1 DEF Of
            <4> QED BY <4>2, <3>1, <2>4, <2>5
        <3> QED BY <3>1, <2>2, <2>5
    <2>6. CASE found # {}
        <3>1. (CHOOSE j \in found : TRUE) \in found
            BY <2>6
        <3>2. PICK j \in found : get(k) = chain[j]
            BY <3>1, <2>2, <2>6
        <3>3. j \in 1 .. Len(chain) /\ prop[chain[j]].index = k
            BY <3>2, <2>4
        <3>4. chain[j] \in Of(chain)
            BY <3>3 DEF Of
        <3> QED BY <3>2, <3>3, <3>4, <2>3
    <2> QED BY <2>5, <2>6
<1> QED BY <1>2, <1>3

LEMMA ElementIs ==
    ASSUME NEW S, NEW q, Once(q, S), NEW c \in Of(q)
    PROVE  /\ c \in S /\ Len(q) \in Nat /\ Len(q) # 0
           /\ \E k \in 1 .. Len(q) : q[k] = c /\ \A j \in 1 .. Len(q) : q[j] = c => j = k
<1>1. q \in Seq(S) /\ Len(q) \in Nat /\ \A n \in 1 .. Len(q) : q[n] \in S
    BY LenProperties, ElementOfSeq DEF Once
<1>2. PICK k \in 1 .. Len(q) : q[k] = c
    BY DEF Of
<1>3. \A j \in 1 .. Len(q) : q[j] = c => j = k
    BY <1>2 DEF Once
<1> QED BY <1>1, <1>2, <1>3

\* What a new value changes
LEMMA SetKeepsSound ==
    ASSUME PropTableAssumption, NEW L, Sound(table, prop, L),
           NEW c \in Of(L), NEW v \in Vals, setProperty(c, v)
    PROVE  /\ Sound(table', prop', L) /\ table' = table
           /\ \A d \in Cells : /\ prop'[d].index = prop[d].index
                               /\ prop'[d].value = IF d = c THEN v ELSE prop[d].value
                               /\ prop'[d].prev = prop[d].prev /\ prop'[d].next = prop[d].next
<1>0. /\ Once(L, Cells) /\ Path(prop, table.first, "next", L) /\ Path(prop, table.last, "prev", Reverse(L))
      /\ Of(L) = {d \in Cells : prop[d] # Free} /\ Chained(prop, table, Of(L))
      /\ \A d \in Of(L) : prop[d].index \in Keys /\ prop[d].value \in Vals
      /\ \A d, e \in Of(L) : prop[d].index = prop[e].index => d = e
      /\ \A d \in Of(L) : prop[d].index \in NumKeys => prop[d].index < table.next_index
    BY DEF Sound, Listed
<1>1. table' = table /\ prop' = [prop EXCEPT ![c].value = v]
    BY DEF setProperty
<1>2. DOMAIN prop = Cells /\ \A d \in Cells : prop[d] \in CellType
    BY DEF Sound, CellsType
<1>3. c \in Cells /\ prop[c].index \in Keys
    BY <1>0
<1>4. DOMAIN prop' = Cells /\ \A d \in Cells : prop'[d] = IF d = c THEN [prop[d] EXCEPT !.value = v] ELSE prop[d]
    BY <1>1, <1>2
<1>5. [prop[c] EXCEPT !.value = v] \in CellType
    BY <1>2, <1>3 DEF CellType
<1>6. prop' \in CellsType
    <2>1. prop' = [d \in Cells |-> prop'[d]]
        BY <1>1, <1>2
    <2> QED BY <2>1, <1>2, <1>4, <1>5 DEF CellsType
<1>7. \A d \in Cells : /\ prop'[d].index = prop[d].index
                       /\ prop'[d].value = IF d = c THEN v ELSE prop[d].value
                       /\ prop'[d].prev = prop[d].prev /\ prop'[d].next = prop[d].next
                       /\ prop'[d].hash_next = prop[d].hash_next
    <2> TAKE d \in Cells
    <2>1. CASE d = c
        <3>1. prop'[d] = [prop[c] EXCEPT !.value = v] /\ prop[c] \in CellType
            BY <2>1, <1>2, <1>3, <1>4
        <3> QED BY <3>1, <2>1 DEF CellType
    <2>2. CASE d # c
        BY <2>2, <1>4
    <2> QED BY <2>1, <2>2
<1>8. {d \in Cells : prop'[d] # Free} = {d \in Cells : prop[d] # Free}
    <2>1. prop'[c] # Free /\ prop[c] # Free
        BY <1>3, <1>7 DEF Free, PropTableAssumption
    <2> QED BY <2>1, <1>4
<1>9. \A d \in Of(L) : d \in Cells
    BY <1>0
<1>10. \A j \in 1 .. Len(L) : L[j] \in Cells
    BY <1>9 DEF Of
<1>11. Listed(prop', table', L)
    <2>1. Once(Reverse(L), Cells) /\ \A j \in 1 .. Len(Reverse(L)) : Reverse(L)[j] \in Cells
        <3>1. Once(Reverse(L), Cells) /\ Of(Reverse(L)) = Of(L)
            BY <1>0, ReversedIs
        <3> QED BY <3>1, <1>9 DEF Of
    <2>2. Path(prop', table.first, "next", L)
        <3>1. \A j \in 1 .. Len(L) : prop'[L[j]]["next"] = prop[L[j]]["next"]
            BY <1>7, <1>10
        <3> QED BY <3>1, <1>0, PathStays
    <2>3. Path(prop', table.last, "prev", Reverse(L))
        <3> DEFINE r == Reverse(L)
        <3>1. \A j \in 1 .. Len(r) : prop'[r[j]]["prev"] = prop[r[j]]["prev"]
            BY <1>7, <2>1
        <3>2. Path(prop, table.last, "prev", r)
            BY <1>0
        <3> HIDE DEF r
        <3>3. Path(prop', table.last, "prev", r)
            BY <3>1, <3>2, PathStays
        <3> QED BY <3>3 DEF r
    <2> QED BY <2>2, <2>3, <1>0, <1>1 DEF Listed
<1>12. Chained(prop', table', Of(L))
    <2>1. \A d \in Of(L) : prop'[d].hash_next = prop[d].hash_next /\ prop'[d].index = prop[d].index
        BY <1>7, <1>9
    <2>2. table'.heads = table.heads
        BY <1>1
    <2> QED BY <2>1, <2>2, <1>0, ChainedStays
<1>13. /\ \A d \in Of(L) : prop'[d].index \in Keys /\ prop'[d].value \in Vals
       /\ \A d, e \in Of(L) : prop'[d].index = prop'[e].index => d = e
       /\ \A d \in Of(L) : prop'[d].index \in NumKeys => prop'[d].index < table.next_index
    <2>1. \A d \in Of(L) : prop'[d].index = prop[d].index /\ (prop'[d].value = v \/ prop'[d].value = prop[d].value)
        BY <1>7, <1>9
    <2> QED BY <2>1, <1>0
<1>14. Sound(table', prop', L)
    BY <1>1, <1>6, <1>8, <1>11, <1>12, <1>13 DEF Sound
<1> QED BY <1>1, <1>7, <1>14

\* A new property hangs in the chain of its slot and at the end of the list.
LEMMA AddKeepsSound ==
    ASSUME PropTableAssumption, NEW L, Sound(table, prop, L),
           NEW c, NEW k \in Keys, NEW v \in Vals, addTableProperty(c, k, v),
           \A d \in Of(L) : prop[d].index # k
    PROVE  /\ c \in Cells \ Of(L)
           /\ Sound(table', prop', Append(L, c))
           /\ prop'[c].index = k /\ prop'[c].value = v
           /\ \A d \in Of(L) : prop'[d].index = prop[d].index /\ prop'[d].value = prop[d].value
<1>0. /\ Once(L, Cells) /\ Path(prop, table.first, "next", L) /\ Path(prop, table.last, "prev", Reverse(L))
      /\ Of(L) = {d \in Cells : prop[d] # Free} /\ Chained(prop, table, Of(L))
      /\ \A d \in Of(L) : prop[d].index \in Keys /\ prop[d].value \in Vals
      /\ \A d, e \in Of(L) : prop[d].index = prop[e].index => d = e
      /\ \A d \in Of(L) : prop[d].index \in NumKeys => prop[d].index < table.next_index
      /\ prop \in CellsType /\ table.count = Len(L) /\ Len(L) \in Nat
      /\ Listed(prop, table, L)
    BY LenProperties DEF Sound, Listed, Once
<1>1. PICK n \in Nat : table \in TableType(n) /\ (n = 0 => table = NoTable)
    BY DEF Sound, Sized
<1>2. c \in Cells \ Of(L)
    BY <1>0 DEF addTableProperty, Allocated
<1> DEFINE new == [index |-> k, value |-> v, hash_next |-> Nil, prev |-> Nil, next |-> Nil]
           P0 == [prop EXCEPT ![c] = new]
           G == IF Full(table) THEN growHeads(table, P0) ELSE [t |-> table, p |-> P0]
           H == pushHash(G, c)
<1>3. /\ prop' = IF H.t.first = Nil THEN H.p
                 ELSE [H.p EXCEPT ![H.t.last].next = c, ![c].prev = H.t.last]
      /\ table' = [H.t EXCEPT
                 !.first = IF @ = Nil THEN c ELSE @,
                 !.last = c,
                 !.next_index = nextIndex(table, k),
                 !.count = @ + 1]
    BY DEF addTableProperty
<1>4. /\ P0 \in CellsType
      /\ P0[c].index = k /\ P0[c].value = v /\ P0[c].next = Nil /\ P0[c].prev = Nil
      /\ \A d \in Cells : d # c => P0[d] = prop[d]
    <2>1. new \in CellType
        BY DEF CellType, CellOrNil
    <2>2. DOMAIN prop = Cells
        BY <1>0 DEF CellsType
    <2>3. P0 \in CellsType
        BY <2>1, <1>0 DEF CellsType
    <2>4. P0[c] = new
        BY <2>2, <1>2
    <2>5. \A d \in Cells : d # c => P0[d] = prop[d]
        BY <2>2
    <2> HIDE DEF P0
    <2> QED BY <2>3, <2>4, <2>5
<1> HIDE DEF P0
<1>5. \A d \in Of(L) : d \in Cells /\ d # c /\ P0[d] = prop[d]
    BY <1>0, <1>2, <1>4
<1>6. \A j \in 1 .. Len(L) : L[j] \in Of(L)
    BY DEF Of
<1>7. PICK m \in Nat \ {0} :
          /\ G = [t |-> G.t, p |-> G.p]
          /\ G.t \in TableType(m) /\ G.p \in CellsType
          /\ SameTable(table, G.t) /\ SameCells(P0, G.p)
          /\ \A d \in Cells \ Of(L) : G.p[d] = P0[d]
          /\ Chained(G.p, G.t, Of(L))
    <2>1. CASE Full(table)
        <3>1. \A j \in 1 .. Len(L) : P0[L[j]]["next"] = prop[L[j]]["next"]
            BY <1>5, <1>6
        <3>2. Path(P0, table.first, "next", L)
            BY <3>1, <1>0, PathStays
        <3>3. \A d \in Of(L) : P0[d].index \in Keys
            BY <1>0, <1>5
        <3>4. G = growHeads(table, P0)
            BY <2>1
        <3>5. Once(L, Cells) /\ P0 \in CellsType /\ table \in TableType(n)
            BY <1>0, <1>1, <1>4
        <3> HIDE DEF G
        <3>6. PICK m \in Nat \ {0} :
                 /\ G = [t |-> G.t, p |-> G.p]
                 /\ G.t \in TableType(m) /\ G.p \in CellsType
                 /\ SameTable(table, G.t) /\ SameCells(P0, G.p)
                 /\ \A d \in Cells \ Of(L) : G.p[d] = P0[d]
                 /\ Chained(G.p, G.t, Of(L))
            BY ONLY PropTableAssumption, <3>2, <3>3, <3>4, <3>5, GrowIs
        <3> QED BY <3>6
    <2>2. CASE ~Full(table)
        <3>1. n \in Nat \ {0}
            BY <2>2, <1>1, NoHeads DEF Full
        <3>2. G.t = table /\ G.p = P0 /\ G = [t |-> G.t, p |-> G.p]
            BY <2>2
        <3>3. \A d \in Of(L) : P0[d].hash_next = prop[d].hash_next /\ P0[d].index = prop[d].index
            BY <1>5
        <3>4. Chained(P0, table, Of(L))
            BY <3>3, <1>0, ChainedStays
        <3>5. SameTable(table, table) /\ SameCells(P0, P0)
            BY DEF SameTable, SameCells
        <3> HIDE DEF G
        <3> QED BY <3>1, <3>2, <3>4, <3>5, <1>1, <1>4
    <2> QED BY <2>1, <2>2
<1> HIDE DEF G
<1>8. \A d \in Of(L) : G.p[d].index \in Keys
    BY <1>0, <1>5, <1>7 DEF SameCells
<1>9. G.p[c].index = k
    BY <1>2, <1>4, <1>7 DEF SameCells
<1>10. /\ H.t \in TableType(m) /\ H.p \in CellsType
       /\ SameTable(G.t, H.t) /\ SameCells(G.p, H.p)
       /\ \A d \in Cells \ {c} : H.p[d] = G.p[d]
       /\ Chained(H.p, H.t, Of(L) \cup {c})
    <2>1. Of(L) \in SUBSET Cells
        BY <1>0
    <2>2. H = pushHash([t |-> G.t, p |-> G.p], c)
        BY <1>7
    <2> HIDE DEF H
    <2>3. /\ H.t \in TableType(m) /\ H.p \in CellsType
          /\ SameTable(G.t, H.t) /\ SameCells(G.p, H.p)
          /\ Chained(H.p, H.t, Of(L) \cup {c})
        BY <2>1, <2>2, <1>2, <1>7, <1>8, <1>9, PushHashIs
    <2>4. \A d \in Cells \ {c} : H.p[d] = G.p[d]
        BY <2>2, <1>2, <1>7, PushHashOthers
    <2> QED BY <2>3, <2>4
<1> HIDE DEF H
<1>11. PICK T : T = H.t
    OBVIOUS
<1>12. PICK Q : Q = H.p
    OBVIOUS
<1>13. /\ T \in TableType(m) /\ Q \in CellsType /\ Chained(Q, T, Of(L) \cup {c})
       /\ SameTable(table, T) /\ SameCells(P0, Q)
       /\ \A d \in Cells : d # c /\ d \notin Of(L) => Q[d] = P0[d]
    BY <1>7, <1>10, <1>11, <1>12 DEF SameTable, SameCells
<1>14. \A d \in Of(L) : /\ Q[d].index = prop[d].index /\ Q[d].value = prop[d].value
                        /\ Q[d].prev = prop[d].prev /\ Q[d].next = prop[d].next
    BY <1>5, <1>13 DEF SameCells
<1>15. Q[c].index = k /\ Q[c].value = v /\ Q[c].next = Nil /\ Q[c].prev = Nil
    BY <1>2, <1>4, <1>13 DEF SameCells
<1> DEFINE z == table.last
<1>16. IF Len(L) = 0 THEN table.first = Nil /\ z = Nil
       ELSE table.first # Nil /\ table.first = L[1] /\ z = L[Len(L)] /\ z \in Of(L)
    <2>1. CASE Len(L) = 0
        BY <2>1, <1>0, EmptyListed
    <2>2. CASE Len(L) # 0
        <3>1. 1 \in 1 .. Len(L) /\ Len(L) \in 1 .. Len(L)
            BY <2>2, <1>0
        <3>2. table.first = L[1] /\ z = L[Len(L)]
            BY <3>1, <1>0, ListedIs
        <3>3. L[1] \in Cells /\ L[Len(L)] \in Of(L)
            BY <3>1, <1>5, <1>6
        <3> QED BY <2>2, <3>2, <3>3 DEF PropTableAssumption
    <2> QED BY <2>1, <2>2
<1>17. T.first = table.first /\ T.last = z /\ T.count = Len(L) /\ T.next_index = table.next_index
    BY <1>0, <1>13 DEF SameTable
<1>18. /\ prop' \in CellsType
       /\ \A d \in Cells :
             /\ prop'[d].index = Q[d].index /\ prop'[d].value = Q[d].value
             /\ prop'[d].hash_next = Q[d].hash_next
             /\ prop'[d].next = IF Len(L) # 0 /\ d = z THEN c ELSE Q[d].next
             /\ prop'[d].prev = IF d = c THEN z ELSE Q[d].prev
    <2>0. DOMAIN Q = Cells /\ \A d \in Cells : Q[d] \in CellType
        BY <1>13 DEF CellsType
    <2>1. CASE Len(L) = 0
        <3>1. prop' = Q
            BY <2>1, <1>3, <1>11, <1>12, <1>16, <1>17
        <3> QED BY <2>1, <3>1, <1>13, <1>15, <1>16
    <2>2. CASE Len(L) # 0
        <3>1. prop' = [Q EXCEPT ![z].next = c, ![c].prev = z]
            BY <2>2, <1>3, <1>11, <1>12, <1>16, <1>17
        <3>2. z \in Cells /\ z # c /\ c \in Cells
            BY <2>2, <1>2, <1>5, <1>16
        <3> HIDE DEF z
        <3>3. DOMAIN prop' = Cells /\ prop' = [d \in Cells |-> prop'[d]]
            BY <3>1, <2>0
        <3>4. prop'[c] = [Q[c] EXCEPT !.prev = z]
            BY <3>1, <3>2, <2>0
        <3>5. prop'[z] = [Q[z] EXCEPT !.next = c]
            BY <3>1, <3>2, <2>0
        <3>6. \A d \in Cells : d # c /\ d # z => prop'[d] = Q[d]
            BY <3>1, <3>2, <2>0
        <3>7. Q[c] \in CellType /\ Q[z] \in CellType
            BY <3>2, <2>0
        <3>8. prop'[c] \in CellType /\ prop'[z] \in CellType
            BY <3>2, <3>4, <3>5, <3>7 DEF CellType, CellOrNil
        <3>9. prop' \in CellsType
            BY <3>3, <3>6, <3>8, <2>0 DEF CellsType
        <3>10. /\ prop'[c].index = Q[c].index /\ prop'[c].value = Q[c].value
               /\ prop'[c].hash_next = Q[c].hash_next
               /\ prop'[c].next = Q[c].next /\ prop'[c].prev = z
            BY <3>4, <3>7 DEF CellType
        <3>11. /\ prop'[z].index = Q[z].index /\ prop'[z].value = Q[z].value
               /\ prop'[z].hash_next = Q[z].hash_next
               /\ prop'[z].next = c /\ prop'[z].prev = Q[z].prev
            BY <3>5, <3>7 DEF CellType
        <3>12. \A d \in Cells :
                 /\ prop'[d].index = Q[d].index /\ prop'[d].value = Q[d].value
                 /\ prop'[d].hash_next = Q[d].hash_next
                 /\ prop'[d].next = IF d = z THEN c ELSE Q[d].next
                 /\ prop'[d].prev = IF d = c THEN z ELSE Q[d].prev
            BY <3>2, <3>6, <3>10, <3>11
        <3> QED BY <2>2, <3>9, <3>12
    <2> QED BY <2>1, <2>2
<1>19. /\ table'.heads = T.heads /\ table'.first = (IF Len(L) = 0 THEN c ELSE table.first)
       /\ table'.last = c /\ table'.next_index = nextIndex(table, k) /\ table'.count = Len(L) + 1
       /\ table' \in TableType(m)
    <2>1. nextIndex(table, k) \in Nat
        <3>1. table.next_index \in Nat /\ NumKeys \subseteq Nat
            BY <1>1 DEF TableType, PropTableAssumption
        <3>2. k \in NumKeys => k \in Nat
            BY <3>1
        <3>3. CASE k \in NumKeys /\ table.next_index <= k
            BY <3>1, <3>2, <3>3 DEF nextIndex
        <3>4. CASE ~(k \in NumKeys /\ table.next_index <= k)
            BY <3>1, <3>4 DEF nextIndex
        <3> QED BY <3>3, <3>4
    <2>2. table' = [T EXCEPT
                 !.first = IF @ = Nil THEN c ELSE @,
                 !.last = c,
                 !.next_index = nextIndex(table, k),
                 !.count = @ + 1]
        BY <1>3, <1>11
    <2> HIDE DEF nextIndex
    <2>3. /\ table'.heads = T.heads /\ table'.first = (IF T.first = Nil THEN c ELSE T.first)
          /\ table'.last = c /\ table'.next_index = nextIndex(table, k) /\ table'.count = T.count + 1
        BY <2>2, <1>13 DEF TableType
    <2>4. table' \in TableType(m)
        <3>1. /\ T.heads \in [0 .. m - 1 -> CellOrNil] /\ T.count \in Nat
              /\ T.first \in CellOrNil /\ c \in CellOrNil
            BY <1>2, <1>13 DEF TableType, CellOrNil
        <3>2. table' = [heads |-> T.heads, count |-> T.count + 1, next_index |-> nextIndex(table, k),
                        first |-> IF T.first = Nil THEN c ELSE T.first, last |-> c]
            BY <2>2, <1>13 DEF TableType
        <3>3. (IF T.first = Nil THEN c ELSE T.first) \in CellOrNil
            BY <3>1
        <3> QED BY <3>1, <3>2, <3>3, <2>1 DEF TableType
    <2> QED BY <2>3, <2>4, <1>16, <1>17
<1> HIDE DEF z
<1> DEFINE M == Append(L, c)
<1>20. /\ Once(M, Cells) /\ Len(M) = Len(L) + 1 /\ Of(M) = Of(L) \cup {c}
    BY <1>0, <1>2, AppendedIs
<1>21. \A j \in 1 .. Len(L) : L[j] = z <=> Len(L) # 0 /\ j = Len(L)
    <2> TAKE j \in 1 .. Len(L)
    <2>1. Len(L) # 0 /\ Len(L) \in 1 .. Len(L) /\ z = L[Len(L)]
        BY <1>0, <1>16
    <2> QED BY <2>1, <1>0 DEF Once
<1>22. Path(prop', table'.first, "next", M)
    <2>1. prop'[c]["next"] = Nil
        <3>1. ~(Len(L) # 0 /\ c = z)
            BY <1>2, <1>16
        <3> QED BY <3>1, <1>2, <1>15, <1>18
    <2>2. \A j \in 1 .. Len(L) : prop'[L[j]]["next"] = IF j = Len(L) THEN c ELSE prop[L[j]]["next"]
        <3> TAKE j \in 1 .. Len(L)
        <3>1. L[j] \in Cells /\ L[j] \in Of(L)
            BY <1>5, <1>6
        <3>2. prop'[L[j]].next = IF j = Len(L) THEN c ELSE Q[L[j]].next
            BY <3>1, <1>18, <1>21
        <3> QED BY <3>1, <3>2, <1>14
    <2>3. c \in Cells /\ c \notin Of(L)
        BY <1>2
    <2>4. Path(prop', IF Len(L) = 0 THEN c ELSE table.first, "next", M)
        BY <2>1, <2>2, <2>3, <1>0, PathAppend
    <2> QED BY <2>4, <1>19
<1>23. Path(prop', table'.last, "prev", Reverse(M))
    <2> DEFINE r == Reverse(L)
    <2>1. Reverse(M) = <<c>> \o r
        BY <1>0, <1>2, ReverseAppended
    <2>2. Once(r, Cells) /\ Of(r) = Of(L)
        BY <1>0, ReversedIs
    <2>3. Path(prop, z, "prev", r)
        BY <1>0 DEF z
    <2> HIDE DEF r
    <2>4. \A j \in 1 .. Len(r) : r[j] \in Of(L)
        BY <2>2 DEF Of
    <2>5. \A j \in 1 .. Len(r) : prop'[r[j]]["prev"] = prop[r[j]]["prev"]
        <3> TAKE j \in 1 .. Len(r)
        <3>1. r[j] \in Of(L) /\ r[j] \in Cells /\ r[j] # c
            BY <2>4, <1>5
        <3> QED BY <3>1, <1>14, <1>18
    <2>6. prop'[c]["prev"] = z /\ c \in Cells /\ c \notin Of(r)
        BY <2>2, <1>2, <1>18
    <2>7. Path(prop', c, "prev", <<c>> \o r)
        BY <2>2, <2>3, <2>5, <2>6, PathPush
    <2> QED BY <2>1, <2>7, <1>19
<1>24. Chained(prop', table', Of(M))
    <2>1. \A d \in Of(L) \cup {c} : prop'[d].hash_next = Q[d].hash_next /\ prop'[d].index = Q[d].index
        BY <1>2, <1>5, <1>18
    <2>2. table'.heads = T.heads
        BY <1>19
    <2> QED BY <2>1, <2>2, <1>13, <1>20, ChainedStays
<1>25. /\ prop'[c].index = k /\ prop'[c].value = v
       /\ \A d \in Of(L) : prop'[d].index = prop[d].index /\ prop'[d].value = prop[d].value
    BY <1>2, <1>5, <1>14, <1>15, <1>18
<1>27. \A d, e \in Of(M) : prop'[d].index = prop'[e].index => d = e
    <2>1. \A d \in Of(L) : prop'[d].index # k
        BY <1>25
    <2> QED BY <2>1, <1>0, <1>20, <1>25
<1>28. \A d \in Of(M) : prop'[d].index \in NumKeys => prop'[d].index < table'.next_index
    <2>0. table.next_index \in Nat /\ NumKeys \subseteq Nat
        BY <1>1 DEF TableType, PropTableAssumption
    <2>1. table'.next_index = nextIndex(table, k)
        BY <1>19
    <2>2. k \in NumKeys => k < nextIndex(table, k)
        <3> SUFFICES ASSUME k \in NumKeys PROVE k < nextIndex(table, k)
            OBVIOUS
        <3>1. k \in Nat
            BY <2>0
        <3>2. CASE table.next_index <= k
            <4>1. nextIndex(table, k) = k + 1
                BY <3>2 DEF nextIndex
            <4> QED BY <4>1, <3>1
        <3>3. CASE ~(table.next_index <= k)
            <4>1. nextIndex(table, k) = table.next_index
                BY <3>3 DEF nextIndex
            <4> QED BY <4>1, <3>1, <3>3, <2>0
        <3> QED BY <3>2, <3>3
    <2>3. \A y \in NumKeys : y < table.next_index => y < nextIndex(table, k)
        <3> TAKE y \in NumKeys
        <3>1. y \in Nat
            BY <2>0
        <3>2. CASE k \in NumKeys /\ table.next_index <= k
            <4>1. nextIndex(table, k) = k + 1 /\ k \in Nat
                BY <3>2, <2>0 DEF nextIndex
            <4> QED BY <4>1, <3>1, <3>2, <2>0
        <3>3. CASE ~(k \in NumKeys /\ table.next_index <= k)
            <4>1. nextIndex(table, k) = table.next_index
                BY <3>3 DEF nextIndex
            <4> QED BY <4>1
        <3> QED BY <3>2, <3>3
    <2> QED BY <2>1, <2>2, <2>3, <1>0, <1>20, <1>25
<1>29. \A d \in Of(M) : prop'[d].index \in Keys /\ prop'[d].value \in Vals
    BY <1>0, <1>20, <1>25
<1>26. Of(M) = {d \in Cells : prop'[d] # Free}
    <2>1. \A d \in Of(L) \cup {c} : d \in Cells /\ prop'[d].index \in Keys
        BY <1>0, <1>2, <1>25
    <2>2. \A d \in Of(L) \cup {c} : d \in Cells /\ prop'[d] # Free
        BY <2>1 DEF Free, PropTableAssumption
    <2>3. ASSUME NEW d \in Cells, d \notin Of(L), d # c PROVE prop'[d] = Free
        <3>1. P0[d] = Free
            BY <2>3, <1>0, <1>4
        <3>2. d # z \/ Len(L) = 0
            BY <2>3, <1>16
        <3>3. prop'[d].index = Q[d].index /\ prop'[d].value = Q[d].value /\ prop'[d].hash_next = Q[d].hash_next
              /\ prop'[d].next = Q[d].next /\ prop'[d].prev = Q[d].prev
            BY <2>3, <3>2, <1>18
        <3>4. Q[d] = Free
            BY <2>3, <3>1, <1>13
        <3>5. prop'[d] \in CellType
            BY <1>18 DEF CellsType
        <3> QED BY <3>3, <3>4, <3>5 DEF Free, CellType
    <2> QED BY <2>2, <2>3, <1>20
<1>30. Sized(table') /\ Listed(prop', table', M) /\ table'.count = Len(M)
    BY <1>19, <1>20, <1>22, <1>23 DEF Sized, Listed
<1>31. Sound(table', prop', M)
    BY <1>18, <1>24, <1>26, <1>27, <1>28, <1>29, <1>30 DEF Sound
<1> QED BY <1>2, <1>25, <1>31

\* What deleteCell does to the table and the properties
LEMMA DeleteIs ==
    ASSUME PropTableAssumption, NEW m \in Nat \ {0}, table \in TableType(m), prop \in CellsType,
           NEW c \in Cells, deleteCell(c), table.count \in Nat \ {0},
           NEW s \in 0 .. m - 1, s = Slot(table, prop[c].index),
           NEW chain, chain = Chain(table, prop, s), Once(chain, Cells),
           NEW q \in 1 .. Len(chain), chain[q] = c,
           NEW n, n = prop[c].next, NEW b, b = prop[c].prev
    PROVE  /\ table' \in TableType(m)
           /\ table'.first = (IF table.first = c THEN n ELSE table.first)
           /\ table'.last = (IF table.last = c THEN b ELSE table.last)
           /\ table'.heads = [table.heads EXCEPT ![s] =
                 IF q = 1 THEN prop[c].hash_next ELSE table.heads[s]]
           /\ table'.count = table.count - 1 /\ table'.next_index = table.next_index
           /\ prop' \in CellsType /\ prop'[c] = Free
           /\ \A d \in Cells \ {c} :
                 /\ prop'[d].index = prop[d].index /\ prop'[d].value = prop[d].value
                 /\ prop'[d].next = (IF d = b THEN n ELSE prop[d].next)
                 /\ prop'[d].prev = (IF d = n THEN b ELSE prop[d].prev)
                 /\ prop'[d].hash_next = (IF q > 1 /\ d = chain[q - 1] THEN prop[c].hash_next
                                          ELSE prop[d].hash_next)
                 /\ d # b /\ d # n /\ ~(q > 1 /\ d = chain[q - 1]) => prop'[d] = prop[d]
           /\ moveIterators(c) /\ iterators' = iterators
<1>1. DOMAIN chain = 1 .. Len(chain) /\ Len(chain) \in Nat
    BY LenProperties DEF Once
<1>2. (CHOOSE j \in DOMAIN chain : chain[j] = c) = q
    <2>1. \A j \in DOMAIN chain : chain[j] = c => j = q
        BY <1>1 DEF Once
    <2>2. \E j \in DOMAIN chain : chain[j] = c
        BY <1>1
    <2> QED BY <2>1, <2>2
<1>3. /\ table' = [table EXCEPT
              !.first = IF @ = c THEN n ELSE @,
              !.last = IF @ = c THEN b ELSE @,
              !.heads[s] = IF q = 1 THEN prop[c].hash_next ELSE @,
              !.count = @ - 1]
      /\ prop' = [x \in Cells |->
              IF x = c THEN Free
              ELSE [prop[x] EXCEPT
                      !.next = IF x = b THEN n ELSE @,
                      !.prev = IF x = n THEN b ELSE @,
                      !.hash_next = IF q > 1 /\ x = chain[q - 1]
                                    THEN prop[c].hash_next ELSE @]]
      /\ moveIterators(c) /\ iterators' = iterators
    BY <1>2 DEF deleteCell
<1>4. DOMAIN prop = Cells /\ \A d \in Cells : prop[d] \in CellType
    BY DEF CellsType
<1>5. n \in CellOrNil /\ b \in CellOrNil /\ prop[c].hash_next \in CellOrNil
    BY <1>4 DEF CellType
<1>6. prop'[c] = Free /\ Free \in CellType
    BY <1>3 DEF Free, CellType, CellOrNil
<1>7. ASSUME NEW d \in Cells \ {c}
      PROVE  /\ prop'[d] \in CellType
             /\ prop'[d].index = prop[d].index /\ prop'[d].value = prop[d].value
             /\ prop'[d].next = (IF d = b THEN n ELSE prop[d].next)
             /\ prop'[d].prev = (IF d = n THEN b ELSE prop[d].prev)
             /\ prop'[d].hash_next = (IF q > 1 /\ d = chain[q - 1] THEN prop[c].hash_next
                                      ELSE prop[d].hash_next)
             /\ d # b /\ d # n /\ ~(q > 1 /\ d = chain[q - 1]) => prop'[d] = prop[d]
    <2>1. prop'[d] = [prop[d] EXCEPT
                      !.next = IF d = b THEN n ELSE @,
                      !.prev = IF d = n THEN b ELSE @,
                      !.hash_next = IF q > 1 /\ d = chain[q - 1]
                                    THEN prop[c].hash_next ELSE @]
        BY <1>3
    <2>2. prop[d] \in CellType
        BY <1>4
    <2>3. prop'[d] = [index |-> prop[d].index, value |-> prop[d].value,
                      hash_next |-> IF q > 1 /\ d = chain[q - 1] THEN prop[c].hash_next
                                    ELSE prop[d].hash_next,
                      prev |-> IF d = n THEN b ELSE prop[d].prev,
                      next |-> IF d = b THEN n ELSE prop[d].next]
        BY <2>1, <2>2 DEF CellType
    <2>4. prop[d] = [index |-> prop[d].index, value |-> prop[d].value,
                      hash_next |-> prop[d].hash_next, prev |-> prop[d].prev, next |-> prop[d].next]
        BY <2>2 DEF CellType
    <2>5. prop'[d] \in CellType
        BY <2>2, <2>3, <1>5 DEF CellType
    <2> QED BY <2>3, <2>4, <2>5
<1>8. prop' \in CellsType
    <2>1. prop' = [d \in Cells |-> prop'[d]]
        BY <1>3
    <2>2. \A d \in Cells : prop'[d] \in CellType
        BY <1>6, <1>7
    <2> QED BY <2>1, <2>2 DEF CellsType
<1>9. DOMAIN table.heads = 0 .. m - 1 /\ table.heads \in [0 .. m - 1 -> CellOrNil]
    BY HeadsAre DEF TableType
<1>10. /\ table'.first = (IF table.first = c THEN n ELSE table.first)
       /\ table'.last = (IF table.last = c THEN b ELSE table.last)
       /\ table'.heads = [table.heads EXCEPT ![s] =
             IF q = 1 THEN prop[c].hash_next ELSE table.heads[s]]
       /\ table'.count = table.count - 1 /\ table'.next_index = table.next_index
    BY <1>3 DEF TableType
<1>11. table' \in TableType(m)
    <2> DEFINE h == [table.heads EXCEPT ![s] = IF q = 1 THEN prop[c].hash_next ELSE table.heads[s]]
    <2>1. h \in [0 .. m - 1 -> CellOrNil]
        BY <1>5, <1>9
    <2>2. table' = [heads |-> h, count |-> table.count - 1, next_index |-> table.next_index,
                    first |-> IF table.first = c THEN n ELSE table.first,
                    last |-> IF table.last = c THEN b ELSE table.last]
        BY <1>3 DEF TableType
    <2> HIDE DEF h
    <2>3. table.first \in CellOrNil /\ table.last \in CellOrNil /\ table.next_index \in Nat
        BY DEF TableType
    <2>4. table.count - 1 \in Nat
        OBVIOUS
    <2> QED BY <2>1, <2>2, <2>3, <2>4, <1>5 DEF TableType
<1> QED BY <1>3, <1>6, <1>7, <1>8, <1>10, <1>11

LEMMA DeleteKeepsSound ==
    ASSUME PropTableAssumption, NEW L, Sound(table, prop, L),
           NEW k \in 1 .. Len(L), deleteCell(L[k])
    PROVE  /\ Sound(table', prop', RemoveAt(L, k)) /\ table' # NoTable
           /\ \A d \in Cells \ {L[k]} :
                 prop'[d].index = prop[d].index /\ prop'[d].value = prop[d].value
           /\ moveIterators(L[k]) /\ iterators' = iterators
<1>0. /\ Once(L, Cells) /\ Path(prop, table.first, "next", L) /\ Path(prop, table.last, "prev", Reverse(L))
      /\ Of(L) = {d \in Cells : prop[d] # Free} /\ Chained(prop, table, Of(L))
      /\ \A d \in Of(L) : prop[d].index \in Keys /\ prop[d].value \in Vals
      /\ \A d, e \in Of(L) : prop[d].index = prop[e].index => d = e
      /\ \A d \in Of(L) : prop[d].index \in NumKeys => prop[d].index < table.next_index
      /\ prop \in CellsType /\ table.count = Len(L) /\ Len(L) \in Nat
      /\ Listed(prop, table, L)
    BY LenProperties DEF Sound, Listed, Once
<1>1. PICK m \in Nat \ {0} : table \in TableType(m)
    <2>1. PICK m \in Nat : table \in TableType(m) /\ (m = 0 => table = NoTable)
        BY DEF Sound, Sized
    <2>2. m # 0
        BY <2>1, NoSlots
    <2> QED BY <2>1, <2>2
<1>2. PICK c : c = L[k]
    OBVIOUS
<1>3. c \in Of(L) /\ c \in Cells /\ prop[c].index \in Keys
    <2>1. c \in Of(L)
        BY <1>2 DEF Of
    <2> QED BY <2>1, <1>0
<1>4. PICK s \in 0 .. m - 1 : s = Slot(table, prop[c].index)
    BY <1>1, <1>3, SlotIs
<1>5. PICK chain : chain = Chain(table, prop, s)
    OBVIOUS
<1>6. /\ Once(chain, Cells) /\ Path(prop, table.heads[s], "hash_next", chain)
      /\ Of(chain) = {d \in Of(L) : Slot(table, prop[d].index) = s}
    BY <1>0, <1>1, <1>5, ChainIs
<1>7. PICK q \in 1 .. Len(chain) : chain[q] = c
    <2>1. c \in Of(chain)
        BY <1>3, <1>4, <1>6
    <2> QED BY <2>1 DEF Of
<1>8. PICK n : n = prop[c].next
    OBVIOUS
<1>9. PICK b : b = prop[c].prev
    OBVIOUS
<1>10. /\ n = IF k = Len(L) THEN Nil ELSE L[k + 1]
       /\ b = IF k = 1 THEN Nil ELSE L[k - 1]
       /\ table.first = L[1] /\ table.last = L[Len(L)]
    BY <1>0, <1>2, <1>8, <1>9, ListedIs
<1>11. /\ table' \in TableType(m)
       /\ table'.first = (IF table.first = c THEN n ELSE table.first)
       /\ table'.last = (IF table.last = c THEN b ELSE table.last)
       /\ table'.heads = [table.heads EXCEPT ![s] =
             IF q = 1 THEN prop[c].hash_next ELSE table.heads[s]]
       /\ table'.count = table.count - 1 /\ table'.next_index = table.next_index
       /\ prop' \in CellsType /\ prop'[c] = Free
       /\ \A d \in Cells \ {c} :
             /\ prop'[d].index = prop[d].index /\ prop'[d].value = prop[d].value
             /\ prop'[d].next = (IF d = b THEN n ELSE prop[d].next)
             /\ prop'[d].prev = (IF d = n THEN b ELSE prop[d].prev)
             /\ prop'[d].hash_next = (IF q > 1 /\ d = chain[q - 1] THEN prop[c].hash_next
                                      ELSE prop[d].hash_next)
             /\ d # b /\ d # n /\ ~(q > 1 /\ d = chain[q - 1]) => prop'[d] = prop[d]
       /\ moveIterators(c) /\ iterators' = iterators
    <2>1. deleteCell(c) /\ table.count \in Nat \ {0}
        BY <1>0, <1>2
    <2> QED BY <2>1, <1>0, <1>1, <1>3, <1>4, <1>5, <1>6, <1>7, <1>8, <1>9, DeleteIs
<1>12. /\ \A j \in 1 .. Len(L) : L[j] \in Of(L) /\ L[j] \in Cells
       /\ \A j \in 1 .. Len(L) : L[j] = c <=> j = k
    <2>1. \A j \in 1 .. Len(L) : L[j] \in Of(L) /\ L[j] \in Cells
        BY <1>0 DEF Of
    <2> QED BY <2>1, <1>0, <1>2 DEF Once
<1>13. PICK M : M = RemoveAt(L, k)
    OBVIOUS
<1>14. Once(M, Cells) /\ Len(M) = Len(L) - 1 /\ Of(M) = Of(L) \ {c}
    BY <1>0, <1>2, <1>13, RemovedIs
\* the list from first to last
<1>15. Path(prop', table'.first, "next", M)
    <2>1. ASSUME NEW j \in 1 .. Len(L), j # k
          PROVE  prop'[L[j]]["next"] = IF j = k - 1 THEN prop[L[k]]["next"] ELSE prop[L[j]]["next"]
        <3>1. L[j] \in Cells \ {c}
            BY <2>1, <1>12
        <3>2. L[j] = b <=> j = k - 1
            <4>1. CASE k = 1
                <5>1. b = Nil /\ j # k - 1 /\ L[j] # Nil
                    BY <4>1, <3>1, <1>10 DEF PropTableAssumption
                <5> QED BY <5>1
            <4>2. CASE k # 1
                <5>1. k - 1 \in 1 .. Len(L) /\ b = L[k - 1]
                    BY <4>2, <1>0, <1>10
                <5> QED BY <5>1, <1>0 DEF Once
            <4> QED BY <4>1, <4>2
        <3> QED BY <3>1, <3>2, <1>2, <1>8, <1>11
    <2>2. Path(prop', IF k = 1 THEN prop[L[k]]["next"] ELSE table.first, "next", M)
        BY <2>1, <1>0, <1>13, PathRemove
    <2>3. table.first = c <=> k = 1
        <3>1. 1 \in 1 .. Len(L)
            BY <1>0
        <3> QED BY <3>1, <1>10, <1>12
    <2>4. table'.first = IF k = 1 THEN prop[L[k]]["next"] ELSE table.first
        BY <2>3, <1>2, <1>8, <1>11
    <2> QED BY <2>2, <2>4
\* and from last to first
<1>16. Path(prop', table'.last, "prev", Reverse(M))
    <2>1. PICK r : r = Reverse(L)
        OBVIOUS
    <2>2. PICK i : i = Len(L) - k + 1
        OBVIOUS
    <2>3. /\ Once(r, Cells) /\ Len(r) = Len(L) /\ Of(r) = Of(L)
          /\ \A j \in 1 .. Len(L) : r[j] = L[Len(L) - j + 1]
          /\ Path(prop, table.last, "prev", r)
        BY <2>1, <1>0, ReversedIs
    <2>4. i \in 1 .. Len(r) /\ r[i] = c
        <3>1. i \in 1 .. Len(L) /\ Len(L) - i + 1 = k
            BY <2>2, <1>0
        <3> QED BY <3>1, <2>3, <1>2
    <2>5. Reverse(M) = RemoveAt(r, i)
        BY <2>1, <2>2, <1>0, <1>13, ReverseRemoved
    <2>6. ASSUME NEW j \in 1 .. Len(r), j # i
          PROVE  prop'[r[j]]["prev"] = IF j = i - 1 THEN prop[r[i]]["prev"] ELSE prop[r[j]]["prev"]
        <3>1. r[j] \in Cells \ {c}
            <4>1. r[j] \in Of(r)
                BY DEF Of
            <4>2. r[j] # c
                BY <2>3, <2>4, <2>6 DEF Once
            <4> QED BY <4>1, <4>2, <2>3, <1>0
        <3>2. r[j] = n <=> j = i - 1
            <4>1. CASE k = Len(L)
                <5>1. n = Nil /\ j # i - 1 /\ r[j] # Nil
                    BY <4>1, <3>1, <2>2, <1>0, <1>10 DEF PropTableAssumption
                <5> QED BY <5>1
            <4>2. CASE k # Len(L)
                <5>1. i - 1 \in 1 .. Len(L) /\ Len(L) - (i - 1) + 1 = k + 1
                    BY <4>2, <2>2, <1>0
                <5>2. n = r[i - 1] /\ i - 1 \in 1 .. Len(r)
                    BY <5>1, <4>2, <2>3, <1>10
                <5> QED BY <5>2, <2>3 DEF Once
            <4> QED BY <4>1, <4>2
        <3> QED BY <3>1, <3>2, <2>4, <1>9, <1>11
    <2>7. Path(prop', IF i = 1 THEN prop[r[i]]["prev"] ELSE table.last, "prev", RemoveAt(r, i))
        BY <2>3, <2>4, <2>6, PathRemove
    <2>8. table.last = c <=> i = 1
        <3>1. Len(L) \in 1 .. Len(L) /\ (i = 1 <=> k = Len(L))
            BY <2>2, <1>0
        <3> QED BY <3>1, <1>10, <1>12
    <2>9. table'.last = IF i = 1 THEN prop[r[i]]["prev"] ELSE table.last
        BY <2>4, <2>8, <1>9, <1>11
    <2> QED BY <2>5, <2>7, <2>9
\* the chains
<1>17. Chained(prop', table', Of(M))
    <2>1. PICK ch \in [DOMAIN table.heads -> Seq(Cells)] : \A i \in DOMAIN table.heads :
            /\ Once(ch[i], Cells)
            /\ Path(prop, table.heads[i], "hash_next", ch[i])
            /\ Of(ch[i]) = {d \in Of(L) : Slot(table, prop[d].index) = i}
        BY <1>0 DEF Chained
    <2>2. DOMAIN table.heads = 0 .. m - 1 /\ DOMAIN table'.heads = 0 .. m - 1
        BY <1>1, <1>11, HeadsAre
    <2>3. \A d \in Of(M) : Slot(table', prop'[d].index) = Slot(table, prop[d].index)
        <3>1. \A y \in Keys : Slot(table', y) = Slot(table, y)
            BY <1>1, <1>11, SlotIs
        <3>2. \A d \in Of(M) : prop'[d].index = prop[d].index /\ prop[d].index \in Keys
            BY <1>0, <1>11, <1>14
        <3> QED BY <3>1, <3>2
    <2> DEFINE cg == [i \in 0 .. m - 1 |-> IF i = s THEN RemoveAt(chain, q) ELSE ch[i]]
    <2>4. ASSUME NEW i \in 0 .. m - 1
          PROVE  /\ cg[i] \in Seq(Cells) /\ Once(cg[i], Cells)
                 /\ Path(prop', table'.heads[i], "hash_next", cg[i])
                 /\ Of(cg[i]) = {d \in Of(M) : Slot(table', prop'[d].index) = i}
        <3>1. CASE i = s
            <4>1. PICK r : r = RemoveAt(chain, q)
                OBVIOUS
            <4>2. Once(r, Cells) /\ Of(r) = Of(chain) \ {c} /\ cg[i] = r
                <5>1. cg[i] = r
                    BY <4>1, <3>1
                <5> HIDE DEF cg
                <5>2. Once(r, Cells) /\ Of(r) = Of(chain) \ {chain[q]}
                    BY <4>1, <1>6, RemovedIs
                <5> QED BY <5>1, <5>2, <1>7
            <4>3. ASSUME NEW j \in 1 .. Len(chain), j # q
                  PROVE  prop'[chain[j]]["hash_next"] =
                            IF j = q - 1 THEN prop[chain[q]]["hash_next"] ELSE prop[chain[j]]["hash_next"]
                <5>1. chain[j] \in Cells \ {c}
                    <6>1. chain[j] \in Of(chain)
                        BY DEF Of
                    <6>2. chain[j] # c
                        BY <4>3, <1>6, <1>7 DEF Once
                    <6> QED BY <6>1, <6>2, <1>0, <1>6
                <5>2. q > 1 /\ chain[j] = chain[q - 1] <=> j = q - 1
                    <6>0. Len(chain) \in Nat
                        BY <1>6, LenProperties DEF Once
                    <6>1. q > 1 => q - 1 \in 1 .. Len(chain)
                        BY <6>0
                    <6>2. j = q - 1 => q > 1
                        BY <6>0
                    <6> QED BY <6>1, <6>2, <1>6 DEF Once
                <5> QED BY <5>1, <5>2, <1>7, <1>11
            <4>4. Path(prop', IF q = 1 THEN prop[chain[q]]["hash_next"] ELSE table.heads[s], "hash_next", r)
                BY <4>1, <4>3, <1>6, PathRemove
            <4>5. table'.heads[i] = IF q = 1 THEN prop[chain[q]]["hash_next"] ELSE table.heads[s]
                BY <3>1, <2>2, <1>7, <1>11
            <4>6. Of(r) = {d \in Of(M) : Slot(table', prop'[d].index) = i}
                BY <4>2, <3>1, <2>3, <1>6, <1>14
            <4> QED BY <4>2, <4>4, <4>5, <4>6 DEF Once
        <3>2. CASE i # s
            <4>1. cg[i] = ch[i] /\ table'.heads[i] = table.heads[i] /\ i \in DOMAIN table.heads
                BY <3>2, <2>2, <1>11
            <4>2. /\ Once(ch[i], Cells) /\ Path(prop, table.heads[i], "hash_next", ch[i])
                  /\ Of(ch[i]) = {d \in Of(L) : Slot(table, prop[d].index) = i}
                BY <4>1, <2>1
            <4>3. \A d \in Of(ch[i]) : d \in Cells /\ d # c /\ d \notin Of(chain)
                <5>1. ASSUME NEW d \in Of(ch[i]) PROVE d \in Of(L) /\ Slot(table, prop[d].index) = i
                    BY <4>2
                <5>2. ASSUME NEW d \in Of(chain) PROVE Slot(table, prop[d].index) = s
                    BY <1>6
                <5>3. c \in Of(chain)
                    BY <1>7 DEF Of
                <5> QED BY <5>1, <5>2, <5>3, <3>2, <1>0
            <4>4. \A j \in 1 .. Len(chain) : chain[j] \in Of(chain)
                BY DEF Of
            <4>5. \A d \in Of(ch[i]) : d \in Cells \ {c} /\ ~(q > 1 /\ d = chain[q - 1])
                <5>1. q > 1 => q - 1 \in 1 .. Len(chain)
                    BY <1>6, LenProperties DEF Once
                <5> QED BY <5>1, <4>3, <4>4
            <4>6. \A j \in 1 .. Len(ch[i]) : prop'[ch[i][j]]["hash_next"] = prop[ch[i][j]]["hash_next"]
                <5>1. \A j \in 1 .. Len(ch[i]) : ch[i][j] \in Of(ch[i])
                    BY DEF Of
                <5> QED BY <5>1, <4>5, <1>11
            <4>7. Path(prop', table'.heads[i], "hash_next", ch[i])
                BY <4>1, <4>2, <4>6, PathStays
            <4>8. Of(ch[i]) = {d \in Of(M) : Slot(table', prop'[d].index) = i}
                BY <4>2, <4>3, <2>3, <1>14
            <4> QED BY <4>1, <4>2, <4>7, <4>8 DEF Once
        <3> QED BY <3>1, <3>2
    <2>5. cg \in [DOMAIN table'.heads -> Seq(Cells)]
        <3> HIDE DEF cg
        <3>1. cg \in [0 .. m - 1 -> Seq(Cells)]
            BY <2>4 DEF cg
        <3> QED BY <3>1, <2>2
    <2> HIDE DEF cg
    <2> QED BY <2>2, <2>4, <2>5 DEF Chained
<1>18. Of(M) = {d \in Cells : prop'[d] # Free}
    <2>1. \A d \in Of(M) : prop'[d].index \in Keys
        BY <1>0, <1>11, <1>14
    <2>2. \A d \in Of(M) : d \in Cells /\ prop'[d] # Free
        BY <2>1, <1>0, <1>14 DEF Free, PropTableAssumption
    <2>3. ASSUME NEW d \in Cells, d \notin Of(M) PROVE prop'[d] = Free
        <3>1. CASE d = c
            BY <3>1, <1>11
        <3>2. CASE d # c
            <4>1. d \notin Of(L) /\ prop[d] = Free
                BY <3>2, <2>3, <1>0, <1>14
            <4>2. d # b /\ d # n
                <5>1. k # 1 => k - 1 \in 1 .. Len(L)
                    BY <1>0
                <5>2. k # Len(L) => k + 1 \in 1 .. Len(L)
                    BY <1>0
                <5> QED BY <5>1, <5>2, <4>1, <1>10, <1>12 DEF PropTableAssumption
            <4>3. ~(q > 1 /\ d = chain[q - 1])
                <5>1. q > 1 => q - 1 \in 1 .. Len(chain)
                    BY <1>6, LenProperties DEF Once
                <5>2. \A j \in 1 .. Len(chain) : chain[j] \in Of(chain)
                    BY DEF Of
                <5> QED BY <5>1, <5>2, <4>1, <1>6
            <4> QED BY <4>1, <4>2, <4>3, <3>2, <1>11
        <3> QED BY <3>1, <3>2
    <2> QED BY <2>2, <2>3, <1>0, <1>14
<1>19. /\ \A d \in Of(M) : prop'[d].index \in Keys /\ prop'[d].value \in Vals
       /\ \A d, e \in Of(M) : prop'[d].index = prop'[e].index => d = e
       /\ \A d \in Of(M) : prop'[d].index \in NumKeys => prop'[d].index < table'.next_index
    <2>1. \A d \in Of(M) : d \in Of(L) /\ prop'[d].index = prop[d].index /\ prop'[d].value = prop[d].value
        BY <1>0, <1>11, <1>14
    <2>2. table'.next_index = table.next_index
        BY <1>11
    <2> QED BY <2>1, <2>2, <1>0
<1>20. table' # NoTable /\ Sized(table')
    <2>1. table'.heads # << >>
        BY <1>11, NoHeads
    <2> QED BY <2>1, <1>11 DEF Sized, NoTable
<1>21. Sound(table', prop', M)
    <2>1. Listed(prop', table', M)
        BY <1>14, <1>15, <1>16 DEF Listed
    <2>2. table'.count = Len(M)
        BY <1>0, <1>11, <1>14
    <2> QED BY <2>1, <2>2, <1>11, <1>17, <1>18, <1>19, <1>20 DEF Sound
<1> QED BY <1>2, <1>11, <1>13, <1>20, <1>21

LEMMA ArrangedIs ==
    ASSUME NEW S, IsFiniteSet(S), NEW q \in SetToSeqs(S)
    PROVE  Once(q, S) /\ Of(q) = S
<1> DEFINE D == 1 .. Cardinality(S)
<1>1. Cardinality(S) \in Nat
    BY FS_CardinalityType
<1>2. q \in [D -> S] /\ \A i, j \in D : i # j => q[i] # q[j]
    BY DEF SetToSeqs
<1>3. q \in Seq(S) /\ Len(q) = Cardinality(S)
    BY <1>1, <1>2, SeqIs
<1>4. Once(q, S)
    BY <1>2, <1>3 DEF Once
<1>5. Cardinality(Of(q)) = Cardinality(S)
    BY <1>3, <1>4, OnceIsShort
<1>6. Of(q) \in SUBSET S
    BY <1>2, <1>3 DEF Of
<1>7. Of(q) = S
    BY <1>5, <1>6, FS_Subset
<1> QED BY <1>4, <1>7

\* A list from the pointers of its properties
LEMMA ListedFrom ==
    ASSUME NEW P, NEW T, NEW L, Once(L, Cells), Len(L) # 0,
           T.first = L[1], T.last = L[Len(L)],
           \A j \in 1 .. Len(L) : /\ P[L[j]].next = IF j = Len(L) THEN Nil ELSE L[j + 1]
                                  /\ P[L[j]].prev = IF j = 1 THEN Nil ELSE L[j - 1]
    PROVE  Listed(P, T, L)
<1>1. Len(L) \in Nat
    BY LenProperties DEF Once
<1>2. Path(P, T.first, "next", L)
    BY DEF Path
<1>3. PICK r : r = Reverse(L)
    OBVIOUS
<1>4. Len(r) = Len(L) /\ \A n \in 1 .. Len(L) : r[n] = L[Len(L) - n + 1]
    BY <1>3, ReversedIs
<1>5. T.last = r[1]
    <2>1. 1 \in 1 .. Len(L) /\ Len(L) - 1 + 1 = Len(L)
        BY <1>1
    <2> QED BY <2>1, <1>4
<1>6. ASSUME NEW j \in 1 .. Len(r)
      PROVE  P[r[j]]["prev"] = IF j = Len(r) THEN Nil ELSE r[j + 1]
    <2>1. PICK i : i = Len(L) - j + 1
        OBVIOUS
    <2>2. i \in 1 .. Len(L) /\ r[j] = L[i]
        <3>1. j \in 1 .. Len(L)
            BY <1>4
        <3>2. i \in 1 .. Len(L)
            BY <3>1, <2>1, <1>1
        <3> QED BY <3>1, <3>2, <2>1, <1>4
    <2>3. CASE j = Len(r)
        <3>1. i = 1
            BY <2>1, <2>3, <1>1, <1>4
        <3> QED BY <3>1, <2>2, <2>3
    <2>4. CASE j # Len(r)
        <3>1. j + 1 \in 1 .. Len(L) /\ Len(L) - (j + 1) + 1 = i - 1 /\ i # 1
            BY <2>1, <2>4, <1>1, <1>4
        <3>2. r[j + 1] = L[i - 1]
            BY <3>1, <1>4
        <3> QED BY <3>1, <3>2, <2>2, <2>4
    <2> QED BY <2>3, <2>4
<1>7. Path(P, T.last, "prev", r)
    BY <1>4, <1>5, <1>6 DEF Path
<1> QED BY <1>2, <1>3, <1>7 DEF Listed

\* sortTable lists the same properties in another order.
LEMMA SortKeepsSound ==
    ASSUME PropTableAssumption, NEW L, Sound(table, prop, L), sortTable
    PROVE  /\ \E M : Sound(table', prop', M) /\ Of(M) = Of(L)
           /\ table' # NoTable
           /\ \A d \in Cells : prop'[d].index = prop[d].index /\ prop'[d].value = prop[d].value
           /\ iterators' = iterators /\ iter' = iter
<1>0. /\ Once(L, Cells) /\ Chained(prop, table, Of(L))
      /\ Of(L) = {d \in Cells : prop[d] # Free}
      /\ \A d \in Of(L) : prop[d].index \in Keys /\ prop[d].value \in Vals
      /\ \A d, e \in Of(L) : prop[d].index = prop[e].index => d = e
      /\ \A d \in Of(L) : prop[d].index \in NumKeys => prop[d].index < table.next_index
      /\ prop \in CellsType /\ table.count = Len(L) /\ Len(L) \in Nat
    BY LenProperties DEF Sound, Listed, Once
<1>1. Allocated = Of(L) /\ Of(L) \in SUBSET Cells
    BY <1>0 DEF Allocated
<1>2. IsFiniteSet(Of(L)) /\ Cardinality(Of(L)) = Len(L)
    BY <1>0, OnceIsShort DEF PropTableAssumption
<1> DEFINE at(M, c) == CHOOSE j \in 1 .. Len(M) : M[j] = c
<1>30. PICK M \in SetToSeqs(Allocated) :
          /\ prop' = [c \in Cells |->
                    IF c \notin Allocated THEN Free
                    ELSE [prop[c] EXCEPT
                            !.prev = IF at(M, c) = 1 THEN Nil ELSE M[at(M, c) - 1],
                            !.next = IF at(M, c) = Len(M) THEN Nil ELSE M[at(M, c) + 1]]]
          /\ table' = [table EXCEPT !.first = M[1], !.last = M[Len(M)]]
    BY Zenon DEF sortTable
<1> HIDE DEF at
<1>3. /\ M \in SetToSeqs(Of(L))
      /\ prop' = [c \in Cells |-> prop'[c]]
      /\ \A c \in Cells \ Of(L) : prop'[c] = Free
      /\ \A c \in Of(L) :
            prop'[c] = [prop[c] EXCEPT
                            !.prev = IF at(M, c) = 1 THEN Nil ELSE M[at(M, c) - 1],
                            !.next = IF at(M, c) = Len(M) THEN Nil ELSE M[at(M, c) + 1]]
      /\ table' = [table EXCEPT !.first = M[1], !.last = M[Len(M)]]
    <2>1. /\ prop' = [c \in Cells |-> prop'[c]]
          /\ \A c \in Cells : c \notin Allocated => prop'[c] = Free
          /\ \A c \in Cells : c \in Allocated =>
                prop'[c] = [prop[c] EXCEPT
                            !.prev = IF at(M, c) = 1 THEN Nil ELSE M[at(M, c) - 1],
                            !.next = IF at(M, c) = Len(M) THEN Nil ELSE M[at(M, c) + 1]]
        BY <1>30
    <2>2. Allocated = Of(L) /\ \A c \in Of(L) : c \in Cells
        BY <1>1
    <2>3. M \in SetToSeqs(Of(L))
        BY <2>2
    <2>4. \A c \in Cells \ Of(L) : prop'[c] = Free
        BY <2>1, <2>2
    <2>5. \A c \in Of(L) :
            prop'[c] = [prop[c] EXCEPT
                            !.prev = IF at(M, c) = 1 THEN Nil ELSE M[at(M, c) - 1],
                            !.next = IF at(M, c) = Len(M) THEN Nil ELSE M[at(M, c) + 1]]
        <3> TAKE c \in Of(L)
        <3>1. c \in Cells /\ c \in Allocated
            BY <2>2
        <3> QED BY <3>1, <2>1
    <2> QED BY <2>1, <2>3, <2>4, <2>5, <1>30
<1>4. Once(M, Of(L)) /\ Of(M) = Of(L)
    BY <1>2, <1>3, ArrangedIs
<1>5. /\ M \in Seq(Of(L)) /\ Len(M) \in Nat /\ \A j \in 1 .. Len(M) : M[j] \in Of(L)
      /\ \A i, j \in 1 .. Len(M) : M[i] = M[j] => i = j
    BY <1>4, LenProperties, ElementOfSeq DEF Once
<1>6. Once(M, Cells)
    BY <1>1, <1>5, <1>4 DEF Once
<1>7. Len(M) = Len(L)
    <2>1. Cardinality(Of(M)) = Len(M)
        BY <1>6, OnceIsShort DEF PropTableAssumption
    <2> QED BY <2>1, <1>2, <1>4
<1>8. Len(L) > 1
    BY <1>0 DEF sortTable
<1>9. ASSUME NEW j \in 1 .. Len(M) PROVE at(M, M[j]) = j
    BY <1>5 DEF at
<1>10. ASSUME NEW c \in Of(L)
       PROVE  /\ at(M, c) \in 1 .. Len(M) /\ M[at(M, c)] = c
    <2>1. PICK j \in 1 .. Len(M) : M[j] = c
        BY <1>4 DEF Of
    <2> QED BY <2>1 DEF at
<1>11. \A d \in Cells : prop[d] \in CellType
    BY <1>0 DEF CellsType
<1>12. ASSUME NEW c \in Of(L)
       PROVE  /\ prop'[c] \in CellType
              /\ prop'[c].index = prop[c].index /\ prop'[c].value = prop[c].value
              /\ prop'[c].hash_next = prop[c].hash_next
              /\ prop'[c].prev = IF at(M, c) = 1 THEN Nil ELSE M[at(M, c) - 1]
              /\ prop'[c].next = IF at(M, c) = Len(M) THEN Nil ELSE M[at(M, c) + 1]
    <2>1. c \in Cells
        BY <1>1
    <2>2. prop[c] \in CellType
        BY <2>1, <1>11
    <2>3. PICK p, n : /\ p = IF at(M, c) = 1 THEN Nil ELSE M[at(M, c) - 1]
                      /\ n = IF at(M, c) = Len(M) THEN Nil ELSE M[at(M, c) + 1]
        OBVIOUS
    <2>4. prop'[c] = [prop[c] EXCEPT !.prev = p, !.next = n]
        BY <2>1, <2>3, <1>3
    <2>5. p \in CellOrNil /\ n \in CellOrNil
        <3>1. at(M, c) \in 1 .. Len(M)
            BY <1>10
        <3>2. at(M, c) # 1 => at(M, c) - 1 \in 1 .. Len(M)
            BY <3>1, <1>5
        <3>3. at(M, c) # Len(M) => at(M, c) + 1 \in 1 .. Len(M)
            BY <3>1, <1>5
        <3> QED BY <3>2, <3>3, <2>3, <1>1, <1>5 DEF CellOrNil
    <2>6. prop'[c] = [index |-> prop[c].index, value |-> prop[c].value,
                      hash_next |-> prop[c].hash_next, prev |-> p, next |-> n]
        BY <2>2, <2>4 DEF CellType
    <2>7. prop'[c] \in CellType
        BY <2>2, <2>5, <2>6 DEF CellType
    <2> QED BY <2>3, <2>6, <2>7
<1>13. ASSUME NEW d \in Cells, d \notin Of(L) PROVE prop'[d] = prop[d] /\ prop[d] = Free
    BY <1>13, <1>0, <1>3
<1>14. prop' \in CellsType
    <2>1. prop' = [d \in Cells |-> prop'[d]]
        BY <1>3
    <2>2. \A d \in Cells : prop'[d] \in CellType
        BY <1>11, <1>12, <1>13
    <2> QED BY <2>1, <2>2 DEF CellsType
<1>15. \A d \in Cells : /\ prop'[d].index = prop[d].index /\ prop'[d].value = prop[d].value
                        /\ prop'[d].hash_next = prop[d].hash_next
    BY <1>12, <1>13
<1>16. Of(M) = {d \in Cells : prop'[d] # Free}
    <2>1. \A d \in Of(L) : prop'[d] # Free
        BY <1>0, <1>12 DEF Free, PropTableAssumption
    <2> QED BY <2>1, <1>1, <1>4, <1>13
<1>17. PICK m \in Nat : table \in TableType(m) /\ (m = 0 => table = NoTable)
    BY DEF Sound, Sized
<1>18. m # 0
    BY <1>7, <1>8, <1>17, NoSlots
<1>19. /\ table'.heads = table.heads /\ table'.count = table.count
       /\ table'.next_index = table.next_index
       /\ table'.first = M[1] /\ table'.last = M[Len(M)]
       /\ table' \in TableType(m)
    <2>1. M[1] \in CellOrNil /\ M[Len(M)] \in CellOrNil
        <3>1. 1 \in 1 .. Len(M) /\ Len(M) \in 1 .. Len(M)
            BY <1>5, <1>7, <1>8
        <3> QED BY <3>1, <1>1, <1>5 DEF CellOrNil
    <2> QED BY <2>1, <1>3, <1>17 DEF TableType
<1>20. Listed(prop', table', M)
    <2>1. ASSUME NEW j \in 1 .. Len(M)
          PROVE  /\ prop'[M[j]].next = IF j = Len(M) THEN Nil ELSE M[j + 1]
                 /\ prop'[M[j]].prev = IF j = 1 THEN Nil ELSE M[j - 1]
        <3>1. M[j] \in Of(L) /\ at(M, M[j]) = j
            BY <1>5, <1>9
        <3> QED BY <3>1, <1>12
    <2>2. Len(M) # 0
        BY <1>7, <1>8
    <2> QED BY <2>1, <2>2, <1>6, <1>19, ListedFrom
<1>21. Chained(prop', table', Of(M))
    <2>1. \A d \in Of(L) : prop'[d].hash_next = prop[d].hash_next /\ prop'[d].index = prop[d].index
        BY <1>1, <1>15
    <2> QED BY <2>1, <1>0, <1>4, <1>19, ChainedStays
<1>22. /\ \A d \in Of(M) : prop'[d].index \in Keys /\ prop'[d].value \in Vals
       /\ \A d, e \in Of(M) : prop'[d].index = prop'[e].index => d = e
       /\ \A d \in Of(M) : prop'[d].index \in NumKeys => prop'[d].index < table'.next_index
    <2>1. \A d \in Of(M) : d \in Of(L) /\ prop'[d].index = prop[d].index /\ prop'[d].value = prop[d].value
        BY <1>1, <1>4, <1>15
    <2> QED BY <2>1, <1>0, <1>19
<1>23. table' # NoTable /\ Sized(table')
    <2>1. table'.heads # << >>
        BY <1>18, <1>19, NoHeads
    <2> QED BY <2>1, <1>18, <1>19 DEF Sized, NoTable
<1>24. Sound(table', prop', M)
    <2>1. table'.count = Len(M)
        BY <1>0, <1>7, <1>19
    <2> QED BY <2>1, <1>14, <1>16, <1>20, <1>21, <1>22, <1>23 DEF Sound
<1> QED BY <1>4, <1>15, <1>23, <1>24 DEF sortTable

-----------------------------------------------------------------------------
(* The iterators registered with the table.                                *)

IterType == [table : BOOLEAN, ascending : BOOLEAN, prop : CellOrNil]

\* The table T has the iterators I, whose states are J; A are its properties
Attached(T, A, I, J) ==
    /\ J \in [Iters -> IterType]
    /\ Once(I, Iters)
    /\ \A i \in Iters :
          /\ J[i].table <=> i \in Of(I)
          /\ J[i].table => T # NoTable
          /\ J[i].prop # Nil => J[i].table /\ J[i].prop \in A

LEMMA AttachedStays ==
    ASSUME NEW T, NEW U, NEW A, NEW B, NEW I, NEW J, Attached(T, A, I, J), A \subseteq B,
           U # NoTable \/ U = T
    PROVE  Attached(U, B, I, J)
BY DEF Attached

LEMMA NoneAttached ==
    ASSUME NEW T, NEW A, NEW J, J \in [Iters -> IterType],
           \A i \in Iters : ~J[i].table /\ J[i].prop = Nil
    PROVE  Attached(T, A, << >>, J)
<1>1. << >> \in Seq(Iters) /\ Len(<< >>) = 0 /\ 1 .. 0 = {}
    BY EmptySeq
<1>2. Once(<< >>, Iters) /\ Of(<< >>) = {}
    BY <1>1 DEF Once, Of
<1> QED BY <1>2 DEF Attached

LEMMA DetachedIs ==
    Detached \in IterType /\ ~Detached.table /\ Detached.prop = Nil
BY DEF Detached, IterType, CellOrNil

\* A detached iterator leaves the list of the table
LEMMA RemoveIsAttached ==
    ASSUME NEW A, Attached(table, A, iterators, iter), NEW i \in Iters, removeIterator(i)
    PROVE  Attached(table, A, iterators', iter') /\ table' = table /\ prop' = prop
<1>1. PICK n \in DOMAIN iterators : iterators[n] = i /\ iterators' = RemoveAt(iterators, n)
    BY DEF removeIterator
<1>2. /\ Once(iterators, Iters) /\ iter \in [Iters -> IterType]
      /\ \A j \in Iters :
          /\ iter[j].table <=> j \in Of(iterators)
          /\ iter[j].table => table # NoTable
          /\ iter[j].prop # Nil => iter[j].table /\ iter[j].prop \in A
    BY DEF Attached
<1>3. n \in 1 .. Len(iterators)
    BY <1>2, LenProperties DEF Once
<1>4. PICK I : I = iterators'
    OBVIOUS
<1>5. Once(I, Iters) /\ Of(I) = Of(iterators) \ {i}
    <2>1. I = RemoveAt(iterators, n)
        BY <1>1, <1>4
    <2> QED BY <2>1, <1>1, <1>2, <1>3, RemovedIs
<1>6. /\ iter' \in [Iters -> IterType]
      /\ iter'[i] = Detached /\ \A j \in Iters : j # i => iter'[j] = iter[j]
    BY <1>2, DetachedIs DEF removeIterator
<1>7. ASSUME NEW j \in Iters
      PROVE  /\ iter'[j].table <=> j \in Of(I)
             /\ iter'[j].table => table # NoTable
             /\ iter'[j].prop # Nil => iter'[j].table /\ iter'[j].prop \in A
    <2>1. CASE j = i
        BY <2>1, <1>5, <1>6, DetachedIs
    <2>2. CASE j # i
        BY <2>2, <1>2, <1>5, <1>6
    <2> QED BY <2>1, <2>2
<1> QED BY <1>4, <1>5, <1>6, <1>7 DEF Attached, removeIterator

\* deleteTableProperty moves the iterators to a neighbour that stays.
LEMMA MoveIsAttached ==
    ASSUME PropTableAssumption, NEW L, Sound(table, prop, L), NEW k \in 1 .. Len(L),
           Attached(table, Of(L), iterators, iter), moveIterators(L[k])
    PROVE  Attached(table, Of(RemoveAt(L, k)), iterators, iter')
<1>1. Once(L, Cells) /\ Listed(prop, table, L) /\ Len(L) \in Nat /\ Of(L) \in SUBSET Cells
    BY LenProperties DEF Sound, Listed, Once
<1>2. PICK M : M = Of(RemoveAt(L, k))
    OBVIOUS
<1>3. M = Of(L) \ {L[k]}
    BY <1>1, <1>2, RemovedIs
<1>4. /\ Once(iterators, Iters) /\ iter \in [Iters -> IterType]
      /\ \A j \in Iters :
          /\ iter[j].table <=> j \in Of(iterators)
          /\ iter[j].table => table # NoTable
          /\ iter[j].prop # Nil => iter[j].table /\ iter[j].prop \in Of(L)
    BY DEF Attached
<1>5. ToSet(iterators) = Of(iterators)
    BY <1>4, OfIsToSet DEF Once
<1>6. PICK c : c = L[k]
    OBVIOUS
<1>7. PICK n, b : n = prop[c].next /\ b = prop[c].prev
    OBVIOUS
<1>8. n \in M \cup {Nil} /\ b \in M \cup {Nil}
    <2>1. /\ n = IF k = Len(L) THEN Nil ELSE L[k + 1]
          /\ b = IF k = 1 THEN Nil ELSE L[k - 1]
        BY <1>1, <1>6, <1>7, ListedIs
    <2>2. \A j \in 1 .. Len(L) : j # k => L[j] \in M
        <3>1. \A j \in 1 .. Len(L) : j # k => L[j] # L[k]
            BY <1>1 DEF Once
        <3> QED BY <3>1, <1>3 DEF Of
    <2>3. k # Len(L) => k + 1 \in 1 .. Len(L)
        BY <1>1
    <2>4. k # 1 => k - 1 \in 1 .. Len(L)
        BY <1>1
    <2>5. n \in M \cup {Nil}
        <3>1. k # Len(L) => k + 1 # k
            BY <1>1
        <3> QED BY <3>1, <2>1, <2>2, <2>3
    <2>6. b \in M \cup {Nil}
        <3>1. k - 1 # k
            BY <1>1
        <3> QED BY <3>1, <2>1, <2>2, <2>4
    <2> QED BY <2>5, <2>6
<1>9. iter' = [i \in Iters |->
        IF i \in Of(iterators) /\ iter[i].prop = c
        THEN [iter[i] EXCEPT !.prop = IF iter[i].ascending THEN n ELSE b]
        ELSE iter[i]]
    BY <1>5, <1>6, <1>7 DEF moveIterators
<1>10. ASSUME NEW i \in Iters
       PROVE  /\ iter'[i] \in IterType
              /\ iter'[i].table = iter[i].table
              /\ iter'[i].prop # Nil => iter[i].table /\ iter'[i].prop \in M
    <2>1. iter[i] \in IterType
        BY <1>4
    <2>2. CASE i \in Of(iterators) /\ iter[i].prop = c
        <3>1. PICK x \in M \cup {Nil} : x = IF iter[i].ascending THEN n ELSE b
            BY <1>8
        <3>2. iter'[i] = [iter[i] EXCEPT !.prop = x]
            BY <2>2, <3>1, <1>9
        <3>3. x \in CellOrNil
            BY <3>1, <1>1, <1>3 DEF CellOrNil
        <3>4. iter'[i] \in IterType /\ iter'[i].table = iter[i].table /\ iter'[i].prop = x
            BY <2>1, <3>2, <3>3 DEF IterType
        <3> QED BY <2>2, <3>1, <3>4, <1>4
    <2>3. CASE ~(i \in Of(iterators) /\ iter[i].prop = c)
        <3>1. iter'[i] = iter[i]
            BY <2>3, <1>9
        <3>2. iter[i].prop # Nil => iter[i].table /\ iter[i].prop \in M
            BY <2>3, <1>3, <1>4, <1>6
        <3> QED BY <2>1, <3>1, <3>2
    <2> QED BY <2>2, <2>3
<1>11. iter' \in [Iters -> IterType]
    <2>1. iter' = [i \in Iters |-> iter'[i]]
        BY <1>9
    <2> QED BY <2>1, <1>10
<1>12. Attached(table, M, iterators, iter')
    BY <1>4, <1>10, <1>11 DEF Attached
<1> QED BY <1>2, <1>12

-----------------------------------------------------------------------------
(* The inductive invariant: a list of the properties that fits the table   *)
(* and its iterators.                                                      *)

Fits(L) == Sound(table, prop, L) /\ Attached(table, Of(L), iterators, iter)

TableIInv == \E L : Fits(L)

LEMMA TableStarts == PropTableAssumption /\ TableInit => TableIInv
<1> SUFFICES ASSUME PropTableAssumption, TableInit PROVE TableIInv
    OBVIOUS
<1>1. Sound(table, prop, << >>)
    BY SoundEmpty DEF TableInit
<1>2. iter \in [Iters -> IterType] /\ \A i \in Iters : ~iter[i].table /\ iter[i].prop = Nil
    BY DetachedIs DEF TableInit
<1>3. Attached(table, Of(<< >>), iterators, iter)
    BY <1>2, NoneAttached DEF TableInit
<1> QED BY <1>1, <1>3 DEF TableIInv, Fits

LEMMA AppendFits ==
    ASSUME PropTableAssumption, NEW L, Fits(L), NEW k \in Keys, NEW v \in Vals,
           NEW c, addTableProperty(c, k, v), \A d \in Of(L) : prop[d].index # k
    PROVE  c \in Cells \ Of(L) /\ Fits(Append(L, c))'
<1>1. PICK M : M = Append(L, c)
    OBVIOUS
<1>2. c \in Cells \ Of(L) /\ Sound(table', prop', M)
    BY <1>1, AddKeepsSound DEF Fits
<1>3. Len(M) # 0 /\ Of(M) = Of(L) \cup {c}
    <2>1. Once(L, Cells) /\ Len(L) \in Nat
        BY LenProperties DEF Fits, Sound, Listed, Once
    <2>2. Len(M) = Len(L) + 1 /\ Of(M) = Of(L) \cup {c}
        BY <2>1, <1>1, <1>2, AppendedIs
    <2> QED BY <2>1, <2>2
<1>4. table' # NoTable
    BY <1>2, <1>3 DEF Sound, NoTable
<1>5. iterators' = iterators /\ iter' = iter
    BY DEF addTableProperty
<1>6. Attached(table', Of(M), iterators', iter')
    BY <1>3, <1>4, <1>5, AttachedStays DEF Fits
<1> QED BY <1>1, <1>2, <1>6 DEF Fits

LEMMA SetFits ==
    ASSUME PropTableAssumption, NEW L, Fits(L), NEW c \in Of(L), NEW v \in Vals, setProperty(c, v)
    PROVE  Fits(L)'
<1>1. Sound(table', prop', L) /\ table' = table
    BY SetKeepsSound DEF Fits
<1>2. iterators' = iterators /\ iter' = iter
    BY DEF setProperty
<1> QED BY <1>1, <1>2 DEF Fits

LEMMA DeleteFits ==
    ASSUME PropTableAssumption, NEW L, Fits(L), NEW k \in 1 .. Len(L), deleteCell(L[k])
    PROVE  Fits(RemoveAt(L, k))'
<1>1. PICK M : M = RemoveAt(L, k)
    OBVIOUS
<1>2. Sound(table', prop', M) /\ table' # NoTable /\ moveIterators(L[k]) /\ iterators' = iterators
    BY <1>1, DeleteKeepsSound DEF Fits
<1>3. Attached(table, Of(M), iterators, iter')
    BY <1>1, <1>2, MoveIsAttached DEF Fits
<1>4. Attached(table', Of(M), iterators', iter')
    BY <1>2, <1>3, AttachedStays
<1> QED BY <1>1, <1>2, <1>4 DEF Fits

\* setTableValue changes the one property of its key, or adds it.
LEMMA SetTableFits ==
    ASSUME PropTableAssumption, NEW L, Fits(L), NEW k \in Keys, NEW v \in Vals, setTableValue(k, v)
    PROVE  TableIInv'
<1>1. \/ get(k) \in Of(L) /\ prop[get(k)].index = k
      \/ get(k) = Nil /\ \A d \in Of(L) : prop[d].index # k
    BY GetIs DEF Fits
<1>2. Nil \notin Of(L)
    BY DEF Fits, Sound, PropTableAssumption
<1>3. CASE get(k) # Nil
    <2>1. PICK c : c = get(k)
        OBVIOUS
    <2>2. c \in Of(L) /\ setProperty(c, v)
        BY <2>1, <1>1, <1>3 DEF setTableValue
    <2>3. Fits(L)'
        BY <2>2, SetFits
    <2> QED BY <2>3 DEF TableIInv
<1>4. CASE get(k) = Nil
    <2>1. \A d \in Of(L) : prop[d].index # k
        BY <1>1, <1>2, <1>4
    <2>2. PICK c \in Cells : addTableProperty(c, k, v)
        BY <1>4 DEF setTableValue
    <2>3. Fits(Append(L, c))'
        BY <2>1, <2>2, AppendFits
    <2> QED BY <2>3 DEF TableIInv
<1> QED BY <1>3, <1>4

\* deleteTableProperty finds the property by its key.
LEMMA DeleteOf ==
    ASSUME PropTableAssumption, NEW L, Fits(L), NEW k \in Keys, deleteTableProperty(k)
    PROVE  \E j \in 1 .. Len(L) : prop[L[j]].index = k /\ deleteCell(L[j])
<1>1. PICK c : c = get(k)
    OBVIOUS
<1>2. c # Nil /\ deleteCell(c)
    BY <1>1 DEF deleteTableProperty
<1>3. c \in Of(L) /\ prop[c].index = k
    BY <1>1, <1>2, GetIs DEF Fits
<1>4. PICK j \in 1 .. Len(L) : L[j] = c
    BY <1>3 DEF Of
<1> QED BY <1>2, <1>3, <1>4

LEMMA EndsAre ==
    ASSUME PropTableAssumption, NEW L, Fits(L), table.count > 0
    PROVE  /\ Len(L) \in Nat \ {0} /\ Once(L, Cells)
           /\ table.first = L[1] /\ table.last = L[Len(L)]
           /\ table.first \in Of(L) /\ table.last \in Of(L)
           /\ prop[table.first].index \in Keys /\ prop[table.last].index \in Keys
<1>1. Once(L, Cells) /\ Listed(prop, table, L) /\ table.count = Len(L) /\ Len(L) \in Nat
    BY LenProperties DEF Fits, Sound, Listed, Once
<1>2. 1 \in 1 .. Len(L) /\ Len(L) \in 1 .. Len(L)
    BY <1>1
<1>3. table.first = L[1] /\ table.last = L[Len(L)]
    BY <1>1, <1>2, ListedIs
<1>4. table.first \in Of(L) /\ table.last \in Of(L)
    BY <1>2, <1>3 DEF Of
<1>5. \A c \in Of(L) : prop[c].index \in Keys
    BY DEF Fits, Sound
<1> QED BY <1>1, <1>2, <1>3, <1>4, <1>5

LEMMA ClearFits ==
    ASSUME PropTableAssumption, NEW L, Fits(L), deleteTable
    PROVE  Fits(<< >>)'
<1>1. /\ table' = NoTable /\ prop' = [c \in Cells |-> Free] /\ iterators' = << >>
      /\ iter' = [i \in Iters |-> IF i \in ToSet(iterators) THEN Detached ELSE iter[i]]
    BY DEF deleteTable
<1>2. Sound(table', prop', << >>)
    BY <1>1, SoundEmpty
<1>3. /\ Once(iterators, Iters) /\ iter \in [Iters -> IterType]
      /\ \A j \in Iters :
          /\ iter[j].table <=> j \in Of(iterators)
          /\ iter[j].prop # Nil => iter[j].table
    BY DEF Fits, Attached
<1>4. ToSet(iterators) = Of(iterators)
    BY <1>3, OfIsToSet DEF Once
<1>5. ASSUME NEW i \in Iters PROVE iter'[i] \in IterType /\ ~iter'[i].table /\ iter'[i].prop = Nil
    <2>1. CASE i \in Of(iterators)
        BY <2>1, <1>1, <1>4, DetachedIs
    <2>2. CASE i \notin Of(iterators)
        BY <2>2, <1>1, <1>3, <1>4
    <2> QED BY <2>1, <2>2
<1>6. iter' \in [Iters -> IterType]
    <2>1. iter' = [i \in Iters |-> iter'[i]]
        BY <1>1
    <2> QED BY <2>1, <1>5
<1>7. Of(<< >>) = {}
    BY EmptySeq DEF Of
<1>8. Attached(table', Of(<< >>), iterators', iter')
    BY <1>1, <1>5, <1>6, NoneAttached
<1> QED BY <1>2, <1>8 DEF Fits

LEMMA OpenFits ==
    ASSUME PropTableAssumption, NEW L, Fits(L), NEW i \in Iters, NEW up \in BOOLEAN, iterator(i, up)
    PROVE  Fits(L)'
<1>1. /\ table' = table /\ prop' = prop /\ table.count > 0 /\ ~iter[i].table
      /\ iterators' = <<i>> \o iterators
    BY DEF iterator
<1>2. PICK c : c = IF up THEN table.first ELSE table.last
    OBVIOUS
<1>3. c \in Of(L) /\ c \in CellOrNil /\ table # NoTable
    <2>1. c \in Of(L)
        BY <1>1, <1>2, EndsAre
    <2>2. Of(L) \subseteq Cells
        BY DEF Fits, Sound
    <2>3. table # NoTable
        BY <1>1 DEF NoTable
    <2> QED BY <2>1, <2>2, <2>3 DEF CellOrNil
<1>4. /\ Once(iterators, Iters) /\ iter \in [Iters -> IterType]
      /\ \A j \in Iters :
          /\ iter[j].table <=> j \in Of(iterators)
          /\ iter[j].table => table # NoTable
          /\ iter[j].prop # Nil => iter[j].table /\ iter[j].prop \in Of(L)
    BY DEF Fits, Attached
<1>5. PICK I : I = iterators'
    OBVIOUS
<1>6. Once(I, Iters) /\ Of(I) = Of(iterators) \cup {i}
    <2>1. i \notin Of(iterators) /\ I = <<i>> \o iterators
        BY <1>1, <1>4, <1>5
    <2> QED BY <2>1, <1>4, PushedIs
<1>7. iter' = [iter EXCEPT ![i] = [table |-> TRUE, ascending |-> up, prop |-> c]]
    BY <1>2 DEF iterator
<1>8. /\ iter' \in [Iters -> IterType]
      /\ iter'[i].table /\ iter'[i].prop = c
      /\ \A j \in Iters : j # i => iter'[j] = iter[j]
    <2>1. [table |-> TRUE, ascending |-> up, prop |-> c] \in IterType
        BY <1>3 DEF IterType
    <2> QED BY <2>1, <1>4, <1>7
<1>9. ASSUME NEW j \in Iters
      PROVE  /\ iter'[j].table <=> j \in Of(I)
             /\ iter'[j].table => table # NoTable
             /\ iter'[j].prop # Nil => iter'[j].table /\ iter'[j].prop \in Of(L)
    <2>1. CASE j = i
        BY <2>1, <1>3, <1>6, <1>8
    <2>2. CASE j # i
        BY <2>2, <1>4, <1>6, <1>8
    <2> QED BY <2>1, <2>2
<1>10. Attached(table', Of(L), iterators', iter')
    BY <1>1, <1>5, <1>6, <1>8, <1>9 DEF Attached
<1> QED BY <1>1, <1>10 DEF Fits

LEMMA RemoveFits ==
    ASSUME NEW L, Fits(L), NEW i \in Iters, removeIterator(i)
    PROVE  Fits(L)'
<1>1. Attached(table, Of(L), iterators', iter') /\ table' = table /\ prop' = prop
    BY RemoveIsAttached DEF Fits
<1> QED BY <1>1 DEF Fits

\* An iterator that returns its property goes on to the next one.
LEMMA StepFits ==
    ASSUME PropTableAssumption, NEW L, Fits(L), NEW i \in Iters, iter[i].table, iter[i].prop # Nil,
           iter' = [iter EXCEPT ![i].prop =
             IF iter[i].ascending THEN prop[@].next ELSE prop[@].prev],
           UNCHANGED <<table, prop, iterators>>
    PROVE  Fits(L)'
<1>1. /\ Once(iterators, Iters) /\ iter \in [Iters -> IterType]
      /\ \A j \in Iters :
          /\ iter[j].table <=> j \in Of(iterators)
          /\ iter[j].table => table # NoTable
          /\ iter[j].prop # Nil => iter[j].table /\ iter[j].prop \in Of(L)
      /\ Once(L, Cells) /\ Listed(prop, table, L) /\ Len(L) \in Nat /\ Of(L) \subseteq Cells
    BY LenProperties DEF Fits, Attached, Sound, Listed, Once
<1>2. PICK k \in 1 .. Len(L) : L[k] = iter[i].prop
    BY <1>1 DEF Of
<1>3. PICK x : x = IF iter[i].ascending THEN prop[iter[i].prop].next ELSE prop[iter[i].prop].prev
    OBVIOUS
<1>4. x \in Of(L) \cup {Nil}
    <2>1. /\ prop[L[k]].next = IF k = Len(L) THEN Nil ELSE L[k + 1]
          /\ prop[L[k]].prev = IF k = 1 THEN Nil ELSE L[k - 1]
        BY <1>1, ListedIs
    <2>2. k # Len(L) => k + 1 \in 1 .. Len(L)
        BY <1>1
    <2>3. k # 1 => k - 1 \in 1 .. Len(L)
        BY <1>1
    <2>4. \A j \in 1 .. Len(L) : L[j] \in Of(L)
        BY DEF Of
    <2> QED BY <2>1, <2>2, <2>3, <2>4, <1>2, <1>3
<1>5. PICK K : K = iter'
    OBVIOUS
<1>6. K = [iter EXCEPT ![i].prop = x] /\ x \in CellOrNil
    BY <1>1, <1>3, <1>4, <1>5 DEF CellOrNil
<1>7. /\ K \in [Iters -> IterType]
      /\ K[i].table = iter[i].table /\ K[i].prop = x
      /\ \A j \in Iters : j # i => K[j] = iter[j]
    <2>1. iter[i] \in IterType
        BY <1>1
    <2>2. K[i] = [iter[i] EXCEPT !.prop = x] /\ \A j \in Iters : j # i => K[j] = iter[j]
        BY <1>1, <1>6
    <2>3. K[i] \in IterType /\ K[i].table = iter[i].table /\ K[i].prop = x
        <3>1. PICK y \in IterType : y = iter[i]
            BY <2>1
        <3>2. PICK z : z = K[i]
            OBVIOUS
        <3>3. z = [y EXCEPT !.prop = x] /\ x \in CellOrNil
            BY <3>1, <3>2, <2>2, <1>6
        <3>4. z \in IterType /\ z.table = y.table /\ z.prop = x
            BY ONLY <3>3, y \in IterType DEF IterType
        <3> QED BY <3>1, <3>2, <3>4
    <2>4. K = [j \in Iters |-> K[j]]
        BY <1>1, <1>6
    <2>5. \A j \in Iters : iter[j] \in IterType
        BY <1>1
    <2>6. \A j \in Iters : K[j] \in IterType
        BY <2>2, <2>3, <2>5
    <2>7. K \in [Iters -> IterType]
        BY <2>4, <2>6
    <2> QED BY <2>2, <2>3, <2>7
<1>8. Attached(table, Of(L), iterators, K)
    BY <1>1, <1>4, <1>7 DEF Attached
<1> QED BY <1>5, <1>8 DEF Fits

LEMMA TableSteps == PropTableAssumption /\ TableIInv /\ [TableNext]_tableVars => TableIInv'
<1> SUFFICES ASSUME PropTableAssumption, TableIInv, [TableNext]_tableVars
             PROVE  TableIInv'
    OBVIOUS
<1>1. PICK L : Fits(L)
    BY DEF TableIInv
<1>2. ASSUME NEW k \in Keys, NEW v \in Vals, setTableValue(k, v) PROVE TableIInv'
    BY <1>1, <1>2, SetTableFits
<1>3. ASSUME NEW v \in Vals, addProperty(v) PROVE TableIInv'
    <2>1. PICK k : k = table.next_index
        OBVIOUS
    <2>2. k \in Keys /\ setTableValue(k, v)
        BY <2>1, <1>3 DEF addProperty, PropTableAssumption
    <2> QED BY <2>2, <1>1, SetTableFits
<1>4. ASSUME NEW v \in Vals, setFirst(v) \/ setLast(v) PROVE TableIInv'
    <2>1. table.count > 0 /\ (setProperty(table.first, v) \/ setProperty(table.last, v))
        BY <1>4 DEF setFirst, setLast
    <2>2. PICK c : c \in {table.first, table.last} /\ setProperty(c, v)
        BY <2>1
    <2>3. c \in Of(L)
        BY <2>1, <2>2, <1>1, EndsAre
    <2>4. Fits(L)'
        BY <2>2, <2>3, <1>1, SetFits
    <2> QED BY <2>4 DEF TableIInv
<1>5. ASSUME NEW k \in Keys, deleteTableProperty(k) PROVE TableIInv'
    <2>1. PICK j \in 1 .. Len(L) : deleteCell(L[j])
        BY <1>1, <1>5, DeleteOf
    <2>2. Fits(RemoveAt(L, j))'
        BY <2>1, <1>1, DeleteFits
    <2> QED BY <2>2 DEF TableIInv
<1>6. ASSUME deleteFirst \/ deleteLast PROVE TableIInv'
    <2>1. table.count > 0
        BY <1>6 DEF deleteFirst, deleteLast
    <2>2. PICK k : k \in {prop[table.first].index, prop[table.last].index} /\ deleteTableProperty(k)
        BY <1>6 DEF deleteFirst, deleteLast
    <2>3. k \in Keys
        BY <2>1, <2>2, <1>1, EndsAre
    <2> QED BY <2>2, <2>3, <1>5
<1>7. ASSUME deleteTable PROVE TableIInv'
    BY <1>1, <1>7, ClearFits DEF TableIInv
<1>8. ASSUME sortTable PROVE TableIInv'
    <2>1. PICK M : Sound(table', prop', M) /\ Of(M) = Of(L)
        BY <1>1, <1>8, SortKeepsSound DEF Fits
    <2>2. table' # NoTable /\ iterators' = iterators /\ iter' = iter
        BY <1>1, <1>8, SortKeepsSound DEF Fits
    <2>3. Attached(table', Of(M), iterators', iter')
        BY <2>1, <2>2, <1>1, AttachedStays DEF Fits
    <2> QED BY <2>1, <2>3 DEF TableIInv, Fits
<1>9. ASSUME NEW i \in Iters, iterator(i, TRUE) \/ iterator(i, FALSE) PROVE TableIInv'
    <2>1. PICK up \in BOOLEAN : iterator(i, up)
        BY <1>9
    <2>2. Fits(L)'
        BY <2>1, <1>1, OpenFits
    <2> QED BY <2>2 DEF TableIInv
<1>10. ASSUME NEW i \in Iters, removeIterator(i) PROVE TableIInv'
    <2>1. Fits(L)'
        BY <1>1, <1>10, RemoveFits
    <2> QED BY <2>1 DEF TableIInv
<1>11. ASSUME NEW i \in Iters, iteratorStep(i) PROVE TableIInv'
    <2>1. CASE /\ iter[i].table /\ iter[i].prop # Nil
               /\ iter' = [iter EXCEPT ![i].prop =
                     IF iter[i].ascending THEN prop[@].next ELSE prop[@].prev]
               /\ UNCHANGED <<table, prop, iterators>>
        <3>1. Fits(L)'
            BY <2>1, <1>1, StepFits
        <3> QED BY <3>1 DEF TableIInv
    <2> QED BY <2>1, <1>10, <1>11 DEF iteratorStep
<1>12. ASSUME UNCHANGED tableVars PROVE TableIInv'
    <2>1. Fits(L)'
        BY <1>1, <1>12 DEF Fits, tableVars
    <2> QED BY <2>1 DEF TableIInv
<1> QED
    BY <1>2, <1>3, <1>4, <1>5, <1>6, <1>7, <1>8, <1>9, <1>10, <1>11, <1>12
    DEF TableNext, iteratorStateDestructor

LEMMA FitsIsSound ==
    ASSUME PropTableAssumption, NEW L, Fits(L)
    PROVE  /\ List = L /\ Follow(prop, table.last, "prev") = Reverse(L)
           /\ TableTypeOK /\ ListAndChainsAgree /\ NextIndexIsFree
<1>1. /\ Once(L, Cells) /\ Path(prop, table.first, "next", L) /\ Path(prop, table.last, "prev", Reverse(L))
      /\ Of(L) = {d \in Cells : prop[d] # Free} /\ Chained(prop, table, Of(L))
      /\ \A d \in Of(L) : prop[d].index \in Keys /\ prop[d].value \in Vals
      /\ \A d, e \in Of(L) : prop[d].index = prop[e].index => d = e
      /\ \A d \in Of(L) : prop[d].index \in NumKeys => prop[d].index < table.next_index
      /\ prop \in CellsType /\ table.count = Len(L) /\ Len(L) \in Nat
      /\ iter \in [Iters -> IterType] /\ Once(iterators, Iters)
    BY LenProperties DEF Fits, Attached, Sound, Listed, Once
<1>2. Allocated = Of(L) /\ Of(L) \subseteq Cells
    BY <1>1 DEF Allocated
<1>3. PICK m \in Nat : table \in TableType(m) /\ (m = 0 => table = NoTable)
    BY DEF Fits, Sound, Sized
<1>4. List = L /\ Follow(prop, table.last, "prev") = Reverse(L)
    <2>1. PICK r : r = Reverse(L)
        OBVIOUS
    <2>2. Once(r, Cells) /\ Path(prop, table.last, "prev", r)
        BY <2>1, <1>1, ReversedIs
    <2>3. Follow(prop, table.last, "prev") = r
        BY <2>2, FollowPath
    <2>4. List = L
        BY <1>1, FollowPath DEF List
    <2> QED BY <2>1, <2>3, <2>4
<1>5. TableTypeOK
    <2>1. /\ DOMAIN table = {"heads", "count", "next_index", "first", "last"}
          /\ table.count \in Nat /\ table.next_index \in Nat
          /\ table.first \in CellOrNil /\ table.last \in CellOrNil
        BY <1>3 DEF TableType
    <2>2. \A s \in HeadsOf(table) : table.heads[s] \in CellOrNil
        BY <1>3, HeadsAre DEF HeadsOf
    <2>3. \A c \in Of(L) : /\ prop[c].index \in Keys /\ prop[c].value \in Vals
                           /\ {prop[c].hash_next, prop[c].prev, prop[c].next} \subseteq CellOrNil
        <3> TAKE c \in Of(L)
        <3>1. prop[c] \in CellType
            BY <1>1, <1>2 DEF CellsType
        <3> QED BY <3>1, <1>1 DEF CellType
    <2>4. \A i \in Iters : iter[i].prop \in CellOrNil
        BY <1>1 DEF IterType
    <2>5. ToSet(iterators) \subseteq Iters
        BY <1>1, OfIsToSet DEF Once
    <2> QED BY <2>1, <2>2, <2>3, <2>4, <2>5, <1>2 DEF TableTypeOK
<1>6. ListAndChainsAgree
    <2>1. ToSet(L) = Of(L) /\ DOMAIN L = 1 .. Len(L)
        BY <1>1, OfIsToSet DEF Once
    <2>2. IsInjective(L)
        BY <2>1, <1>1 DEF IsInjective, Once
    <2>3. table.count = Cardinality(Of(L))
        BY <1>1, OnceIsShort DEF PropTableAssumption
    <2>4. \A c \in Of(L) : get(prop[c].index) = c
        <3> TAKE c \in Of(L)
        <3>1. PICK k \in Keys : k = prop[c].index
            BY <1>1
        <3>2. get(k) \in Of(L) /\ prop[get(k)].index = k
            BY <3>1, GetIs DEF Fits
        <3> QED BY <3>1, <3>2, <1>1
    <2>5. \A s \in HeadsOf(table) : \A c \in ToSet(Chain(table, prop, s)) :
              c \in Of(L) /\ Slot(table, prop[c].index) = s
        <3> TAKE s \in HeadsOf(table)
        <3>1. s \in 0 .. m - 1
            BY <1>3, HeadsAre DEF HeadsOf
        <3>2. PICK ch : ch = Chain(table, prop, s)
            OBVIOUS
        <3>3. Once(ch, Cells) /\ Of(ch) = {c \in Of(L) : Slot(table, prop[c].index) = s}
            BY <3>1, <3>2, <1>1, <1>3, ChainIs
        <3>4. ToSet(ch) = Of(ch)
            BY <3>3, OfIsToSet DEF Once
        <3> QED BY <3>2, <3>3, <3>4
    <2> QED BY <2>1, <2>2, <2>3, <2>4, <2>5, <1>2, <1>4 DEF ListAndChainsAgree
<1>7. NextIndexIsFree
    BY <1>1, <1>2 DEF NextIndexIsFree
<1> QED BY <1>4, <1>5, <1>6, <1>7

LEMMA IInvIsSound ==
    PropTableAssumption /\ TableIInv => TableSound /\ IteratorsAttached
<1> SUFFICES ASSUME PropTableAssumption, TableIInv PROVE TableSound /\ IteratorsAttached
    OBVIOUS
<1>1. PICK L : Fits(L)
    BY DEF TableIInv
<1>2. TableSound
    BY <1>1, FitsIsSound DEF TableSound
<1>3. IteratorsAttached
    <2>1. /\ Once(iterators, Iters)
          /\ \A j \in Iters :
               /\ iter[j].table <=> j \in Of(iterators)
               /\ iter[j].table => table # NoTable
               /\ iter[j].prop # Nil => iter[j].table /\ iter[j].prop \in Of(L)
        BY <1>1 DEF Fits, Attached
    <2>2. Of(L) = Allocated
        BY <1>1 DEF Fits, Sound, Allocated
    <2>3. ToSet(iterators) = Of(iterators) /\ DOMAIN iterators = 1 .. Len(iterators)
        BY <2>1, OfIsToSet DEF Once
    <2>4. IsInjective(iterators)
        BY <2>1, <2>3 DEF IsInjective, Once
    <2> QED BY <2>1, <2>2, <2>3, <2>4 DEF IteratorsAttached
<1> QED BY <1>2, <1>3

(***************************************************************************)
(* The hash table, the list and the next number describe one set of        *)
(* properties, after every setTableValue, deleteTableProperty, sortTable   *)
(* and clearTable, however often the heads grew: Table::get finds every    *)
(* property under its own key, the list read backwards is its reverse, and *)
(* the number addProperty takes is free.                                   *)
(***************************************************************************)
THEOREM TableIsSound == PropTableAssumption => (TableSpec => []TableSound)
<1> SUFFICES ASSUME PropTableAssumption PROVE TableSpec => []TableSound
    OBVIOUS
<1>1. TableInit => TableIInv
    BY TableStarts
<1>2. TableIInv /\ [TableNext]_tableVars => TableIInv'
    BY TableSteps
<1>3. TableIInv => TableSound
    BY IInvIsSound
<1> QED BY <1>1, <1>2, <1>3, PTL DEF TableSpec

(***************************************************************************)
(* An IteratorState never keeps a pointer to a freed property or to a      *)
(* table that is gone, and the table knows every iterator that points into *)
(* it: deleteTableProperty and clearTable move or detach all of them.      *)
(***************************************************************************)
THEOREM IteratorsStayAttached == PropTableAssumption => (TableSpec => []IteratorsAttached)
<1> SUFFICES ASSUME PropTableAssumption PROVE TableSpec => []IteratorsAttached
    OBVIOUS
<1>1. TableInit => TableIInv
    BY TableStarts
<1>2. TableIInv /\ [TableNext]_tableVars => TableIInv'
    BY TableSteps
<1>3. TableIInv => IteratorsAttached
    BY IInvIsSound
<1> QED BY <1>1, <1>2, <1>3, PTL DEF TableSpec
=============================================================================
