----------------------------- MODULE HeapProofs -----------------------------
(***************************************************************************)
(* Proofs about Heap, for any sizes of the headers, the pages and the      *)
(* requests, any number of pages, of large blocks and of pointers: the     *)
(* lists of blocks, the free list and the statistics agree, and two blocks *)
(* in use never share a byte.                                              *)
(*                                                                         *)
(* Two hypotheses come with the theorems: the system does not refuse a     *)
(* small page and the page numbers do not wrap.  Without either the code   *)
(* hands out overlapping blocks.                                           *)
(***************************************************************************)
EXTENDS Heap, FiniteSetTheorems, SequenceTheorems, WellFoundedInduction,
        NaturalsInduction, TLAPS

Quiet == HeapAssumption /\ MallocFails = FALSE /\ MaxNextPage < PageIdMod

-----------------------------------------------------------------------------
(* The invariant.                                                          *)

Aligned == {n \in Nat : n % Align = 0}

Blocks == [at : (1 .. MaxPages) \X Aligned, page : Nat, size : Aligned, is_free : BOOLEAN]

\* The block at a place of the list: its page, where it begins and ends, its number of bytes
Home(bs, i) == bs[i].at[1]

From(bs, i) == bs[i].at[2]

Wide(bs, i) == bs[i].size

Until(bs, i) == From(bs, i) + Wide(bs, i)

Number(bs, i) == bs[i].page

Free(bs, i) == bs[i].is_free

Where(bs, i) == <<Home(bs, i), From(bs, i)>>

\* Blocks of one page come in the order of their addresses
Ordered(bs) ==
    \A i, j \in 1 .. Len(bs) : i < j /\ Home(bs, i) = Home(bs, j) => Until(bs, i) <= From(bs, j)

\* The page number says which page it is
Paged(bs) ==
    \A i, j \in 1 .. Len(bs) : Number(bs, i) = Number(bs, j) <=> Home(bs, i) = Home(bs, j)

TiledBefore(bs) ==
    \A i \in 1 .. Len(bs) : From(bs, i) # 0 =>
        i > 1 /\ Home(bs, i - 1) = Home(bs, i) /\ Until(bs, i - 1) = From(bs, i)

TiledBehind(bs) ==
    \A i \in 1 .. Len(bs) : Until(bs, i) # PageSize =>
        i < Len(bs) /\ Home(bs, i + 1) = Home(bs, i) /\ Until(bs, i) = From(bs, i + 1)

Sized(bs) ==
    \A i \in 1 .. Len(bs) : From(bs, i) + FreeHeader <= Until(bs, i) /\ Until(bs, i) <= PageSize

ChainOK(bs) ==
    bs \in Seq(Blocks) /\ Sized(bs) /\ Ordered(bs) /\ Paged(bs) /\ TiledBefore(bs) /\ TiledBehind(bs)

NoneAdjoin(bs) ==
    \A i, j \in 1 .. Len(bs) :
        j = i + 1 /\ Home(bs, i) = Home(bs, j) => ~(Free(bs, i) /\ Free(bs, j))

At(bs) == {Where(bs, i) : i \in 1 .. Len(bs)}

FreeAt(bs) == {Where(bs, i) : i \in {j \in 1 .. Len(bs) : Free(bs, j)}}

PagesOf(bs) == {Home(bs, i) : i \in 1 .. Len(bs)}

NumbersOf(bs) == {Number(bs, i) : i \in 1 .. Len(bs)}

Places == Nat \X Nat

\* A list of the addresses in F, each once, the largest block first
ListFor(bs, fl, F) ==
    /\ fl \in Seq(Places) /\ F = {fl[i] : i \in 1 .. Len(fl)}
    /\ \A i, j \in 1 .. Len(fl) : fl[i] = fl[j] => i = j
    /\ \A i, j \in 1 .. Len(fl) : i < j => Size(bs, fl[i]) >= Size(bs, fl[j])

\* The free list
FreeOK(bs, fl) == ListFor(bs, fl, FreeAt(bs))

\* At most KeptPages free pages; they are at the head of the list
FewPages(bs, fl) == \A i \in 1 .. Len(fl) : i > KeptPages => Size(bs, fl[i]) < PageSize

MediumOK ==
    /\ ChainOK(blocks) /\ NoneAdjoin(blocks)
    /\ next_page \in 1 .. MaxNextPage
    /\ \A m \in NumbersOf(blocks) : m < next_page

ListOK == ~destroyed => FreeOK(blocks, free_list) /\ FewPages(blocks, free_list)

Apart(a, m, b, n) == a[1] # b[1] \/ a[2] + m <= b[2] \/ b[2] + n <= a[2]

\* The small blocks in use and the free ones, each an address and a slot
UsedPieces(sm) == {x \in Places \X Slots : x[1] \in DOMAIN sm /\ sm[x[1]] = x[2]}

FreePieces(fs) == {x \in Places \X Slots : \E j \in 1 .. Len(fs[x[2]]) : fs[x[2]][j] = x[1]}

Pieces(sm, fs) == UsedPieces(sm) \cup FreePieces(fs)

AllApart(P) == \A x, y \in P : x # y => Apart(x[1], getSize(x[2]), y[1], getSize(y[2]))

\* A small block lies in the part of the small pages that was given out
Within(x, sp, offs) ==
    /\ x[1][1] \in ToSet(sp) /\ x[1][2] \in Aligned
    /\ x[1][2] + getSize(x[2]) <= PageSize
    /\ x[1][1] = Head(sp) => x[1][2] + getSize(x[2]) <= offs

SmallTyped(sm, fs, offs) ==
    /\ offs \in Aligned /\ offs <= PageSize
    /\ IsFiniteSet(DOMAIN sm) /\ DOMAIN sm \subseteq Places
    /\ \A a \in DOMAIN sm : sm[a] \in Slots /\ getSize(sm[a]) >= SmallHeader
    /\ fs \in [Slots -> Seq(Places)]

\* No block is twice in its list
Once(fs) == \A i \in Slots : \A j, k \in 1 .. Len(fs[i]) : fs[i][j] = fs[i][k] => j = k

SmallSound(sm, fs) ==
    /\ AllApart(Pieces(sm, fs)) /\ UsedPieces(sm) \cap FreePieces(fs) = {} /\ Once(fs)

SmallOK ==
    /\ SmallTyped(small, free_small, small_page_offs)
    /\ ~destroyed =>
         /\ small_pages = << >> => small_page_offs = 0
         /\ SmallSound(small, free_small)
         /\ \A x \in Pieces(small, free_small) : Within(x, small_pages, small_page_offs)

LargeOK ==
    /\ IsFiniteSet(DOMAIN large)
    /\ \A a \in DOMAIN large : a \in Places /\ a[1] > MaxPages /\ a[2] = 0
    /\ \A a \in DOMAIN large : large[a] \in Nat /\ large[a] >= BlockHeader

PagesOK ==
    /\ pages \subseteq 1 .. MaxPages
    /\ small_pages \in Seq(1 .. MaxPages)
    /\ destroyed => pages = {} /\ held = {} /\ blocks = << >>
    /\ ~destroyed =>
         /\ pages = ToSet(small_pages) \cup PagesOf(blocks)
         /\ ToSet(small_pages) \cap PagesOf(blocks) = {}

\* The sizes of the small blocks in use
SmallSizes(sm) == [a \in DOMAIN sm |-> getSize(sm[a])]

Pointers == [type : Types, at : Places, size : Nat]

\* Every pointer of a type has a block, as large as it needs; f has the sizes
HeldIn(hs, t, f, header) ==
    \A p \in hs : p.type = t => p.at \in DOMAIN f /\ f[p.at] >= p.size + header

HeldTyped(hs) == hs \subseteq Pointers /\ \A p, q \in hs : p.type = q.type /\ p.at = q.at => p = q

HeldOK ==
    /\ HeldTyped(held)
    /\ HeldIn(held, "small", SmallSizes(small), SmallHeader)
    /\ HeldIn(held, "medium", UsedSizes(blocks), BlockHeader)
    /\ HeldIn(held, "large", large, BlockHeader)

\* The statistics of blocks with sizes f
Entry(f, header, alloc) == [alloc |-> alloc, used |-> Total(f), data |-> Total(Less(f, header))]

StatsOK ==
    /\ DOMAIN stats = Types
    /\ ~destroyed =>
         /\ stats["small"] = Entry(SmallSizes(small), SmallHeader, PageSize * Len(small_pages))
         /\ stats["medium"] = Entry(UsedSizes(blocks), BlockHeader, Total(SizesOf(blocks)))
         /\ stats["large"] = Entry(large, BlockHeader, Total(large))

Inv == MediumOK /\ ListOK /\ SmallOK /\ LargeOK /\ PagesOK /\ HeldOK /\ StatsOK

-----------------------------------------------------------------------------
(* Numbers.                                                                *)

\* A set of numbers has a least element.
LEMMA LeastElement ==
    ASSUME NEW T \in SUBSET Nat, T # {}
    PROVE  \E x \in T : \A y \in T : x <= y
<1> DEFINE R == OpToRel(<, Nat)
<1>1. IsWellFoundedOn(R, Nat)
  BY NatLessThanWellFounded
<1>2. \A x, y \in Nat : <<y, x>> \in R <=> y < x
  BY DEF OpToRel
<1> HIDE DEF R
<1>3. PICK x \in T : \A y \in T : ~(<<y, x>> \in R)
  BY <1>1, WFMin
<1>4. \A y \in T : x \in Nat /\ y \in Nat /\ ~(y < x)
  BY <1>2, <1>3
<1> QED BY <1>4

\* Min is the least element.
LEMMA MinIsLeast ==
    ASSUME NEW T \in SUBSET Nat, T # {}
    PROVE  Min(T) \in T /\ \A y \in T : Min(T) <= y
BY LeastElement DEF Min

\* Division with a remainder.
LEMMA Division ==
    ASSUME NEW n \in Nat \ {0}, NEW v \in Nat
    PROVE  /\ v \div n \in Nat /\ v % n \in 0 .. n - 1
           /\ v = n * (v \div n) + (v % n)
OBVIOUS

\* A multiple of n has no remainder, and dividing finds the factor.
LEMMA Multiples ==
    ASSUME NEW n \in Nat \ {0}, NEW q \in Nat
    PROVE  (q * n) % n = 0 /\ (q * n) \div n = q
<1> DEFINE v == q * n
           p == v \div n
           s == v % n
<1>1. v \in Nat
  OBVIOUS
<1>2. p \in Nat /\ s \in 0 .. n - 1 /\ v = n * p + s
  BY <1>1, Division
<1>3. v = q * n
  OBVIOUS
<1> HIDE DEF p, s, v
<1>4. n * (q - p) = s
  BY <1>2, <1>3
<1>5. p = q
  <2>1. CASE q - p >= 1
    <3>1. n * (q - p) >= n BY <1>2, <2>1
    <3> QED BY <1>2, <1>4, <3>1
  <2>2. CASE q - p <= -1
    <3>1. n * (q - p) <= -n BY <1>2, <2>2
    <3> QED BY <1>2, <1>4, <3>1
  <2> QED BY <1>2, <2>1, <2>2
<1>6. s = 0
  BY <1>2, <1>4, <1>5
<1> QED BY <1>5, <1>6 DEF p, s, v

\* Aligned numbers are the multiples of the alignment.
LEMMA AlignedFactor ==
    ASSUME HeapAssumption, NEW n \in Nat
    PROVE  n \in Aligned <=> \E q \in Nat : n = q * Align
<1>1. Align \in Nat \ {0}
  BY DEF HeapAssumption
<1>2. ASSUME n \in Aligned PROVE \E q \in Nat : n = q * Align
  <2>1. n \div Align \in Nat /\ n = Align * (n \div Align) + (n % Align) /\ n % Align = 0
    BY <1>1, <1>2, Division DEF Aligned
  <2>2. PICK q \in Nat : q = n \div Align /\ n = Align * q + 0
    BY <2>1
  <2>3. n = q * Align
    BY <1>1, <2>2
  <2> QED BY <2>3
<1>3. ASSUME NEW q \in Nat, n = q * Align PROVE n \in Aligned
  BY <1>1, <1>3, Multiples DEF Aligned
<1> QED BY <1>2, <1>3

\* Sums and differences of aligned numbers are aligned.
LEMMA AlignedSums ==
    ASSUME HeapAssumption, NEW m \in Aligned, NEW n \in Aligned
    PROVE  m + n \in Aligned /\ (m >= n => m - n \in Aligned)
<1>1. Align \in Nat \ {0} /\ m \in Nat /\ n \in Nat
  BY DEF HeapAssumption, Aligned
<1>2. PICK q \in Nat, p \in Nat : m = q * Align /\ n = p * Align
  BY <1>1, AlignedFactor
<1>3. m + n = (q + p) * Align /\ q + p \in Nat
  BY <1>1, <1>2
<1>4. ASSUME m >= n PROVE m - n \in Aligned
  <2>1. m - n = (q - p) * Align /\ m - n \in Nat
    BY <1>1, <1>2, <1>4
  <2>2. q - p \in Nat
    <3>1. SUFFICES ASSUME q - p <= -1 PROVE FALSE
      BY <1>2
    <3>2. (q - p) * Align <= -Align
      BY <1>1, <1>2, <3>1
    <3> QED BY <1>1, <2>1, <3>2
  <2> QED BY <2>1, <2>2, AlignedFactor
<1> QED BY <1>1, <1>3, <1>4, AlignedFactor

\* Rounding up yields the next aligned number.
LEMMA RoundedUp ==
    ASSUME HeapAssumption, NEW n \in Nat
    PROVE  rounded(n) \in Aligned /\ rounded(n) >= n /\ rounded(n) < n + Align
<1>1. Align \in Nat \ {0}
  BY DEF HeapAssumption
<1> DEFINE v == n + Align - 1
<1>2. v \in Nat
  BY <1>1
<1>3. v \div Align \in Nat /\ v % Align \in 0 .. Align - 1 /\ v = Align * (v \div Align) + (v % Align)
  BY <1>1, <1>2, Division
<1>4. PICK q \in Nat : q = v \div Align
  BY <1>3
<1>5. PICK r \in 0 .. Align - 1 : r = v % Align
  BY <1>3
<1>6. v = Align * q + r
  BY <1>3, <1>4, <1>5
<1>7. rounded(n) = q * Align
  BY <1>4 DEF rounded
<1>8. q * Align = v - r /\ v - r \in Int
  BY <1>1, <1>2, <1>6
<1>9. v - r >= n /\ v - r < n + Align
  BY <1>1
<1>10. rounded(n) \in Nat
  BY <1>7, <1>8, <1>9
<1> HIDE DEF v
<1> QED BY <1>7, <1>8, <1>9, <1>10, AlignedFactor

\* The sizes of the structures are aligned.
LEMMA AlignedHeaders ==
    ASSUME HeapAssumption
    PROVE  /\ {0, SmallHeader, PageHeader, BlockHeader, FreeHeader, MaxSmall, PageSize} \subseteq Aligned
           /\ Aligned \subseteq Nat /\ Align \in Nat \ {0} /\ Align \in Aligned
<1>1. Align \in Nat \ {0}
  BY DEF HeapAssumption
<1>2. 0 \in Aligned /\ Align \in Aligned
  <2>1. 0 = 0 * Align /\ Align = 1 * Align
    BY <1>1
  <2> QED BY <1>1, <2>1, AlignedFactor
<1> QED BY <1>1, <1>2 DEF HeapAssumption, Aligned

\* A slot has the blocks of one size.
LEMMA SlotSizes ==
    ASSUME HeapAssumption, NEW n \in Aligned, n > 0
    PROVE  /\ slotOf(n) \in Nat /\ getSize(slotOf(n)) = n
           /\ n <= MaxSmall + SmallHeader => slotOf(n) \in Slots
<1>1. Align \in Nat \ {0} /\ n \in Nat /\ MaxSmall + SmallHeader \in Aligned
  BY AlignedHeaders, AlignedSums
<1>2. PICK q \in Nat : n = q * Align
  BY <1>1, AlignedFactor
<1>3. PICK m \in Nat : MaxSmall + SmallHeader = m * Align
  BY <1>1, AlignedFactor DEF Aligned
<1>4. q # 0
  BY <1>1, <1>2
<1>5. n \div Align = q /\ (MaxSmall + SmallHeader) \div Align = m
  BY <1>1, <1>2, <1>3, Multiples
<1>6. slotOf(n) = q - 1
  BY <1>5 DEF slotOf
<1>7. getSize(slotOf(n)) = n
  <2>1. (q - 1) * Align + Align = q * Align
    BY <1>1
  <2> QED BY <1>2, <1>6, <2>1 DEF getSize
<1>8. ASSUME n <= MaxSmall + SmallHeader PROVE q <= m
  <2>1. SUFFICES ASSUME q - m >= 1 PROVE FALSE
    OBVIOUS
  <2>2. (q - m) * Align >= Align
    BY <1>1, <2>1
  <2>3. (q - m) * Align = q * Align - m * Align
    BY <1>1
  <2>4. q * Align \in Nat /\ m * Align \in Nat /\ q * Align <= m * Align
    BY <1>1, <1>2, <1>3, <1>8
  <2> QED BY <1>1, <2>2, <2>3, <2>4
<1> QED BY <1>4, <1>5, <1>6, <1>7, <1>8 DEF Slots

-----------------------------------------------------------------------------
(* Lists.                                                                  *)

\* Two lists, one after the other.
LEMMA Concatenated ==
    ASSUME NEW S, NEW a \in Seq(S), NEW b \in Seq(S)
    PROVE  /\ a \o b \in Seq(S) /\ Len(a \o b) = Len(a) + Len(b)
           /\ \A j \in 1 .. Len(a) + Len(b) :
                 (a \o b)[j] = IF j <= Len(a) THEN a[j] ELSE b[j - Len(a)]
BY ConcatProperties

\* The part of a list before a position, and the one from it.
LEMMA Parts ==
    ASSUME NEW S, NEW c \in Seq(S), NEW k \in 1 .. Len(c) + 1
    PROVE  /\ SubSeq(c, 1, k - 1) \in Seq(S) /\ Len(SubSeq(c, 1, k - 1)) = k - 1
           /\ \A j \in 1 .. k - 1 : SubSeq(c, 1, k - 1)[j] = c[j]
           /\ SubSeq(c, k, Len(c)) \in Seq(S) /\ Len(SubSeq(c, k, Len(c))) = Len(c) + 1 - k
           /\ \A j \in 1 .. Len(c) + 1 - k : SubSeq(c, k, Len(c))[j] = c[k + j - 1]
<1>1. Len(c) \in Nat /\ \A i \in 1 .. Len(c) : c[i] \in S
  BY ElementOfSeq, LenProperties
<1>2. /\ SubSeq(c, 1, k - 1) \in Seq(S)
      /\ Len(SubSeq(c, 1, k - 1)) = IF 1 <= k - 1 THEN (k - 1) - 1 + 1 ELSE 0
      /\ \A j \in 1 .. (k - 1) - 1 + 1 : SubSeq(c, 1, k - 1)[j] = c[1 + j - 1]
  <2>1. \A i \in 1 .. k - 1 : c[i] \in S
    BY <1>1
  <2>2. k - 1 \in Int
    BY <1>1
  <2> QED BY <2>1, <2>2, SubSeqProperties
<1>3. /\ SubSeq(c, k, Len(c)) \in Seq(S)
      /\ Len(SubSeq(c, k, Len(c))) = IF k <= Len(c) THEN Len(c) - k + 1 ELSE 0
      /\ \A j \in 1 .. Len(c) - k + 1 : SubSeq(c, k, Len(c))[j] = c[k + j - 1]
  <2>1. \A i \in k .. Len(c) : c[i] \in S
    BY <1>1
  <2>2. k \in Int
    BY <1>1
  <2> QED BY <1>1, <2>1, <2>2, SubSeqProperties
<1>4. \A j \in 1 .. k - 1 : 1 + j - 1 = j
  BY <1>1
<1>5. Len(SubSeq(c, 1, k - 1)) = k - 1 /\ (k - 1) - 1 + 1 = k - 1
  BY <1>1, <1>2
<1>6. Len(SubSeq(c, k, Len(c))) = Len(c) + 1 - k /\ Len(c) - k + 1 = Len(c) + 1 - k
  BY <1>1, <1>3
<1> QED BY <1>2, <1>3, <1>4, <1>5, <1>6

\* One element of a list is removed.
LEMMA RemovedAt ==
    ASSUME NEW S, NEW c \in Seq(S), NEW k \in 1 .. Len(c)
    PROVE  /\ RemoveAt(c, k) \in Seq(S)
           /\ Len(RemoveAt(c, k)) = Len(c) - 1
           /\ \A j \in 1 .. Len(c) - 1 :
                 RemoveAt(c, k)[j] = IF j < k THEN c[j] ELSE c[j + 1]
<1> DEFINE a == SubSeq(c, 1, k - 1)
           b == SubSeq(c, k + 1, Len(c))
           n == Len(c)
<1>1. n \in Nat /\ k \in 1 .. n + 1 /\ k + 1 \in 1 .. n + 1
  BY LenProperties
<1>2. a \in Seq(S) /\ Len(a) = k - 1 /\ \A j \in 1 .. k - 1 : a[j] = c[j]
  BY <1>1, Parts
<1>3. b \in Seq(S) /\ Len(b) = n - k /\ \A j \in 1 .. n - k : b[j] = c[j + k]
  <2>1. /\ b \in Seq(S) /\ Len(b) = n + 1 - (k + 1)
        /\ \A j \in 1 .. n + 1 - (k + 1) : b[j] = c[(k + 1) + j - 1]
    BY <1>1, Parts
  <2>2. n + 1 - (k + 1) = n - k /\ \A j \in 1 .. n - k : (k + 1) + j - 1 = j + k
    BY <1>1
  <2> QED BY <2>1, <2>2
<1>4. /\ a \o b \in Seq(S) /\ Len(a \o b) = Len(a) + Len(b)
      /\ \A j \in 1 .. Len(a) + Len(b) :
            (a \o b)[j] = IF j <= Len(a) THEN a[j] ELSE b[j - Len(a)]
  BY <1>2, <1>3, Concatenated
<1>5. RemoveAt(c, k) = a \o b
  BY DEF RemoveAt
<1> HIDE DEF a, b
<1>6. Len(a) + Len(b) = n - 1
  BY <1>1, <1>2, <1>3
<1>7. ASSUME NEW j \in 1 .. n - 1
      PROVE  (a \o b)[j] = IF j < k THEN c[j] ELSE c[j + 1]
  <2>1. (a \o b)[j] = IF j <= k - 1 THEN a[j] ELSE b[j - (k - 1)]
    BY <1>2, <1>4, <1>6, <1>7
  <2>2. CASE j < k
    <3>1. j \in 1 .. k - 1
      BY <1>1, <1>7, <2>2
    <3> QED BY <1>2, <2>1, <2>2, <3>1
  <2>3. CASE ~(j < k)
    <3>1. j - (k - 1) \in 1 .. n - k /\ (j - (k - 1)) + k = j + 1 /\ ~(j <= k - 1)
      BY <1>1, <1>7, <2>3
    <3> QED BY <1>3, <2>1, <2>3, <3>1
  <2> QED BY <2>2, <2>3
<1> QED BY <1>4, <1>5, <1>6, <1>7

\* One element is inserted.
LEMMA InsertedAt ==
    ASSUME NEW S, NEW c \in Seq(S), NEW k \in 1 .. Len(c) + 1, NEW e \in S
    PROVE  /\ InsertAt(c, k, e) \in Seq(S)
           /\ Len(InsertAt(c, k, e)) = Len(c) + 1
           /\ \A j \in 1 .. Len(c) + 1 :
                 InsertAt(c, k, e)[j] = IF j < k THEN c[j] ELSE IF j = k THEN e ELSE c[j - 1]
<1> DEFINE a == SubSeq(c, 1, k - 1)
           b == SubSeq(c, k, Len(c))
           o == <<e>>
           n == Len(c)
<1>1. n \in Nat /\ k \in 1 .. n + 1
  BY LenProperties
<1>2. a \in Seq(S) /\ Len(a) = k - 1 /\ \A j \in 1 .. k - 1 : a[j] = c[j]
  BY <1>1, Parts
<1>3. b \in Seq(S) /\ Len(b) = n + 1 - k /\ \A j \in 1 .. n + 1 - k : b[j] = c[k + j - 1]
  BY <1>1, Parts
<1>4. o \in Seq(S) /\ Len(o) = 1 /\ o[1] = e
  OBVIOUS
<1>5. InsertAt(c, k, e) = (a \o o) \o b
  BY DEF InsertAt
<1> HIDE DEF a, b, o
<1>6. /\ a \o o \in Seq(S) /\ Len(a \o o) = Len(a) + Len(o)
      /\ \A j \in 1 .. Len(a) + Len(o) :
            (a \o o)[j] = IF j <= Len(a) THEN a[j] ELSE o[j - Len(a)]
  BY <1>2, <1>4, Concatenated
<1>7. PICK d \in Seq(S) : d = a \o o
  BY <1>6
<1>8. Len(d) = k /\ \A j \in 1 .. k : d[j] = IF j < k THEN c[j] ELSE e
  <2>1. Len(d) = k
    BY <1>1, <1>2, <1>4, <1>6, <1>7
  <2>2. ASSUME NEW j \in 1 .. k PROVE d[j] = IF j < k THEN c[j] ELSE e
    <3>1. d[j] = IF j <= k - 1 THEN a[j] ELSE o[j - (k - 1)]
      BY <1>1, <1>2, <1>4, <1>6, <1>7
    <3>2. CASE j < k
      <4>1. j \in 1 .. k - 1
        BY <1>1, <3>2
      <4> QED BY <1>2, <3>1, <3>2, <4>1
    <3>3. CASE ~(j < k)
      <4>1. j - (k - 1) = 1 /\ ~(j <= k - 1)
        BY <1>1, <3>3
      <4> QED BY <1>4, <3>1, <3>3, <4>1
    <3> QED BY <3>2, <3>3
  <2> QED BY <2>1, <2>2
<1>9. /\ d \o b \in Seq(S) /\ Len(d \o b) = Len(d) + Len(b)
      /\ \A j \in 1 .. Len(d) + Len(b) :
            (d \o b)[j] = IF j <= Len(d) THEN d[j] ELSE b[j - Len(d)]
  <2>1. d \in Seq(S) /\ b \in Seq(S)
    BY <1>3, <1>7
  <2> QED BY ONLY <2>1, Concatenated
<1>10. Len(d) + Len(b) = n + 1
  BY <1>1, <1>3, <1>8
<1>11. ASSUME NEW j \in 1 .. n + 1
       PROVE  (d \o b)[j] = IF j < k THEN c[j] ELSE IF j = k THEN e ELSE c[j - 1]
  <2>1. (d \o b)[j] = IF j <= k THEN d[j] ELSE b[j - k]
    BY <1>8, <1>9, <1>10, <1>11
  <2>2. CASE j <= k
    <3>1. j \in 1 .. k
      BY <1>1, <1>11, <2>2
    <3> QED BY <1>1, <1>8, <2>1, <2>2, <3>1
  <2>3. CASE ~(j <= k)
    <3>1. j - k \in 1 .. n + 1 - k /\ k + (j - k) - 1 = j - 1 /\ ~(j < k) /\ j # k
      BY <1>1, <1>11, <2>3
    <3> QED BY <1>3, <2>1, <2>3, <3>1
  <2> QED BY <2>2, <2>3
<1> QED BY <1>5, <1>7, <1>9, <1>10, <1>11

\* RemoveFirst of an element that the list has once.
LEMMA RemovedFirst ==
    ASSUME NEW S, NEW c \in Seq(S), IsInjective(c), NEW e \in ToSet(c)
    PROVE  \E k \in 1 .. Len(c) : c[k] = e /\ RemoveFirst(c, e) = RemoveAt(c, k)
                                  /\ positionOf(c, e) = k
<1> DEFINE I == {i \in 1 .. Len(c) : c[i] = e}
<1>1. Len(c) \in Nat /\ DOMAIN c = 1 .. Len(c)
  BY LenProperties
<1>2. PICK k \in 1 .. Len(c) : c[k] = e
  BY <1>1 DEF ToSet
<1>3. I = {k}
  BY <1>1, <1>2 DEF IsInjective
<1>4. Min(I) = k
  <2>1. I \in SUBSET Nat /\ I # {}
    BY <1>1, <1>3
  <2>2. Min(I) \in I
    BY <2>1, MinIsLeast
  <2> QED BY <1>3, <2>2
<1>5. positionOf(c, e) = Min(I)
  BY <1>3 DEF positionOf, SelectInSeq
<1>6. RemoveFirst(c, e) = RemoveAt(c, SelectInSeq(c, LAMBDA v : v = e))
  BY <1>2 DEF RemoveFirst
<1>7. SelectInSeq(c, LAMBDA v : v = e) = Min(I)
  BY <1>3 DEF SelectInSeq
<1> QED BY <1>2, <1>4, <1>5, <1>6, <1>7

-----------------------------------------------------------------------------
(* Sums.                                                                   *)

Bytes(f) == UNION {{x} \X (1 .. f[x]) : x \in DOMAIN f}

\* The bytes of finitely many blocks.
LEMMA BytesFinite ==
    ASSUME NEW f, IsFiniteSet(DOMAIN f), \A x \in DOMAIN f : f[x] \in Nat
    PROVE  /\ IsFiniteSet(Bytes(f)) /\ Total(f) = Cardinality(Bytes(f))
           /\ Total(f) \in Nat
<1> DEFINE D == DOMAIN f
           T == {{x} \X (1 .. f[x]) : x \in D}
           g == [x \in D |-> {x} \X (1 .. f[x])]
<1>1. g \in Surjection(D, T)
  BY DEF Surjection
<1>2. IsFiniteSet(T)
  BY <1>1, FS_Surjection
<1>3. ASSUME NEW U \in T PROVE IsFiniteSet(U)
  <2>1. PICK x \in D : U = {x} \X (1 .. f[x])
    OBVIOUS
  <2>2. IsFiniteSet({x})
    BY FS_Singleton
  <2>3. f[x] \in Int /\ 1 \in Int
    OBVIOUS
  <2>4. IsFiniteSet(1 .. f[x])
    BY <2>3, FS_Interval
  <2> QED BY <2>1, <2>2, <2>4, FS_Product
<1>4. IsFiniteSet(UNION T)
  BY <1>2, <1>3, FS_UNION
<1>5. Bytes(f) = UNION T /\ Total(f) = Cardinality(UNION T)
  BY DEF Bytes, Total
<1> QED BY <1>4, <1>5, FS_CardinalityType

\* A sum with one summand more.
LEMMA TotalMore ==
    ASSUME NEW f, IsFiniteSet(DOMAIN f), \A x \in DOMAIN f : f[x] \in Nat,
           NEW a, a \notin DOMAIN f,
           NEW g, DOMAIN g = DOMAIN f \cup {a}, g[a] \in Nat, \A x \in DOMAIN f : g[x] = f[x]
    PROVE  /\ IsFiniteSet(DOMAIN g) /\ \A x \in DOMAIN g : g[x] \in Nat
           /\ Total(f) \in Nat /\ Total(g) = Total(f) + g[a]
<1> DEFINE B == {a} \X (1 .. g[a])
<1>1. IsFiniteSet(DOMAIN g) /\ \A x \in DOMAIN g : g[x] \in Nat
  BY FS_AddElement
<1>2. IsFiniteSet(B) /\ Cardinality(B) = g[a]
  <2>1. IsFiniteSet({a}) /\ Cardinality({a}) = 1
    BY FS_Singleton
  <2>2. IsFiniteSet(1 .. g[a]) /\ Cardinality(1 .. g[a]) = g[a]
    BY FS_Interval
  <2> DEFINE A == {a}
             I == 1 .. g[a]
  <2> HIDE DEF A, I
  <2>3. IsFiniteSet(A \X I) /\ Cardinality(A \X I) = Cardinality(A) * Cardinality(I)
    BY <2>1, <2>2, FS_Product DEF A, I
  <2>4. IsFiniteSet(B) /\ Cardinality(B) = 1 * g[a]
    BY <2>1, <2>2, <2>3 DEF A, I
  <2> QED BY <2>4
<1>3. Bytes(g) = Bytes(f) \cup B
  <2>1. ASSUME NEW b PROVE b \in Bytes(g) <=> \E x \in DOMAIN g : b \in {x} \X (1 .. g[x])
    BY DEF Bytes
  <2>2. ASSUME NEW b PROVE b \in Bytes(f) <=> \E x \in DOMAIN f : b \in {x} \X (1 .. f[x])
    BY DEF Bytes
  <2>3. ASSUME NEW b PROVE b \in Bytes(g) <=> b \in Bytes(f) \/ b \in B
    BY <2>1, <2>2
  <2> QED BY <2>3
<1>4. Bytes(f) \cap B = {}
  <2>1. ASSUME NEW b \in Bytes(f), b \in B PROVE FALSE
    <3>1. PICK x \in DOMAIN f : b \in {x} \X (1 .. f[x])
      BY <2>1 DEF Bytes
    <3>2. b[1] = x /\ b[1] = a
      BY <2>1, <3>1
    <3> QED BY <3>2
  <2> QED BY <2>1
<1>5. /\ IsFiniteSet(Bytes(f)) /\ Total(f) = Cardinality(Bytes(f)) /\ Total(f) \in Nat
      /\ Total(g) = Cardinality(Bytes(g))
  BY <1>1, BytesFinite
<1>6. Cardinality(Bytes(g)) = Cardinality(Bytes(f)) + Cardinality(B) - Cardinality({})
  BY <1>2, <1>3, <1>4, <1>5, FS_Union
<1>7. Cardinality({}) = 0
  BY FS_EmptySet
<1> QED BY <1>1, <1>2, <1>5, <1>6, <1>7

\* A sum with one summand changed.
LEMMA TotalChanged ==
    ASSUME NEW f, IsFiniteSet(DOMAIN f), \A x \in DOMAIN f : f[x] \in Nat,
           NEW a \in DOMAIN f,
           NEW g, DOMAIN g = DOMAIN f, g[a] \in Nat, \A x \in DOMAIN f \ {a} : g[x] = f[x]
    PROVE  /\ \A x \in DOMAIN g : g[x] \in Nat
           /\ Total(f) \in Nat /\ Total(g) \in Nat /\ Total(g) = Total(f) - f[a] + g[a]
<1> DEFINE h == [x \in DOMAIN f \ {a} |-> f[x]]
<1>1. /\ DOMAIN h = DOMAIN f \ {a} /\ IsFiniteSet(DOMAIN h) /\ a \notin DOMAIN h
      /\ \A x \in DOMAIN h : h[x] \in Nat
  BY FS_RemoveElement
<1>2. /\ DOMAIN f = DOMAIN h \cup {a} /\ DOMAIN g = DOMAIN h \cup {a}
      /\ \A x \in DOMAIN h : f[x] = h[x] /\ g[x] = h[x]
  OBVIOUS
<1> HIDE DEF h
<1>3. Total(h) \in Nat /\ Total(f) = Total(h) + f[a]
  <2>1. f[a] \in Nat /\ \A x \in DOMAIN h : f[x] = h[x]
    BY <1>2
  <2> QED BY ONLY <1>1, <1>2, <2>1, TotalMore
<1>4. Total(g) = Total(h) + g[a]
  <2>1. g[a] \in Nat /\ \A x \in DOMAIN h : g[x] = h[x]
    BY <1>2
  <2> QED BY ONLY <1>1, <1>2, <2>1, TotalMore
<1> QED BY <1>3, <1>4

\* An empty sum.
LEMMA TotalEmpty ==
    ASSUME NEW f, DOMAIN f = {}
    PROVE  Total(f) = 0
<1>1. UNION {{x} \X (1 .. f[x]) : x \in DOMAIN f} = {}
  OBVIOUS
<1> QED BY <1>1, FS_EmptySet DEF Total

-----------------------------------------------------------------------------
(* The list of blocks.                                                     *)

\* What the list and its blocks are.
LEMMA ChainFacts ==
    ASSUME HeapAssumption, NEW bs, bs \in Seq(Blocks), Sized(bs)
    PROVE  /\ Len(bs) \in Nat /\ DOMAIN bs = 1 .. Len(bs)
           /\ FreeHeader \in Nat \ {0} /\ PageSize \in Nat
           /\ \A i \in 1 .. Len(bs) :
                 /\ bs[i] \in Blocks /\ bs[i].at = <<Home(bs, i), From(bs, i)>>
                 /\ Home(bs, i) \in 1 .. MaxPages /\ From(bs, i) \in Nat /\ From(bs, i) \in Aligned
                 /\ Wide(bs, i) \in Nat /\ Wide(bs, i) \in Aligned
                 /\ Until(bs, i) = From(bs, i) + Wide(bs, i) /\ Until(bs, i) \in Nat
                 /\ From(bs, i) < Until(bs, i) /\ Until(bs, i) <= PageSize /\ Wide(bs, i) >= FreeHeader
                 /\ Number(bs, i) \in Nat /\ Free(bs, i) \in BOOLEAN
<1>1. Len(bs) \in Nat /\ DOMAIN bs = 1 .. Len(bs)
  BY LenProperties
<1>2. FreeHeader \in Nat \ {0} /\ PageSize \in Nat
  BY DEF HeapAssumption
<1>3. ASSUME NEW i \in 1 .. Len(bs)
      PROVE  /\ bs[i] \in Blocks /\ bs[i].at = <<Home(bs, i), From(bs, i)>>
             /\ Home(bs, i) \in 1 .. MaxPages /\ From(bs, i) \in Nat /\ From(bs, i) \in Aligned
             /\ Wide(bs, i) \in Nat /\ Wide(bs, i) \in Aligned
             /\ Until(bs, i) = From(bs, i) + Wide(bs, i) /\ Until(bs, i) \in Nat
             /\ From(bs, i) < Until(bs, i) /\ Until(bs, i) <= PageSize /\ Wide(bs, i) >= FreeHeader
             /\ Number(bs, i) \in Nat /\ Free(bs, i) \in BOOLEAN
  <2>1. bs[i] \in Blocks
    BY <1>1, ElementOfSeq
  <2>2. /\ bs[i].at \in (1 .. MaxPages) \X Aligned /\ Number(bs, i) \in Nat
        /\ Wide(bs, i) \in Aligned /\ Free(bs, i) \in BOOLEAN
    BY <2>1 DEF Blocks, Number, Wide, Free
  <2>3. /\ bs[i].at = <<Home(bs, i), From(bs, i)>>
        /\ Home(bs, i) \in 1 .. MaxPages /\ From(bs, i) \in Aligned
    BY <2>2 DEF Home, From
  <2>4. From(bs, i) \in Nat /\ Wide(bs, i) \in Nat
    BY <2>2, <2>3, AlignedHeaders
  <2>5. Until(bs, i) = From(bs, i) + Wide(bs, i)
    BY DEF Until
  <2>6. From(bs, i) + FreeHeader <= Until(bs, i) /\ Until(bs, i) <= PageSize
    BY DEF Sized
  <2>7. From(bs, i) < Until(bs, i) /\ Wide(bs, i) >= FreeHeader /\ Until(bs, i) \in Nat
    BY ONLY <1>2, <2>4, <2>5, <2>6
  <2> QED BY <2>1, <2>2, <2>3, <2>4, <2>5, <2>6, <2>7
<1> QED BY <1>1, <1>2, <1>3

\* An address belongs to one block.
LEMMA OneBlock ==
    ASSUME HeapAssumption, NEW bs, bs \in Seq(Blocks), Sized(bs), Ordered(bs)
    PROVE  /\ \A i, j \in 1 .. Len(bs) :
                 Home(bs, i) = Home(bs, j) /\ From(bs, i) = From(bs, j) => i = j
           /\ \A i, j \in 1 .. Len(bs) : Where(bs, i) = Where(bs, j) => i = j
           /\ \A i \in 1 .. Len(bs) : /\ bs[i].at = Where(bs, i) /\ Index(bs, Where(bs, i)) = i
                                      /\ Size(bs, Where(bs, i)) = Wide(bs, i)
           /\ \A a \in At(bs) : /\ Index(bs, a) \in 1 .. Len(bs) /\ Where(bs, Index(bs, a)) = a
                                /\ Size(bs, a) = Wide(bs, Index(bs, a))
<1>1. ASSUME NEW i \in 1 .. Len(bs), NEW j \in 1 .. Len(bs),
             Home(bs, i) = Home(bs, j), From(bs, i) = From(bs, j), i < j
      PROVE  FALSE
  <2>1. Until(bs, i) <= From(bs, j)
    BY <1>1 DEF Ordered
  <2>2. From(bs, i) \in Nat /\ Until(bs, i) \in Nat /\ From(bs, i) < Until(bs, i)
    BY ChainFacts
  <2> QED BY ONLY <1>1, <2>1, <2>2
<1>2. \A i, j \in 1 .. Len(bs) : Home(bs, i) = Home(bs, j) /\ From(bs, i) = From(bs, j) => i = j
  <2>1. \A i, j \in 1 .. Len(bs) : i = j \/ i < j \/ j < i
    BY ChainFacts
  <2> QED BY <1>1, <2>1
<1>3. \A i, j \in 1 .. Len(bs) : Where(bs, i) = Where(bs, j) => i = j
  BY <1>2 DEF Where
<1>4. \A i \in 1 .. Len(bs) : bs[i].at = Where(bs, i)
  BY ChainFacts DEF Where
<1>5. ASSUME NEW i \in 1 .. Len(bs)
      PROVE  Index(bs, Where(bs, i)) = i /\ Size(bs, Where(bs, i)) = Wide(bs, i)
  <2>1. DOMAIN bs = 1 .. Len(bs)
    BY ChainFacts
  <2> QED BY <1>3, <1>4, <2>1 DEF Index, Size, Wide
<1> QED BY <1>2, <1>3, <1>4, <1>5 DEF At

\* The addresses and the free ones.
LEMMA Addresses ==
    ASSUME HeapAssumption, NEW bs, bs \in Seq(Blocks), Sized(bs)
    PROVE  /\ At(bs) = {b.at : b \in ToSet(bs)}
           /\ FreeAt(bs) = {b.at : b \in {c \in ToSet(bs) : c.is_free}}
           /\ FreeAt(bs) \subseteq At(bs) /\ At(bs) \subseteq (1 .. MaxPages) \X Aligned
           /\ At(bs) \subseteq Places /\ IsFiniteSet(At(bs))
<1>1. /\ At(bs) = {b.at : b \in ToSet(bs)}
      /\ FreeAt(bs) = {b.at : b \in {c \in ToSet(bs) : c.is_free}}
      /\ FreeAt(bs) \subseteq At(bs)
  <2>1. DOMAIN bs = 1 .. Len(bs) /\ \A i \in 1 .. Len(bs) : bs[i].at = Where(bs, i)
    BY ChainFacts DEF Where
  <2> QED BY <2>1 DEF At, FreeAt, ToSet, Free
<1>2. At(bs) \subseteq (1 .. MaxPages) \X Aligned /\ At(bs) \subseteq Places
  <2>1. ASSUME NEW i \in 1 .. Len(bs)
        PROVE  Where(bs, i) \in (1 .. MaxPages) \X Aligned /\ Where(bs, i) \in Places
    <3>1. Home(bs, i) \in 1 .. MaxPages /\ From(bs, i) \in Aligned
      BY ONLY ChainFacts, <2>1, HeapAssumption, bs \in Seq(Blocks), Sized(bs)
    <3>2. Home(bs, i) \in Nat /\ From(bs, i) \in Nat
      BY ONLY ChainFacts, <2>1, HeapAssumption, bs \in Seq(Blocks), Sized(bs)
    <3> QED BY ONLY <3>1, <3>2 DEF Where, Places
  <2> QED BY ONLY <2>1 DEF At
<1>3. IsFiniteSet(At(bs))
  <2> DEFINE f == [i \in 1 .. Len(bs) |-> Where(bs, i)]
  <2>1. f \in Surjection(1 .. Len(bs), At(bs))
    BY DEF Surjection, At
  <2>2. IsFiniteSet(1 .. Len(bs))
    <3>1. Len(bs) \in Int /\ 1 \in Int
      BY ChainFacts
    <3> QED BY <3>1, FS_Interval
  <2> QED BY <2>1, <2>2, FS_Surjection
<1> QED BY <1>1, <1>2, <1>3

\* A free address is that of a free block, and of no other.
LEMMA FreeBlocks ==
    ASSUME HeapAssumption, NEW bs, ChainOK(bs), NEW i \in 1 .. Len(bs)
    PROVE  Where(bs, i) \in FreeAt(bs) <=> Free(bs, i)
BY OneBlock DEF ChainOK, FreeAt

\* The next block of the same page adjoins.
LEMMA NextAdjoins ==
    ASSUME HeapAssumption, NEW bs, ChainOK(bs), NEW i \in 1 .. Len(bs), i + 1 <= Len(bs),
           Home(bs, i) = Home(bs, i + 1)
    PROVE  Until(bs, i) = From(bs, i + 1)
<1>1. Len(bs) \in Nat /\ i + 1 \in 1 .. Len(bs) /\ i < i + 1 /\ (i + 1) - 1 = i
  <2>1. Len(bs) \in Nat
    BY ChainFacts DEF ChainOK
  <2> QED BY <2>1
<1>2. Until(bs, i) <= From(bs, i + 1)
  BY <1>1 DEF ChainOK, Ordered
<1>3. /\ From(bs, i) \in Nat /\ Until(bs, i) \in Nat /\ From(bs, i) < Until(bs, i)
      /\ From(bs, i + 1) \in Nat
  BY <1>1, ChainFacts DEF ChainOK
<1>4. From(bs, i + 1) # 0
  BY <1>2, <1>3
<1> QED BY <1>1, <1>4 DEF ChainOK, TiledBefore

\* A block that fills its page is alone in it.
LEMMA WholePage ==
    ASSUME HeapAssumption, NEW bs, ChainOK(bs), NEW i \in 1 .. Len(bs), Wide(bs, i) = PageSize
    PROVE  /\ From(bs, i) = 0 /\ Until(bs, i) = PageSize
           /\ \A j \in 1 .. Len(bs) : Home(bs, j) = Home(bs, i) => j = i
<1>1. /\ Len(bs) \in Nat /\ PageSize \in Nat
      /\ From(bs, i) \in Nat /\ Until(bs, i) = From(bs, i) + Wide(bs, i) /\ Until(bs, i) <= PageSize
      /\ \A j \in 1 .. Len(bs) : /\ From(bs, j) \in Nat /\ Until(bs, j) \in Nat
                                 /\ From(bs, j) < Until(bs, j) /\ Until(bs, j) <= PageSize
  BY ChainFacts DEF ChainOK
<1>2. From(bs, i) = 0 /\ Until(bs, i) = PageSize
  BY <1>1
<1>3. ASSUME NEW j \in 1 .. Len(bs), Home(bs, j) = Home(bs, i) PROVE j = i
  <2>1. CASE j < i
    <3>1. Until(bs, j) <= From(bs, i)
      BY <1>3, <2>1 DEF ChainOK, Ordered
    <3> QED BY <1>1, <1>2, <3>1
  <2>2. CASE i < j
    <3>1. Until(bs, i) <= From(bs, j)
      BY <1>3, <2>2 DEF ChainOK, Ordered
    <3> QED BY <1>1, <1>2, <3>1
  <2> QED BY <1>1, <2>1, <2>2
<1> QED BY <1>2, <1>3

-----------------------------------------------------------------------------
(* What becomes of the list: a block is split, marked, joined with the     *)
(* next one, added as a page, removed as a page.                           *)

\* The list after one more block at place k, where q is the end of the one before it
\* and the beginning of the new one.
Before(i, j) == IF j <= i THEN j ELSE j - 1

IsSplit(bs, c, i, q) ==
    /\ c \in Seq(Blocks) /\ Len(c) = Len(bs) + 1
    /\ \A j \in 1 .. Len(bs) + 1 :
         /\ Home(c, j) = Home(bs, Before(i, j)) /\ Number(c, j) = Number(bs, Before(i, j))
         /\ From(c, j) = IF j = i + 1 THEN q ELSE From(bs, Before(i, j))
         /\ Until(c, j) = IF j = i THEN q ELSE Until(bs, Before(i, j))
         /\ Free(c, j) = IF j = i + 1 THEN FALSE ELSE Free(bs, Before(i, j))

\* Splitting a block leaves a sound list.
LEMMA SplitChain ==
    ASSUME HeapAssumption, NEW bs, ChainOK(bs), NEW i \in 1 .. Len(bs),
           NEW q \in Nat, From(bs, i) + FreeHeader <= q, q + FreeHeader <= Until(bs, i),
           NEW c, IsSplit(bs, c, i, q)
    PROVE  ChainOK(c) /\ (NoneAdjoin(bs) => NoneAdjoin(c)) /\ PagesOf(c) = PagesOf(bs)
<1> DEFINE n == Len(bs)
<1>1. n \in Nat /\ i \in 1 .. n /\ FreeHeader \in Nat \ {0} /\ PageSize \in Nat
  BY ChainFacts DEF ChainOK
<1>2. \A j \in 1 .. n : /\ From(bs, j) \in Nat /\ Until(bs, j) \in Nat
                        /\ From(bs, j) + FreeHeader <= Until(bs, j) /\ Until(bs, j) <= PageSize
  BY ChainFacts DEF ChainOK, Sized
<1>3. c \in Seq(Blocks) /\ Len(c) = n + 1
  BY DEF IsSplit
<1>4. ASSUME NEW j \in 1 .. n + 1
      PROVE  /\ Before(i, j) \in 1 .. n /\ (j = i \/ j = i + 1 => Before(i, j) = i)
             /\ Home(c, j) = Home(bs, Before(i, j)) /\ Number(c, j) = Number(bs, Before(i, j))
             /\ From(c, j) = IF j = i + 1 THEN q ELSE From(bs, Before(i, j))
             /\ Until(c, j) = IF j = i THEN q ELSE Until(bs, Before(i, j))
             /\ Free(c, j) = IF j = i + 1 THEN FALSE ELSE Free(bs, Before(i, j))
  <2>1. Before(i, j) \in 1 .. n /\ (j = i \/ j = i + 1 => Before(i, j) = i)
    BY ONLY <1>1, j \in 1 .. n + 1 DEF Before
  <2> QED BY <2>1 DEF IsSplit
\* Each block lies within the one it comes from
<1>5. ASSUME NEW j \in 1 .. n + 1
      PROVE  /\ From(c, j) \in Nat /\ Until(c, j) \in Nat /\ From(c, j) + FreeHeader <= Until(c, j)
             /\ From(c, j) >= From(bs, Before(i, j)) /\ Until(c, j) <= Until(bs, Before(i, j))
             /\ Until(c, j) <= PageSize
  <2>1. PICK k \in 1 .. n : k = Before(i, j)
    BY <1>4
  <2>2. /\ (j = i \/ j = i + 1 => k = i)
        /\ From(c, j) = IF j = i + 1 THEN q ELSE From(bs, k)
        /\ Until(c, j) = IF j = i THEN q ELSE Until(bs, k)
    BY <1>4, <2>1
  <2>3. /\ From(bs, k) \in Nat /\ Until(bs, k) \in Nat
        /\ From(bs, k) + FreeHeader <= Until(bs, k) /\ Until(bs, k) <= PageSize
    BY <1>2
  <2>4. ~(j = i /\ j = i + 1)
    BY <1>1
  <2>5. q \in Nat /\ From(bs, i) + FreeHeader <= q /\ q + FreeHeader <= Until(bs, i)
    OBVIOUS
  <2> QED BY ONLY <1>1, <2>1, <2>2, <2>3, <2>4, <2>5
<1>6. Sized(c)
  BY <1>3, <1>5 DEF Sized
<1>7. Ordered(c)
  <2> SUFFICES ASSUME NEW j \in 1 .. n + 1, NEW k \in 1 .. n + 1, j < k, Home(c, j) = Home(c, k)
               PROVE  Until(c, j) <= From(c, k)
    BY <1>3 DEF Ordered
  <2>1. CASE j = i /\ k = i + 1
    <3>1. Until(c, j) = q /\ From(c, k) = q
      BY <1>4, <2>1
    <3> QED BY <3>1
  <2>2. CASE ~(j = i /\ k = i + 1)
    <3>1. Before(i, j) < Before(i, k)
      BY ONLY <1>1, <2>2, j < k, j \in 1 .. n + 1, k \in 1 .. n + 1 DEF Before
    <3>2. /\ Before(i, j) \in 1 .. n /\ Before(i, k) \in 1 .. n
          /\ Home(bs, Before(i, j)) = Home(bs, Before(i, k))
      BY <1>4
    <3>3. Until(bs, Before(i, j)) <= From(bs, Before(i, k))
      BY <3>1, <3>2 DEF ChainOK, Ordered
    <3>4. /\ Until(bs, Before(i, j)) \in Nat /\ From(bs, Before(i, k)) \in Nat
          /\ Until(c, j) \in Nat /\ Until(c, j) <= Until(bs, Before(i, j))
          /\ From(c, k) \in Nat /\ From(c, k) >= From(bs, Before(i, k))
      BY <1>2, <1>5, <3>2
    <3> QED BY ONLY <3>3, <3>4
  <2> QED BY <2>1, <2>2
<1>8. Paged(c)
  <2> SUFFICES ASSUME NEW j \in 1 .. n + 1, NEW k \in 1 .. n + 1
               PROVE  Number(c, j) = Number(c, k) <=> Home(c, j) = Home(c, k)
    BY <1>3 DEF Paged
  <2>1. Before(i, j) \in 1 .. n /\ Before(i, k) \in 1 .. n
    BY <1>4
  <2>2. Number(bs, Before(i, j)) = Number(bs, Before(i, k))
            <=> Home(bs, Before(i, j)) = Home(bs, Before(i, k))
    BY <2>1 DEF ChainOK, Paged
  <2> QED BY <1>4, <2>2
<1>9. TiledBefore(c)
  <2> SUFFICES ASSUME NEW j \in 1 .. n + 1, From(c, j) # 0
               PROVE  j > 1 /\ Home(c, j - 1) = Home(c, j) /\ Until(c, j - 1) = From(c, j)
    BY <1>3 DEF TiledBefore
  <2>1. CASE j = i + 1
    <3>1. j > 1 /\ j - 1 = i /\ i \in 1 .. n + 1
      BY <1>1, <2>1
    <3>2. Home(c, i) = Home(bs, i) /\ Until(c, i) = q
      BY <1>4, <3>1
    <3>3. Home(c, j) = Home(bs, i) /\ From(c, j) = q
      BY <1>4, <2>1
    <3> QED BY <3>1, <3>2, <3>3
  <2>2. CASE j # i + 1
    <3>1. PICK k \in 1 .. n : k = Before(i, j)
      BY <1>4
    <3>2. Home(c, j) = Home(bs, k) /\ From(c, j) = From(bs, k)
      BY <1>4, <2>2, <3>1
    <3>3. k > 1 /\ Home(bs, k - 1) = Home(bs, k) /\ Until(bs, k - 1) = From(bs, k)
      BY <3>2 DEF ChainOK, TiledBefore
    <3>4. j > 1 /\ j - 1 \in 1 .. n + 1 /\ Before(i, j - 1) = k - 1 /\ j - 1 # i
      BY ONLY <1>1, <2>2, <3>1, <3>3, j \in 1 .. n + 1 DEF Before
    <3>5. Home(c, j - 1) = Home(bs, k - 1) /\ Until(c, j - 1) = Until(bs, k - 1)
      BY <1>4, <3>4
    <3> QED BY <3>2, <3>3, <3>4, <3>5
  <2> QED BY <2>1, <2>2
<1>10. TiledBehind(c)
  <2> SUFFICES ASSUME NEW j \in 1 .. n + 1, Until(c, j) # PageSize
               PROVE  j < n + 1 /\ Home(c, j + 1) = Home(c, j) /\ Until(c, j) = From(c, j + 1)
    BY <1>3 DEF TiledBehind
  <2>1. CASE j = i
    <3>1. j < n + 1 /\ i + 1 \in 1 .. n + 1
      BY <1>1, <2>1
    <3>2. Home(c, j) = Home(bs, i) /\ Until(c, j) = q
      BY <1>4, <2>1
    <3>3. Home(c, i + 1) = Home(bs, i) /\ From(c, i + 1) = q
      BY <1>4, <3>1
    <3> QED BY <2>1, <3>1, <3>2, <3>3
  <2>2. CASE j # i
    <3>1. PICK k \in 1 .. n : k = Before(i, j)
      BY <1>4
    <3>2. Home(c, j) = Home(bs, k) /\ Until(c, j) = Until(bs, k)
      BY <1>4, <2>2, <3>1
    <3>3. k < n /\ Home(bs, k + 1) = Home(bs, k) /\ Until(bs, k) = From(bs, k + 1)
      BY <3>2 DEF ChainOK, TiledBehind
    <3>4. j < n + 1 /\ j + 1 \in 1 .. n + 1 /\ Before(i, j + 1) = k + 1 /\ j + 1 # i + 1
      BY ONLY <1>1, <2>2, <3>1, <3>3, j \in 1 .. n + 1 DEF Before
    <3>5. Home(c, j + 1) = Home(bs, k + 1) /\ From(c, j + 1) = From(bs, k + 1)
      BY <1>4, <3>4
    <3> QED BY <3>2, <3>3, <3>4, <3>5
  <2> QED BY <2>1, <2>2
<1>11. ASSUME NoneAdjoin(bs) PROVE NoneAdjoin(c)
  <2> SUFFICES ASSUME NEW j \in 1 .. n + 1, NEW k \in 1 .. n + 1,
                      k = j + 1, Home(c, j) = Home(c, k), Free(c, j), Free(c, k)
               PROVE  FALSE
    BY <1>3 DEF NoneAdjoin
  <2>1. j # i + 1 /\ k # i + 1 /\ Free(bs, Before(i, j)) /\ Free(bs, Before(i, k))
    BY <1>4
  <2>2. Before(i, k) = Before(i, j) + 1
    BY ONLY <1>1, <2>1, k = j + 1, j \in 1 .. n + 1, k \in 1 .. n + 1 DEF Before
  <2>3. Before(i, j) \in 1 .. n /\ Before(i, k) \in 1 .. n
        /\ Home(bs, Before(i, j)) = Home(bs, Before(i, k))
    BY <1>4
  <2> QED BY <1>11, <2>1, <2>2, <2>3 DEF NoneAdjoin
<1>12. PagesOf(c) = PagesOf(bs)
  <2>1. \A j \in 1 .. n + 1 : \E k \in 1 .. n : Home(c, j) = Home(bs, k)
    BY <1>4
  <2>2. ASSUME NEW k \in 1 .. n PROVE \E j \in 1 .. n + 1 : Home(c, j) = Home(bs, k)
    <3>1. CASE k <= i
      <4>1. k \in 1 .. n + 1 /\ Before(i, k) = k
        BY <1>1, <3>1 DEF Before
      <4> QED BY <1>4, <4>1
    <3>2. CASE ~(k <= i)
      <4>1. k + 1 \in 1 .. n + 1 /\ Before(i, k + 1) = k
        BY <1>1, <3>2 DEF Before
      <4> QED BY <1>4, <4>1
    <3> QED BY <3>1, <3>2
  <2> QED BY <1>3, <2>1, <2>2 DEF PagesOf
<1> QED BY <1>3, <1>6, <1>7, <1>8, <1>9, <1>10, <1>11, <1>12 DEF ChainOK

\* What splitting does to the addresses.
LEMMA SplitAddresses ==
    ASSUME HeapAssumption, NEW bs, ChainOK(bs), NEW i \in 1 .. Len(bs),
           NEW q \in Nat, From(bs, i) + FreeHeader <= q, q + FreeHeader <= Until(bs, i),
           NEW c, IsSplit(bs, c, i, q), NEW a, a = <<Home(bs, i), q>>
    PROVE  /\ a \notin At(bs) /\ At(c) = At(bs) \cup {a} /\ FreeAt(c) = FreeAt(bs)
           /\ Size(c, a) = Until(bs, i) - q
           /\ Size(c, Where(bs, i)) = q - From(bs, i)
           /\ \A x \in At(bs) : x # Where(bs, i) => Size(c, x) = Size(bs, x)
<1> DEFINE n == Len(bs)
<1>1. n \in Nat /\ i \in 1 .. n /\ FreeHeader \in Nat \ {0} /\ Len(c) = n + 1
  BY ChainFacts DEF ChainOK, IsSplit
<1>2. ChainOK(c)
  BY SplitChain
<1>3. ASSUME NEW j \in 1 .. n + 1
      PROVE  /\ Before(i, j) \in 1 .. n /\ (j = i \/ j = i + 1 => Before(i, j) = i)
             /\ Home(c, j) = Home(bs, Before(i, j))
             /\ From(c, j) = IF j = i + 1 THEN q ELSE From(bs, Before(i, j))
             /\ Until(c, j) = IF j = i THEN q ELSE Until(bs, Before(i, j))
             /\ Free(c, j) = IF j = i + 1 THEN FALSE ELSE Free(bs, Before(i, j))
             /\ Size(c, Where(c, j)) = Until(c, j) - From(c, j)
  <2>1. Before(i, j) \in 1 .. n /\ (j = i \/ j = i + 1 => Before(i, j) = i)
    BY ONLY <1>1, j \in 1 .. n + 1 DEF Before
  <2>2. /\ From(c, j) \in Nat /\ Wide(c, j) \in Nat /\ Until(c, j) = From(c, j) + Wide(c, j)
        /\ Size(c, Where(c, j)) = Wide(c, j)
    BY <1>1, <1>2, ChainFacts, OneBlock DEF ChainOK
  <2>3. Size(c, Where(c, j)) = Until(c, j) - From(c, j)
    BY ONLY <2>2
  <2> QED BY <2>1, <2>3 DEF IsSplit
<1>4. \A j \in 1 .. n + 1 : j # i + 1 => Where(c, j) = Where(bs, Before(i, j))
  BY <1>3 DEF Where
<1>5. i \in 1 .. n + 1 /\ i + 1 \in 1 .. n + 1 /\ i # i + 1
  BY <1>1
<1>6. Where(c, i + 1) = a
  BY <1>3, <1>5 DEF Where
<1>7. ASSUME NEW k \in 1 .. n
      PROVE  \E j \in 1 .. n + 1 : j # i + 1 /\ Before(i, j) = k /\ (k # i => j # i)
  <2>1. CASE k <= i
    <3>1. k \in 1 .. n + 1 /\ Before(i, k) = k /\ k # i + 1
      BY <1>1, <2>1 DEF Before
    <3> QED BY <3>1
  <2>2. CASE ~(k <= i)
    <3>1. k + 1 \in 1 .. n + 1 /\ Before(i, k + 1) = k /\ k + 1 # i + 1 /\ k + 1 # i
      BY <1>1, <2>2 DEF Before
    <3> QED BY <3>1
  <2> QED BY <2>1, <2>2
<1>8. a \notin At(bs)
  <2>1. SUFFICES ASSUME NEW k \in 1 .. n, Where(bs, k) = a PROVE FALSE
    BY DEF At
  <2>2. PICK j \in 1 .. n + 1 : j # i + 1 /\ Before(i, j) = k
    BY <1>7
  <2>3. Where(c, j) = Where(c, i + 1)
    BY <1>4, <1>6, <2>1, <2>2
  <2> QED BY <1>1, <1>2, <1>5, <2>2, <2>3, OneBlock DEF ChainOK
<1>9. At(c) = At(bs) \cup {a}
  <2>1. \A j \in 1 .. n + 1 : Where(c, j) \in At(bs) \cup {a}
    BY <1>3, <1>4, <1>6 DEF At
  <2>2. \A k \in 1 .. n : \E j \in 1 .. n + 1 : Where(c, j) = Where(bs, k)
    BY <1>4, <1>7
  <2> QED BY <1>1, <1>5, <1>6, <2>1, <2>2 DEF At
<1>10. FreeAt(c) = FreeAt(bs)
  <2>1. ASSUME NEW j \in 1 .. n + 1, Free(c, j) PROVE Where(c, j) \in FreeAt(bs)
    <3>1. j # i + 1 /\ Before(i, j) \in 1 .. n /\ Free(bs, Before(i, j))
      BY <1>3, <2>1
    <3> QED BY <1>4, <3>1 DEF FreeAt
  <2>2. ASSUME NEW k \in 1 .. n, Free(bs, k)
        PROVE  \E j \in 1 .. n + 1 : Free(c, j) /\ Where(c, j) = Where(bs, k)
    BY <1>3, <1>4, <1>7, <2>2
  <2> QED BY <1>1, <2>1, <2>2 DEF FreeAt
<1>11. Size(c, a) = Until(bs, i) - q
  BY <1>3, <1>5, <1>6
<1>12. Size(c, Where(bs, i)) = q - From(bs, i)
  BY <1>3, <1>4, <1>5
<1>13. ASSUME NEW x \in At(bs), x # Where(bs, i) PROVE Size(c, x) = Size(bs, x)
  <2>1. PICK k \in 1 .. n : x = Where(bs, k) /\ k # i
    BY <1>13 DEF At
  <2>2. PICK j \in 1 .. n + 1 : j # i + 1 /\ Before(i, j) = k /\ j # i
    BY <1>7, <2>1
  <2>3. Where(c, j) = x /\ Size(c, x) = Until(bs, k) - From(bs, k)
    BY <1>3, <1>4, <2>1, <2>2
  <2>4. /\ From(bs, k) \in Nat /\ Wide(bs, k) \in Nat /\ Until(bs, k) = From(bs, k) + Wide(bs, k)
        /\ Size(bs, x) = Wide(bs, k)
    BY <2>1, ChainFacts, OneBlock DEF ChainOK
  <2> QED BY ONLY <2>3, <2>4
<1> QED BY <1>8, <1>9, <1>10, <1>11, <1>12, <1>13

\* The list with the flag of the block at k set to f.
IsMarked(bs, c, k, f) ==
    /\ c \in Seq(Blocks) /\ Len(c) = Len(bs)
    /\ \A j \in 1 .. Len(bs) :
         /\ Home(c, j) = Home(bs, j) /\ Number(c, j) = Number(bs, j)
         /\ From(c, j) = From(bs, j) /\ Until(c, j) = Until(bs, j)
         /\ Free(c, j) = IF j = k THEN f ELSE Free(bs, j)

\* What marking does to the list and to the addresses.
LEMMA MarkChain ==
    ASSUME HeapAssumption, NEW bs, ChainOK(bs), NEW k \in 1 .. Len(bs), NEW f \in BOOLEAN,
           NEW c, IsMarked(bs, c, k, f)
    PROVE  /\ ChainOK(c) /\ PagesOf(c) = PagesOf(bs)
           /\ At(c) = At(bs) /\ \A x \in At(bs) : Size(c, x) = Size(bs, x)
           /\ f => FreeAt(c) = FreeAt(bs) \cup {Where(bs, k)}
           /\ ~f => FreeAt(c) = FreeAt(bs) \ {Where(bs, k)} /\ (NoneAdjoin(bs) => NoneAdjoin(c))
<1> DEFINE n == Len(bs)
<1>1. /\ n \in Nat /\ c \in Seq(Blocks) /\ Len(c) = n
      /\ \A j \in 1 .. n :
         /\ Home(c, j) = Home(bs, j) /\ Number(c, j) = Number(bs, j)
         /\ From(c, j) = From(bs, j) /\ Until(c, j) = Until(bs, j)
         /\ Free(c, j) = IF j = k THEN f ELSE Free(bs, j)
  BY ChainFacts DEF ChainOK, IsMarked
<1>2. Sized(c)
  BY <1>1 DEF ChainOK, Sized
<1>3. Ordered(c)
  BY <1>1 DEF ChainOK, Ordered
<1>4. Paged(c)
  BY <1>1 DEF ChainOK, Paged
<1>5. TiledBefore(c)
  <2> SUFFICES ASSUME NEW j \in 1 .. n, From(c, j) # 0
               PROVE  j > 1 /\ Home(c, j - 1) = Home(c, j) /\ Until(c, j - 1) = From(c, j)
    BY <1>1 DEF TiledBefore
  <2>1. j > 1 /\ Home(bs, j - 1) = Home(bs, j) /\ Until(bs, j - 1) = From(bs, j)
    BY <1>1 DEF ChainOK, TiledBefore
  <2>2. j - 1 \in 1 .. n
    BY <1>1, <2>1
  <2> QED BY <1>1, <2>1, <2>2
<1>6. TiledBehind(c)
  <2> SUFFICES ASSUME NEW j \in 1 .. n, Until(c, j) # PageSize
               PROVE  j < n /\ Home(c, j + 1) = Home(c, j) /\ Until(c, j) = From(c, j + 1)
    BY <1>1 DEF TiledBehind
  <2>1. j < n /\ Home(bs, j + 1) = Home(bs, j) /\ Until(bs, j) = From(bs, j + 1)
    BY <1>1 DEF ChainOK, TiledBehind
  <2>2. j + 1 \in 1 .. n
    BY <1>1, <2>1
  <2> QED BY <1>1, <2>1, <2>2
<1>7. ChainOK(c)
  BY <1>1, <1>2, <1>3, <1>4, <1>5, <1>6 DEF ChainOK
<1>8. PagesOf(c) = PagesOf(bs)
  BY <1>1 DEF PagesOf
<1>9. \A j \in 1 .. n : Where(c, j) = Where(bs, j)
  BY <1>1 DEF Where
<1>10. At(c) = At(bs)
  BY <1>1, <1>9 DEF At
<1>11. ASSUME NEW x \in At(bs) PROVE Size(c, x) = Size(bs, x)
  <2>1. PICK j \in 1 .. n : x = Where(bs, j)
    BY DEF At
  <2>2. Size(bs, x) = Wide(bs, j) /\ Size(c, x) = Wide(c, j)
    BY <1>1, <1>7, <1>9, <2>1, OneBlock DEF ChainOK
  <2>3. /\ From(bs, j) \in Nat /\ Wide(bs, j) \in Nat /\ Until(bs, j) = From(bs, j) + Wide(bs, j)
        /\ Wide(c, j) \in Nat /\ Until(c, j) = From(c, j) + Wide(c, j)
        /\ From(c, j) = From(bs, j) /\ Until(c, j) = Until(bs, j)
    BY <1>1, <1>7, ChainFacts DEF ChainOK
  <2> QED BY ONLY <2>2, <2>3
<1>12. \A j \in 1 .. n : Where(bs, j) = Where(bs, k) => j = k
  BY OneBlock DEF ChainOK
<1>13. ASSUME f PROVE FreeAt(c) = FreeAt(bs) \cup {Where(bs, k)}
  BY <1>1, <1>9, <1>12, <1>13 DEF FreeAt
<1>14. ASSUME ~f PROVE FreeAt(c) = FreeAt(bs) \ {Where(bs, k)}
  BY <1>1, <1>9, <1>12, <1>14 DEF FreeAt
<1>15. ASSUME ~f, NoneAdjoin(bs) PROVE NoneAdjoin(c)
  BY <1>1, <1>15 DEF NoneAdjoin
<1> QED BY <1>7, <1>8, <1>10, <1>11, <1>13, <1>14, <1>15

\* The list with the blocks at k and k + 1 joined.
After(k, j) == IF j <= k THEN j ELSE j + 1

IsJoined(bs, c, k) ==
    /\ c \in Seq(Blocks) /\ Len(c) = Len(bs) - 1
    /\ \A j \in 1 .. Len(bs) - 1 :
         /\ Home(c, j) = Home(bs, After(k, j)) /\ Number(c, j) = Number(bs, After(k, j))
         /\ From(c, j) = From(bs, After(k, j)) /\ Free(c, j) = Free(bs, After(k, j))
         /\ Until(c, j) = IF j = k THEN Until(bs, k + 1) ELSE Until(bs, After(k, j))

\* Joining two blocks of a page leaves a sound list.
LEMMA JoinChain ==
    ASSUME HeapAssumption, NEW bs, ChainOK(bs), NEW k \in 1 .. Len(bs), k + 1 \in 1 .. Len(bs),
           Home(bs, k) = Home(bs, k + 1), NEW c, IsJoined(bs, c, k)
    PROVE  ChainOK(c) /\ PagesOf(c) = PagesOf(bs)
<1> DEFINE n == Len(bs)
           m == Len(bs) - 1
<1>1. n \in Nat /\ m \in Nat /\ k \in 1 .. m /\ FreeHeader \in Nat \ {0} /\ PageSize \in Nat
  <2>1. n \in Nat /\ FreeHeader \in Nat \ {0} /\ PageSize \in Nat
    BY ChainFacts DEF ChainOK
  <2> QED BY <2>1
<1>2. \A j \in 1 .. n : /\ From(bs, j) \in Nat /\ Until(bs, j) \in Nat
                        /\ From(bs, j) + FreeHeader <= Until(bs, j) /\ Until(bs, j) <= PageSize
  BY ChainFacts DEF ChainOK, Sized
<1>3. c \in Seq(Blocks) /\ Len(c) = m
  BY DEF IsJoined
<1>4. ASSUME NEW j \in 1 .. m
      PROVE  /\ After(k, j) \in 1 .. n /\ After(k, j) # k + 1 /\ (After(k, j) = k <=> j = k)
             /\ Home(c, j) = Home(bs, After(k, j)) /\ Number(c, j) = Number(bs, After(k, j))
             /\ From(c, j) = From(bs, After(k, j))
             /\ Until(c, j) = IF j = k THEN Until(bs, k + 1) ELSE Until(bs, After(k, j))
  <2>1. After(k, j) \in 1 .. n /\ After(k, j) # k + 1 /\ (After(k, j) = k <=> j = k)
    BY ONLY <1>1, j \in 1 .. m DEF After
  <2> QED BY <2>1 DEF IsJoined
<1>5. Until(bs, k) = From(bs, k + 1)
  <2>1. k \in 1 .. Len(bs) /\ k + 1 <= Len(bs)
    BY <1>1
  <2> QED BY ONLY HeapAssumption, ChainOK(bs), Home(bs, k) = Home(bs, k + 1), <2>1, NextAdjoins
<1>6. Sized(c)
  <2> SUFFICES ASSUME NEW j \in 1 .. m
               PROVE  From(c, j) + FreeHeader <= Until(c, j) /\ Until(c, j) <= PageSize
    BY <1>3 DEF Sized
  <2>1. CASE j = k
    <3>1. From(c, j) = From(bs, k) /\ Until(c, j) = Until(bs, k + 1)
      BY <1>4, <2>1
    <3>2. /\ From(bs, k) \in Nat /\ From(bs, k) + FreeHeader <= Until(bs, k)
          /\ From(bs, k + 1) \in Nat /\ From(bs, k + 1) + FreeHeader <= Until(bs, k + 1)
          /\ Until(bs, k + 1) \in Nat /\ Until(bs, k + 1) <= PageSize
      BY <1>2
    <3> QED BY ONLY <1>1, <1>5, <3>1, <3>2
  <2>2. CASE j # k
    BY <1>2, <1>4, <2>2
  <2> QED BY <2>1, <2>2
<1>7. Ordered(c)
  <2> SUFFICES ASSUME NEW i \in 1 .. m, NEW j \in 1 .. m, i < j, Home(c, i) = Home(c, j)
               PROVE  Until(c, i) <= From(c, j)
    BY <1>3 DEF Ordered
  <2>1. /\ After(k, i) \in 1 .. n /\ After(k, j) \in 1 .. n /\ After(k, i) < After(k, j)
        /\ Home(bs, After(k, i)) = Home(bs, After(k, j))
    <3>1. After(k, i) < After(k, j)
      BY ONLY <1>1, i < j, i \in 1 .. m, j \in 1 .. m DEF After
    <3> QED BY <1>4, <3>1
  <2>2. CASE i = k
    <3>1. k + 1 \in 1 .. n /\ k + 1 < After(k, j)
      BY ONLY <1>1, <2>2, i < j, j \in 1 .. m DEF After
    <3>2. Home(bs, k + 1) = Home(bs, After(k, j))
      BY <1>4, <2>1, <2>2
    <3>3. Until(bs, k + 1) <= From(bs, After(k, j))
      BY <2>1, <3>1, <3>2 DEF ChainOK, Ordered
    <3> QED BY <1>4, <2>2, <3>3
  <2>3. CASE i # k
    <3>1. Until(bs, After(k, i)) <= From(bs, After(k, j))
      BY <2>1 DEF ChainOK, Ordered
    <3> QED BY <1>4, <2>3, <3>1
  <2> QED BY <2>2, <2>3
<1>8. Paged(c)
  <2> SUFFICES ASSUME NEW i \in 1 .. m, NEW j \in 1 .. m
               PROVE  Number(c, i) = Number(c, j) <=> Home(c, i) = Home(c, j)
    BY <1>3 DEF Paged
  <2>1. After(k, i) \in 1 .. n /\ After(k, j) \in 1 .. n
    BY <1>4
  <2>2. Number(bs, After(k, i)) = Number(bs, After(k, j))
            <=> Home(bs, After(k, i)) = Home(bs, After(k, j))
    BY <2>1 DEF ChainOK, Paged
  <2> QED BY <1>4, <2>2
<1>9. TiledBefore(c)
  <2> SUFFICES ASSUME NEW j \in 1 .. m, From(c, j) # 0
               PROVE  j > 1 /\ Home(c, j - 1) = Home(c, j) /\ Until(c, j - 1) = From(c, j)
    BY <1>3 DEF TiledBefore
  <2>1. PICK i \in 1 .. n : i = After(k, j)
    BY <1>4
  <2>2. Home(c, j) = Home(bs, i) /\ From(c, j) = From(bs, i)
    BY <1>4, <2>1
  <2>3. i > 1 /\ Home(bs, i - 1) = Home(bs, i) /\ Until(bs, i - 1) = From(bs, i)
    BY <2>2 DEF ChainOK, TiledBefore
  <2>4. CASE j = k + 1
    <3>1. j > 1 /\ j - 1 = k /\ i - 1 = k + 1
      BY ONLY <1>1, <2>1, <2>4, j \in 1 .. m DEF After
    <3>2. Home(c, k) = Home(bs, k) /\ Until(c, k) = Until(bs, k + 1)
      BY <1>1, <1>4
    <3> QED BY <2>2, <2>3, <3>1, <3>2
  <2>5. CASE j # k + 1
    <3>1. j > 1 /\ j - 1 \in 1 .. m /\ After(k, j - 1) = i - 1 /\ j - 1 # k
      BY ONLY <1>1, <2>1, <2>3, <2>5, j \in 1 .. m DEF After
    <3>2. Home(c, j - 1) = Home(bs, i - 1) /\ Until(c, j - 1) = Until(bs, i - 1)
      BY <1>4, <3>1
    <3> QED BY <2>2, <2>3, <3>1, <3>2
  <2> QED BY <2>4, <2>5
<1>10. TiledBehind(c)
  <2> SUFFICES ASSUME NEW j \in 1 .. m, Until(c, j) # PageSize
               PROVE  j < m /\ Home(c, j + 1) = Home(c, j) /\ Until(c, j) = From(c, j + 1)
    BY <1>3 DEF TiledBehind
  <2>1. PICK i \in 1 .. n : i = IF j = k THEN k + 1 ELSE After(k, j)
    BY <1>4
  <2>2. Home(c, j) = Home(bs, i) /\ Until(c, j) = Until(bs, i)
    BY <1>4, <2>1
  <2>3. i < n /\ Home(bs, i + 1) = Home(bs, i) /\ Until(bs, i) = From(bs, i + 1)
    BY <2>2 DEF ChainOK, TiledBehind
  <2>4. j < m /\ j + 1 \in 1 .. m /\ After(k, j + 1) = i + 1
    BY ONLY <1>1, <2>1, <2>3, j \in 1 .. m DEF After
  <2>5. Home(c, j + 1) = Home(bs, i + 1) /\ From(c, j + 1) = From(bs, i + 1)
    BY <1>4, <2>4
  <2> QED BY <2>2, <2>3, <2>4, <2>5
<1>11. PagesOf(c) = PagesOf(bs)
  <2>1. \A j \in 1 .. m : \E i \in 1 .. n : Home(c, j) = Home(bs, i)
    BY <1>4
  <2>2. ASSUME NEW i \in 1 .. n PROVE \E j \in 1 .. m : Home(c, j) = Home(bs, i)
    <3>1. CASE i <= k
      <4>1. i \in 1 .. m /\ After(k, i) = i
        BY <1>1, <3>1 DEF After
      <4> QED BY <1>4, <4>1
    <3>2. CASE i = k + 1
      BY <1>1, <1>4, <3>2
    <3>3. CASE i > k + 1
      <4>1. i - 1 \in 1 .. m /\ After(k, i - 1) = i
        BY <1>1, <3>3 DEF After
      <4> QED BY <1>4, <4>1
    <3>4. i <= k \/ i = k + 1 \/ i > k + 1
      BY <1>1
    <3> QED BY <3>1, <3>2, <3>3, <3>4
  <2>3. PagesOf(c) = {Home(c, j) : j \in 1 .. m} /\ PagesOf(bs) = {Home(bs, i) : i \in 1 .. n}
    BY <1>3 DEF PagesOf
  <2> HIDE DEF m, n
  <2> QED BY ONLY <2>1, <2>2, <2>3
<1> QED BY <1>3, <1>6, <1>7, <1>8, <1>9, <1>10, <1>11 DEF ChainOK

\* What joining does to the addresses.
LEMMA JoinAddresses ==
    ASSUME HeapAssumption, NEW bs, ChainOK(bs), NEW k \in 1 .. Len(bs), k + 1 \in 1 .. Len(bs),
           Home(bs, k) = Home(bs, k + 1), NEW c, IsJoined(bs, c, k)
    PROVE  /\ Where(c, k) = Where(bs, k)
           /\ At(c) = At(bs) \ {Where(bs, k + 1)} /\ FreeAt(c) = FreeAt(bs) \ {Where(bs, k + 1)}
           /\ Size(c, Where(bs, k)) = Wide(bs, k) + Wide(bs, k + 1)
           /\ \A x \in At(c) : x # Where(bs, k) => Size(c, x) = Size(bs, x)
<1> DEFINE n == Len(bs)
           m == Len(bs) - 1
<1>1. n \in Nat /\ m \in Nat /\ k \in 1 .. m /\ Len(c) = m
  <2>1. n \in Nat /\ Len(c) = m
    BY ChainFacts DEF ChainOK, IsJoined
  <2> QED BY <2>1
<1>2. ChainOK(c)
  BY JoinChain
<1>3. ASSUME NEW j \in 1 .. m
      PROVE  /\ After(k, j) \in 1 .. n /\ After(k, j) # k + 1 /\ (After(k, j) = k <=> j = k)
             /\ Where(c, j) = Where(bs, After(k, j)) /\ From(c, j) = From(bs, After(k, j))
             /\ Until(c, j) = IF j = k THEN Until(bs, k + 1) ELSE Until(bs, After(k, j))
             /\ Free(c, j) = Free(bs, After(k, j))
             /\ Size(c, Where(c, j)) = Until(c, j) - From(c, j)
  <2>1. After(k, j) \in 1 .. n /\ After(k, j) # k + 1 /\ (After(k, j) = k <=> j = k)
    BY ONLY <1>1, j \in 1 .. m DEF After
  <2>2. /\ From(c, j) \in Nat /\ Wide(c, j) \in Nat /\ Until(c, j) = From(c, j) + Wide(c, j)
        /\ Size(c, Where(c, j)) = Wide(c, j)
    BY <1>1, <1>2, ChainFacts, OneBlock DEF ChainOK
  <2>3. Size(c, Where(c, j)) = Until(c, j) - From(c, j)
    BY ONLY <2>2
  <2> QED BY <2>1, <2>3 DEF IsJoined, Where
<1>4. ASSUME NEW i \in 1 .. n, i # k + 1 PROVE \E j \in 1 .. m : After(k, j) = i
  <2>1. CASE i <= k
    <3>1. i \in 1 .. m /\ After(k, i) = i
      BY <1>1, <2>1 DEF After
    <3> QED BY <3>1
  <2>2. CASE i > k + 1
    <3>1. i - 1 \in 1 .. m /\ After(k, i - 1) = i
      BY <1>1, <2>2 DEF After
    <3> QED BY <3>1
  <2>3. i <= k \/ i > k + 1
    BY <1>1, <1>4
  <2> QED BY <2>1, <2>2, <2>3
<1>5. \A i, j \in 1 .. n : Where(bs, i) = Where(bs, j) => i = j
  BY OneBlock DEF ChainOK
<1>6. At(c) = At(bs) \ {Where(bs, k + 1)}
  <2>1. \A j \in 1 .. m : Where(c, j) \in At(bs) \ {Where(bs, k + 1)}
    BY <1>3, <1>5 DEF At
  <2>2. \A i \in 1 .. n : i # k + 1 => \E j \in 1 .. m : Where(c, j) = Where(bs, i)
    BY <1>3, <1>4
  <2>3. At(c) = {Where(c, j) : j \in 1 .. m} /\ At(bs) = {Where(bs, i) : i \in 1 .. n}
    BY <1>1 DEF At
  <2> HIDE DEF m, n
  <2>4. ASSUME NEW x PROVE x \in At(c) <=> x \in At(bs) \ {Where(bs, k + 1)}
    BY ONLY <2>1, <2>2, <2>3
  <2> QED BY <2>4
<1>7. FreeAt(c) = FreeAt(bs) \ {Where(bs, k + 1)}
  <2>1. \A j \in 1 .. m : Free(c, j) => Where(c, j) \in FreeAt(bs) \ {Where(bs, k + 1)}
    BY <1>3, <1>5 DEF FreeAt
  <2>2. ASSUME NEW i \in 1 .. n, i # k + 1, Free(bs, i)
        PROVE  \E j \in 1 .. m : Free(c, j) /\ Where(c, j) = Where(bs, i)
    BY <1>3, <1>4, <2>2
  <2> QED BY <1>1, <2>1, <2>2 DEF FreeAt
<1>8. Where(c, k) = Where(bs, k)
  BY <1>1, <1>3
<1>9. Size(c, Where(bs, k)) = Wide(bs, k) + Wide(bs, k + 1)
  <2>1. Size(c, Where(bs, k)) = Until(bs, k + 1) - From(bs, k)
    BY <1>1, <1>3
  <2>2. /\ From(bs, k) \in Nat /\ Wide(bs, k) \in Nat /\ Until(bs, k) = From(bs, k) + Wide(bs, k)
        /\ From(bs, k + 1) \in Nat /\ Wide(bs, k + 1) \in Nat
        /\ Until(bs, k + 1) = From(bs, k + 1) + Wide(bs, k + 1)
    BY ChainFacts DEF ChainOK
  <2>3. Until(bs, k) = From(bs, k + 1)
    <3>1. k + 1 <= Len(bs)
      BY <1>1
    <3> QED BY <3>1, NextAdjoins
  <2> QED BY ONLY <2>1, <2>2, <2>3
<1>10. ASSUME NEW x \in At(c), x # Where(bs, k) PROVE Size(c, x) = Size(bs, x)
  <2>1. PICK j \in 1 .. m : x = Where(c, j)
    BY <1>1 DEF At
  <2>2. PICK i \in 1 .. n : i = After(k, j)
    BY <1>3
  <2>3. j # k /\ x = Where(bs, i)
    BY <1>3, <1>10, <2>1, <2>2
  <2>4. Size(c, x) = Until(bs, i) - From(bs, i)
    BY <1>3, <2>1, <2>2, <2>3
  <2>5. /\ From(bs, i) \in Nat /\ Wide(bs, i) \in Nat /\ Until(bs, i) = From(bs, i) + Wide(bs, i)
        /\ Size(bs, x) = Wide(bs, i)
    BY <2>3, ChainFacts, OneBlock DEF ChainOK
  <2> QED BY ONLY <2>4, <2>5
<1> QED BY <1>6, <1>7, <1>8, <1>9, <1>10

\* The list without the block at k.
IsDropped(bs, c, k) ==
    /\ c \in Seq(Blocks) /\ Len(c) = Len(bs) - 1
    /\ \A j \in 1 .. Len(bs) - 1 :
         /\ Home(c, j) = Home(bs, After(k - 1, j)) /\ Number(c, j) = Number(bs, After(k - 1, j))
         /\ From(c, j) = From(bs, After(k - 1, j)) /\ Until(c, j) = Until(bs, After(k - 1, j))
         /\ Free(c, j) = Free(bs, After(k - 1, j))

\* Dropping a whole page leaves a sound list.
LEMMA DropChain ==
    ASSUME HeapAssumption, NEW bs, ChainOK(bs), NEW k \in 1 .. Len(bs), Wide(bs, k) = PageSize,
           NEW c, IsDropped(bs, c, k)
    PROVE  /\ ChainOK(c) /\ (NoneAdjoin(bs) => NoneAdjoin(c))
           /\ PagesOf(c) = PagesOf(bs) \ {Home(bs, k)}
           /\ At(c) = At(bs) \ {Where(bs, k)} /\ FreeAt(c) = FreeAt(bs) \ {Where(bs, k)}
           /\ \A x \in At(c) : Size(c, x) = Size(bs, x)
<1> DEFINE n == Len(bs)
           m == Len(bs) - 1
           old(j) == After(k - 1, j)
<1>1. n \in Nat /\ m \in Nat /\ k \in 1 .. n /\ m + 1 = n
  <2>1. n \in Nat
    BY ChainFacts DEF ChainOK
  <2> QED BY <2>1
<1>2. c \in Seq(Blocks) /\ Len(c) = m
  BY DEF IsDropped
<1>3. ASSUME NEW j \in 1 .. m
      PROVE  /\ old(j) \in 1 .. n /\ old(j) # k
             /\ Home(c, j) = Home(bs, old(j)) /\ Number(c, j) = Number(bs, old(j))
             /\ From(c, j) = From(bs, old(j)) /\ Until(c, j) = Until(bs, old(j))
             /\ Free(c, j) = Free(bs, old(j)) /\ Where(c, j) = Where(bs, old(j))
  <2>1. old(j) \in 1 .. n /\ old(j) # k
    BY ONLY <1>1, j \in 1 .. m DEF After
  <2> QED BY <2>1 DEF IsDropped, Where
<1>4. ASSUME NEW i \in 1 .. n, i # k PROVE \E j \in 1 .. m : old(j) = i
  <2>1. CASE i < k
    <3>1. i \in 1 .. m /\ old(i) = i
      BY <1>1, <2>1 DEF After
    <3> QED BY <3>1
  <2>2. CASE i > k
    <3>1. i - 1 \in 1 .. m /\ old(i - 1) = i
      BY <1>1, <2>2 DEF After
    <3> QED BY <3>1
  <2>3. i < k \/ i > k
    BY <1>1, <1>4
  <2> QED BY <2>1, <2>2, <2>3
<1>5. \A j \in 1 .. n : Home(bs, j) = Home(bs, k) => j = k
  BY WholePage
\* No block of a page comes right before the dropped one and another right behind it
<1>6. ASSUME NEW i \in 1 .. n, NEW j \in 1 .. n, i + 1 = k, k + 1 = j, Home(bs, i) = Home(bs, j)
      PROVE  FALSE
  <2>1. Until(bs, i) <= From(bs, j)
    <3>1. i < j
      BY <1>6
    <3> QED BY <1>6, <3>1 DEF ChainOK, Ordered
  <2>2. From(bs, i) \in Nat /\ Until(bs, i) \in Nat /\ From(bs, i) < Until(bs, i) /\ From(bs, j) \in Nat
    BY ChainFacts DEF ChainOK
  <2>3. From(bs, j) # 0
    BY ONLY <2>1, <2>2
  <2>4. Home(bs, j - 1) = Home(bs, j) /\ j - 1 = k
    <3>1. Home(bs, j - 1) = Home(bs, j)
      BY <2>3 DEF ChainOK, TiledBefore
    <3> QED BY <1>1, <1>6, <3>1
  <2>5. j = k
    BY <1>5, <2>4
  <2> QED BY <1>1, <1>6, <2>5
<1>7. Sized(c)
  BY <1>2, <1>3 DEF ChainOK, Sized
<1>8. Ordered(c)
  <2> SUFFICES ASSUME NEW i \in 1 .. m, NEW j \in 1 .. m, i < j, Home(c, i) = Home(c, j)
               PROVE  Until(c, i) <= From(c, j)
    BY <1>2 DEF Ordered
  <2>1. old(i) < old(j)
    BY ONLY <1>1, i < j, i \in 1 .. m, j \in 1 .. m DEF After
  <2>2. old(i) \in 1 .. n /\ old(j) \in 1 .. n /\ Home(bs, old(i)) = Home(bs, old(j))
    BY <1>3
  <2>3. Until(bs, old(i)) <= From(bs, old(j))
    BY <2>1, <2>2 DEF ChainOK, Ordered
  <2> QED BY <1>3, <2>3
<1>9. Paged(c)
  <2> SUFFICES ASSUME NEW i \in 1 .. m, NEW j \in 1 .. m
               PROVE  Number(c, i) = Number(c, j) <=> Home(c, i) = Home(c, j)
    BY <1>2 DEF Paged
  <2>1. old(i) \in 1 .. n /\ old(j) \in 1 .. n
    BY <1>3
  <2>2. Number(bs, old(i)) = Number(bs, old(j)) <=> Home(bs, old(i)) = Home(bs, old(j))
    BY <2>1 DEF ChainOK, Paged
  <2> QED BY <1>3, <2>2
<1>10. TiledBefore(c)
  <2> SUFFICES ASSUME NEW j \in 1 .. m, From(c, j) # 0
               PROVE  j > 1 /\ Home(c, j - 1) = Home(c, j) /\ Until(c, j - 1) = From(c, j)
    BY <1>2 DEF TiledBefore
  <2>1. PICK i \in 1 .. n : i = old(j)
    BY <1>3
  <2>2. Home(c, j) = Home(bs, i) /\ From(c, j) = From(bs, i) /\ i # k
    BY <1>3, <2>1
  <2>3. i > 1 /\ Home(bs, i - 1) = Home(bs, i) /\ Until(bs, i - 1) = From(bs, i)
    BY <2>2 DEF ChainOK, TiledBefore
  <2>4. i - 1 \in 1 .. n /\ i - 1 # k
    <3>1. i - 1 \in 1 .. n
      BY <1>1, <2>3
    <3> QED BY <1>5, <2>2, <2>3, <3>1
  <2>5. j > 1 /\ j - 1 \in 1 .. m /\ old(j - 1) = i - 1
    BY ONLY <1>1, <2>1, <2>3, <2>4, j \in 1 .. m DEF After
  <2>6. Home(c, j - 1) = Home(bs, i - 1) /\ Until(c, j - 1) = Until(bs, i - 1)
    BY <1>3, <2>5
  <2> QED BY <2>2, <2>3, <2>5, <2>6
<1>11. TiledBehind(c)
  <2> SUFFICES ASSUME NEW j \in 1 .. m, Until(c, j) # PageSize
               PROVE  j < m /\ Home(c, j + 1) = Home(c, j) /\ Until(c, j) = From(c, j + 1)
    BY <1>2 DEF TiledBehind
  <2>1. PICK i \in 1 .. n : i = old(j)
    BY <1>3
  <2>2. Home(c, j) = Home(bs, i) /\ Until(c, j) = Until(bs, i) /\ i # k
    BY <1>3, <2>1
  <2>3. i < n /\ Home(bs, i + 1) = Home(bs, i) /\ Until(bs, i) = From(bs, i + 1)
    BY <2>2 DEF ChainOK, TiledBehind
  <2>4. i + 1 \in 1 .. n /\ i + 1 # k
    <3>1. i + 1 \in 1 .. n
      BY <1>1, <2>3
    <3> QED BY <1>5, <2>2, <2>3, <3>1
  <2>5. j < m /\ j + 1 \in 1 .. m /\ old(j + 1) = i + 1
    BY ONLY <1>1, <2>1, <2>3, <2>4, j \in 1 .. m DEF After
  <2>6. Home(c, j + 1) = Home(bs, i + 1) /\ From(c, j + 1) = From(bs, i + 1)
    BY <1>3, <2>5
  <2> QED BY <2>2, <2>3, <2>5, <2>6
<1>12. ChainOK(c)
  BY <1>2, <1>7, <1>8, <1>9, <1>10, <1>11 DEF ChainOK
<1>13. ASSUME NoneAdjoin(bs) PROVE NoneAdjoin(c)
  <2> SUFFICES ASSUME NEW i \in 1 .. m, NEW j \in 1 .. m,
                      j = i + 1, Home(c, i) = Home(c, j), Free(c, i), Free(c, j)
               PROVE  FALSE
    BY <1>2 DEF NoneAdjoin
  <2>1. /\ old(i) \in 1 .. n /\ old(j) \in 1 .. n /\ Home(bs, old(i)) = Home(bs, old(j))
        /\ Free(bs, old(i)) /\ Free(bs, old(j))
    BY <1>3
  <2>2. CASE i + 1 = k
    <3>1. old(i) + 1 = k /\ k + 1 = old(j)
      BY ONLY <1>1, <2>2, j = i + 1, i \in 1 .. m, j \in 1 .. m DEF After
    <3> QED BY <1>6, <2>1, <3>1
  <2>3. CASE i + 1 # k
    <3>1. old(j) = old(i) + 1
      BY ONLY <1>1, <2>3, j = i + 1, i \in 1 .. m, j \in 1 .. m DEF After
    <3> QED BY <1>13, <2>1, <3>1 DEF NoneAdjoin
  <2> QED BY <2>2, <2>3
<1>14. \A i, j \in 1 .. n : Where(bs, i) = Where(bs, j) => i = j
  BY OneBlock DEF ChainOK
<1>15. /\ PagesOf(c) = {Home(c, j) : j \in 1 .. m} /\ PagesOf(bs) = {Home(bs, i) : i \in 1 .. n}
       /\ At(c) = {Where(c, j) : j \in 1 .. m} /\ At(bs) = {Where(bs, i) : i \in 1 .. n}
       /\ FreeAt(c) = {Where(c, j) : j \in {i \in 1 .. m : Free(c, i)}}
       /\ FreeAt(bs) = {Where(bs, j) : j \in {i \in 1 .. n : Free(bs, i)}}
  BY <1>2 DEF PagesOf, At, FreeAt
<1>16. /\ \A j \in 1 .. m : /\ Home(c, j) = Home(bs, old(j)) /\ old(j) # k /\ old(j) \in 1 .. n
                            /\ Where(c, j) = Where(bs, old(j)) /\ Free(c, j) = Free(bs, old(j))
       /\ \A i \in 1 .. n : i # k => \E j \in 1 .. m : old(j) = i
  BY <1>3, <1>4
<1>17. ASSUME NEW x \in At(c) PROVE Size(c, x) = Size(bs, x)
  <2>1. PICK j \in 1 .. m : x = Where(c, j)
    BY <1>15
  <2>2. PICK i \in 1 .. n : i = old(j)
    BY <1>3
  <2>3. x = Where(bs, i) /\ From(c, j) = From(bs, i) /\ Until(c, j) = Until(bs, i)
    BY <1>3, <2>1, <2>2
  <2>4. /\ From(bs, i) \in Nat /\ Wide(bs, i) \in Nat /\ Until(bs, i) = From(bs, i) + Wide(bs, i)
        /\ Size(bs, x) = Wide(bs, i)
    BY <2>3, ChainFacts, OneBlock DEF ChainOK
  <2>5. /\ Wide(c, j) \in Nat /\ Until(c, j) = From(c, j) + Wide(c, j) /\ Size(c, x) = Wide(c, j)
    BY <1>2, <1>12, <2>1, ChainFacts, OneBlock DEF ChainOK
  <2> QED BY ONLY <2>3, <2>4, <2>5
<1>18. /\ PagesOf(c) = PagesOf(bs) \ {Home(bs, k)}
       /\ At(c) = At(bs) \ {Where(bs, k)} /\ FreeAt(c) = FreeAt(bs) \ {Where(bs, k)}
  <2> HIDE DEF n, m, old
  <2>1. ASSUME NEW x PROVE x \in PagesOf(c) <=> x \in PagesOf(bs) \ {Home(bs, k)}
    BY ONLY <1>1, <1>5, <1>15, <1>16
  <2>2. ASSUME NEW x PROVE x \in At(c) <=> x \in At(bs) \ {Where(bs, k)}
    BY ONLY <1>1, <1>14, <1>15, <1>16
  <2>3. ASSUME NEW x PROVE x \in FreeAt(c) <=> x \in FreeAt(bs) \ {Where(bs, k)}
    BY ONLY <1>1, <1>14, <1>15, <1>16
  <2> QED BY <2>1, <2>2, <2>3
<1> QED BY <1>12, <1>13, <1>17, <1>18

\* The list with one more page in front.
IsPushed(bs, c, p, number) ==
    /\ c \in Seq(Blocks) /\ Len(c) = Len(bs) + 1
    /\ Home(c, 1) = p /\ Number(c, 1) = number /\ From(c, 1) = 0 /\ Until(c, 1) = PageSize /\ Free(c, 1)
    /\ \A j \in 1 .. Len(bs) :
         /\ Home(c, j + 1) = Home(bs, j) /\ Number(c, j + 1) = Number(bs, j)
         /\ From(c, j + 1) = From(bs, j) /\ Until(c, j + 1) = Until(bs, j)
         /\ Free(c, j + 1) = Free(bs, j)

NewNumber(bs, number) == \A i \in 1 .. Len(bs) : Number(bs, i) # number

\* A new page leaves a sound list.
LEMMA PushChain ==
    ASSUME HeapAssumption, NEW bs, ChainOK(bs), NEW p, p \notin PagesOf(bs),
           NEW number, NewNumber(bs, number),
           NEW c, IsPushed(bs, c, p, number), NEW a, a = <<p, 0>>
    PROVE  /\ ChainOK(c) /\ (NoneAdjoin(bs) => NoneAdjoin(c))
           /\ PagesOf(c) = PagesOf(bs) \cup {p} /\ Where(c, 1) = a
           /\ a \notin At(bs) /\ At(c) = At(bs) \cup {a} /\ FreeAt(c) = FreeAt(bs) \cup {a}
           /\ Size(c, a) = PageSize /\ \A x \in At(bs) : Size(c, x) = Size(bs, x)
<1> DEFINE n == Len(bs)
<1>1. n \in Nat /\ PageSize \in Nat /\ FreeHeader \in Nat /\ FreeHeader <= PageSize
  <2>1. /\ n \in Nat /\ PageSize \in Nat /\ FreeHeader \in Nat /\ MaxSmall \in Nat
        /\ FreeHeader <= MaxSmall \div 2 /\ 2 * MaxSmall <= PageSize
    BY ChainFacts DEF ChainOK, HeapAssumption
  <2> QED BY <2>1
<1>2. c \in Seq(Blocks) /\ Len(c) = n + 1
  BY DEF IsPushed
<1>3. Home(c, 1) = p /\ Number(c, 1) = number /\ From(c, 1) = 0 /\ Until(c, 1) = PageSize /\ Free(c, 1)
  BY DEF IsPushed
<1>4. ASSUME NEW j \in 1 .. n + 1, j # 1
      PROVE  /\ j - 1 \in 1 .. n /\ Home(c, j) = Home(bs, j - 1) /\ Number(c, j) = Number(bs, j - 1)
             /\ From(c, j) = From(bs, j - 1) /\ Until(c, j) = Until(bs, j - 1)
             /\ Free(c, j) = Free(bs, j - 1) /\ Home(c, j) # p /\ Number(c, j) # number
             /\ Where(c, j) = Where(bs, j - 1)
  <2>1. PICK k \in 1 .. n : k = j - 1 /\ j = k + 1
    <3>1. j - 1 \in 1 .. n
      BY <1>1, <1>4
    <3> QED BY <1>1, <3>1
  <2>2. /\ Home(c, j) = Home(bs, k) /\ Number(c, j) = Number(bs, k)
        /\ From(c, j) = From(bs, k) /\ Until(c, j) = Until(bs, k) /\ Free(c, j) = Free(bs, k)
    BY <2>1 DEF IsPushed
  <2>3. Home(bs, k) # p /\ Number(bs, k) # number
    BY DEF PagesOf, NewNumber
  <2> QED BY <2>1, <2>2, <2>3 DEF Where
<1>5. Sized(c)
  <2> SUFFICES ASSUME NEW j \in 1 .. n + 1
               PROVE  From(c, j) + FreeHeader <= Until(c, j) /\ Until(c, j) <= PageSize
    BY <1>2 DEF Sized
  <2>1. CASE j = 1
    BY <1>1, <1>3, <2>1
  <2>2. CASE j # 1
    BY <1>4, <2>2 DEF ChainOK, Sized
  <2> QED BY <2>1, <2>2
<1>6. Ordered(c)
  <2> SUFFICES ASSUME NEW i \in 1 .. n + 1, NEW j \in 1 .. n + 1, i < j, Home(c, i) = Home(c, j)
               PROVE  Until(c, i) <= From(c, j)
    BY <1>2 DEF Ordered
  <2>1. i # 1 /\ j # 1
    BY <1>1, <1>3, <1>4
  <2>2. i - 1 \in 1 .. n /\ j - 1 \in 1 .. n /\ i - 1 < j - 1 /\ Home(bs, i - 1) = Home(bs, j - 1)
    <3>1. i - 1 < j - 1
      BY <1>1
    <3> QED BY <1>4, <2>1, <3>1
  <2>3. Until(bs, i - 1) <= From(bs, j - 1)
    BY <2>2 DEF ChainOK, Ordered
  <2> QED BY <1>4, <2>1, <2>3
<1>7. Paged(c)
  <2> SUFFICES ASSUME NEW i \in 1 .. n + 1, NEW j \in 1 .. n + 1
               PROVE  Number(c, i) = Number(c, j) <=> Home(c, i) = Home(c, j)
    BY <1>2 DEF Paged
  <2>1. CASE i = 1 \/ j = 1
    BY <1>3, <1>4, <2>1
  <2>2. CASE i # 1 /\ j # 1
    <3>1. i - 1 \in 1 .. n /\ j - 1 \in 1 .. n
      BY <1>4, <2>2
    <3>2. Number(bs, i - 1) = Number(bs, j - 1) <=> Home(bs, i - 1) = Home(bs, j - 1)
      BY <3>1 DEF ChainOK, Paged
    <3> QED BY <1>4, <2>2, <3>2
  <2> QED BY <2>1, <2>2
<1>8. TiledBefore(c)
  <2> SUFFICES ASSUME NEW j \in 1 .. n + 1, From(c, j) # 0
               PROVE  j > 1 /\ Home(c, j - 1) = Home(c, j) /\ Until(c, j - 1) = From(c, j)
    BY <1>2 DEF TiledBefore
  <2>1. j # 1
    BY <1>3
  <2>2. PICK i \in 1 .. n : i = j - 1
    BY <1>4, <2>1
  <2>3. Home(c, j) = Home(bs, i) /\ From(c, j) = From(bs, i)
    BY <1>4, <2>1, <2>2
  <2>4. i > 1 /\ Home(bs, i - 1) = Home(bs, i) /\ Until(bs, i - 1) = From(bs, i)
    BY <2>3 DEF ChainOK, TiledBefore
  <2>5. j > 1 /\ i \in 1 .. n + 1 /\ i # 1
    BY <1>1, <2>1, <2>4
  <2>6. Home(c, i) = Home(bs, i - 1) /\ Until(c, i) = Until(bs, i - 1)
    BY <1>4, <2>5
  <2> QED BY <2>2, <2>3, <2>4, <2>5, <2>6
<1>9. TiledBehind(c)
  <2> SUFFICES ASSUME NEW j \in 1 .. n + 1, Until(c, j) # PageSize
               PROVE  j < n + 1 /\ Home(c, j + 1) = Home(c, j) /\ Until(c, j) = From(c, j + 1)
    BY <1>2 DEF TiledBehind
  <2>1. j # 1
    BY <1>3
  <2>2. PICK i \in 1 .. n : i = j - 1
    BY <1>4, <2>1
  <2>3. Home(c, j) = Home(bs, i) /\ Until(c, j) = Until(bs, i)
    BY <1>4, <2>1, <2>2
  <2>4. i < n /\ Home(bs, i + 1) = Home(bs, i) /\ Until(bs, i) = From(bs, i + 1)
    BY <2>3 DEF ChainOK, TiledBehind
  <2>5. j < n + 1 /\ j + 1 \in 1 .. n + 1 /\ j + 1 # 1 /\ (j + 1) - 1 = i + 1
    BY <1>1, <2>1, <2>2, <2>4
  <2>6. Home(c, j + 1) = Home(bs, i + 1) /\ From(c, j + 1) = From(bs, i + 1)
    BY <1>4, <2>5
  <2> QED BY <2>3, <2>4, <2>5, <2>6
<1>10. ChainOK(c)
  BY <1>2, <1>5, <1>6, <1>7, <1>8, <1>9 DEF ChainOK
<1>11. ASSUME NoneAdjoin(bs) PROVE NoneAdjoin(c)
  <2> SUFFICES ASSUME NEW i \in 1 .. n + 1, NEW j \in 1 .. n + 1,
                      j = i + 1, Home(c, i) = Home(c, j), Free(c, i), Free(c, j)
               PROVE  FALSE
    BY <1>2 DEF NoneAdjoin
  <2>1. j # 1 /\ i # 1
    BY <1>1, <1>3, <1>4
  <2>2. /\ i - 1 \in 1 .. n /\ j - 1 \in 1 .. n /\ Home(bs, i - 1) = Home(bs, j - 1)
        /\ Free(bs, i - 1) /\ Free(bs, j - 1)
    BY <1>4, <2>1
  <2>3. j - 1 = (i - 1) + 1
    BY <1>1
  <2> QED BY <1>11, <2>2, <2>3 DEF NoneAdjoin
<1>12. /\ 1 \in 1 .. n + 1 /\ Where(c, 1) = a
       /\ \A j \in 1 .. n : j + 1 \in 1 .. n + 1 /\ j + 1 # 1 /\ (j + 1) - 1 = j
  BY <1>1, <1>3 DEF Where
<1>13. \A j \in 1 .. n : /\ Home(c, j + 1) = Home(bs, j) /\ Where(c, j + 1) = Where(bs, j)
                         /\ Free(c, j + 1) = Free(bs, j)
  BY DEF IsPushed, Where
<1>14. /\ PagesOf(c) = {Home(c, j) : j \in 1 .. n + 1} /\ PagesOf(bs) = {Home(bs, i) : i \in 1 .. n}
       /\ At(c) = {Where(c, j) : j \in 1 .. n + 1} /\ At(bs) = {Where(bs, i) : i \in 1 .. n}
       /\ FreeAt(c) = {Where(c, j) : j \in {i \in 1 .. n + 1 : Free(c, i)}}
       /\ FreeAt(bs) = {Where(bs, j) : j \in {i \in 1 .. n : Free(bs, i)}}
  BY <1>2 DEF PagesOf, At, FreeAt
<1>15. \A j \in 1 .. n + 1 : j # 1 => /\ j - 1 \in 1 .. n /\ Home(c, j) = Home(bs, j - 1)
                                      /\ Where(c, j) = Where(bs, j - 1) /\ Free(c, j) = Free(bs, j - 1)
  BY <1>4
<1>16. /\ PagesOf(c) = PagesOf(bs) \cup {p}
       /\ At(c) = At(bs) \cup {a} /\ FreeAt(c) = FreeAt(bs) \cup {a}
  <2> HIDE DEF n
  <2>1. ASSUME NEW x PROVE x \in PagesOf(c) <=> x \in PagesOf(bs) \cup {p}
    BY ONLY <1>3, <1>12, <1>13, <1>14, <1>15
  <2>2. ASSUME NEW x PROVE x \in At(c) <=> x \in At(bs) \cup {a}
    BY ONLY <1>12, <1>13, <1>14, <1>15
  <2>3. ASSUME NEW x PROVE x \in FreeAt(c) <=> x \in FreeAt(bs) \cup {a}
    BY ONLY <1>3, <1>12, <1>13, <1>14, <1>15
  <2> QED BY <2>1, <2>2, <2>3
<1>17. a \notin At(bs)
  <2> SUFFICES ASSUME NEW k \in 1 .. n, Where(bs, k) = a PROVE FALSE
    BY DEF At
  <2>1. Where(c, k + 1) = Where(c, 1) /\ k + 1 \in 1 .. Len(c) /\ 1 \in 1 .. Len(c) /\ k + 1 # 1
    BY <1>2, <1>12, <1>13
  <2> QED BY <1>10, <2>1, OneBlock DEF ChainOK
<1>18. \A j \in 1 .. n + 1 : /\ From(c, j) \in Nat /\ Wide(c, j) \in Nat
                             /\ Until(c, j) = From(c, j) + Wide(c, j) /\ Size(c, Where(c, j)) = Wide(c, j)
  BY <1>2, <1>10, ChainFacts, OneBlock DEF ChainOK
<1>19. Size(c, a) = PageSize
  <2>1. /\ From(c, 1) \in Nat /\ Wide(c, 1) \in Nat
        /\ Until(c, 1) = From(c, 1) + Wide(c, 1) /\ Size(c, Where(c, 1)) = Wide(c, 1)
    BY <1>12, <1>18
  <2> QED BY ONLY <1>1, <1>3, <1>12, <2>1
<1>20. ASSUME NEW x \in At(bs) PROVE Size(c, x) = Size(bs, x)
  <2>1. PICK i \in 1 .. n : x = Where(bs, i)
    BY <1>14
  <2>2. /\ From(bs, i) \in Nat /\ Wide(bs, i) \in Nat /\ Until(bs, i) = From(bs, i) + Wide(bs, i)
        /\ Size(bs, x) = Wide(bs, i)
    BY <2>1, ChainFacts, OneBlock DEF ChainOK
  <2>3. /\ Wide(c, i + 1) \in Nat /\ Until(c, i + 1) = From(c, i + 1) + Wide(c, i + 1)
        /\ Size(c, x) = Wide(c, i + 1)
    BY <1>12, <1>13, <1>18, <2>1
  <2>4. From(c, i + 1) = From(bs, i) /\ Until(c, i + 1) = Until(bs, i)
    BY DEF IsPushed
  <2> QED BY ONLY <2>2, <2>3, <2>4
<1> QED BY <1>10, <1>11, <1>12, <1>16, <1>17, <1>19, <1>20

\* A list with the block at i changed.
LEMMA Changed ==
    ASSUME NEW bs, bs \in Seq(Blocks), NEW i \in 1 .. Len(bs), NEW b \in Blocks,
           NEW c, c = [bs EXCEPT ![i] = b]
    PROVE  /\ c \in Seq(Blocks) /\ Len(c) = Len(bs)
           /\ \A j \in 1 .. Len(bs) : c[j] = IF j = i THEN b ELSE bs[j]
BY ExceptSeq

\* The operations of the code on the list: the flag of a block,
LEMMA Marked ==
    ASSUME HeapAssumption, NEW bs, ChainOK(bs), NEW k \in 1 .. Len(bs), NEW f \in BOOLEAN
    PROVE  /\ IsMarked(bs, [bs EXCEPT ![k].is_free = f], k, f)
           /\ IsMarked(bs, [bs EXCEPT ![k] = [bs[k] EXCEPT !.is_free = f]], k, f)
<1> DEFINE b == [bs[k] EXCEPT !.is_free = f]
           c == [bs EXCEPT ![k] = b]
<1>1. bs \in Seq(Blocks) /\ bs[k] \in Blocks
  BY ChainFacts DEF ChainOK
<1>2. /\ b \in Blocks /\ b.at = bs[k].at /\ b.page = bs[k].page /\ b.size = bs[k].size
      /\ b.is_free = f
  BY <1>1 DEF Blocks
<1>3. c = [bs EXCEPT ![k].is_free = f]
  OBVIOUS
<1> HIDE DEF b
<1>4. /\ c \in Seq(Blocks) /\ Len(c) = Len(bs)
      /\ \A j \in 1 .. Len(bs) : c[j] = IF j = k THEN b ELSE bs[j]
  BY <1>1, <1>2, Changed
<1> HIDE DEF c
<1>5. ASSUME NEW j \in 1 .. Len(bs)
      PROVE  /\ Home(c, j) = Home(bs, j) /\ Number(c, j) = Number(bs, j)
             /\ From(c, j) = From(bs, j) /\ Until(c, j) = Until(bs, j)
             /\ Free(c, j) = IF j = k THEN f ELSE Free(bs, j)
  <2>1. c[j] = IF j = k THEN b ELSE bs[j]
    BY <1>4
  <2> QED BY <1>2, <2>1 DEF Home, Number, From, Until, Wide, Free
<1>6. IsMarked(bs, c, k, f)
  BY ONLY <1>4, <1>5 DEF IsMarked
<1> QED BY <1>3, <1>6 DEF c, b

IsCut(bs, cut, i, r) ==
    /\ cut \in Seq(Blocks) /\ Len(cut) = Len(bs)
    /\ \A j \in 1 .. Len(bs) : cut[j].at = bs[j].at /\ cut[j].size = IF j = i THEN r ELSE bs[j].size

\* the tail that a block gives away,
LEMMA Cut ==
    ASSUME HeapAssumption, NEW bs, ChainOK(bs), NEW i \in 1 .. Len(bs),
           NEW r \in Aligned, NEW m \in Aligned, r + m = Wide(bs, i), r >= FreeHeader, m >= FreeHeader,
           NEW new, new = [at |-> <<Home(bs, i), From(bs, i) + r>>, page |-> Number(bs, i),
                           size |-> m, is_free |-> FALSE],
           NEW cut, cut = [bs EXCEPT ![i].size = r]
    PROVE  IsSplit(bs, InsertAt(cut, i + 1, new), i, From(bs, i) + r) /\ IsCut(bs, cut, i, r)
<1> DEFINE n == Len(bs)
           low == [bs[i] EXCEPT !.size = r]
<1>1. /\ n \in Nat /\ i \in 1 .. n /\ bs \in Seq(Blocks) /\ bs[i] \in Blocks
      /\ Home(bs, i) \in 1 .. MaxPages /\ From(bs, i) \in Aligned /\ Number(bs, i) \in Nat
      /\ From(bs, i) \in Nat /\ Wide(bs, i) \in Nat /\ Until(bs, i) = From(bs, i) + Wide(bs, i)
  BY ChainFacts DEF ChainOK
<1>2. r \in Nat /\ m \in Nat
  BY AlignedHeaders
<1>3. new \in Blocks /\ new.at = <<Home(bs, i), From(bs, i) + r>> /\ new.page = Number(bs, i)
      /\ new.size = m /\ new.is_free = FALSE
  <2>1. From(bs, i) + r \in Aligned
    BY ONLY <1>1, r \in Aligned, HeapAssumption, AlignedSums
  <2> QED BY <1>1, <2>1 DEF Blocks
<1>4. low \in Blocks /\ low.at = bs[i].at /\ low.page = bs[i].page /\ low.size = r
      /\ low.is_free = bs[i].is_free
  BY <1>1 DEF Blocks
<1>5. cut = [bs EXCEPT ![i] = low]
  OBVIOUS
<1> HIDE DEF low
<1>6. /\ cut \in Seq(Blocks) /\ Len(cut) = n
      /\ \A j \in 1 .. n : cut[j] = IF j = i THEN low ELSE bs[j]
  BY ONLY <1>1, <1>4, <1>5, Changed
<1>7. PICK c : c = InsertAt(cut, i + 1, new)
  OBVIOUS
<1>8. /\ c \in Seq(Blocks) /\ Len(c) = n + 1
      /\ \A j \in 1 .. n + 1 :
            c[j] = IF j < i + 1 THEN cut[j] ELSE IF j = i + 1 THEN new ELSE cut[j - 1]
  <2>1. PICK k \in 1 .. Len(cut) + 1 : k = i + 1
    BY <1>1, <1>6
  <2>2. c = InsertAt(cut, k, new) /\ cut \in Seq(Blocks) /\ new \in Blocks
    BY <1>3, <1>6, <1>7, <2>1
  <2>3. /\ c \in Seq(Blocks) /\ Len(c) = Len(cut) + 1
        /\ \A j \in 1 .. Len(cut) + 1 :
              c[j] = IF j < k THEN cut[j] ELSE IF j = k THEN new ELSE cut[j - 1]
    BY ONLY k \in 1 .. Len(cut) + 1, <2>2, InsertedAt, SMTT(30)
  <2> QED BY ONLY <1>6, <2>1, <2>3
<1>9. ASSUME NEW j \in 1 .. n + 1
      PROVE  /\ Home(c, j) = Home(bs, Before(i, j)) /\ Number(c, j) = Number(bs, Before(i, j))
             /\ From(c, j) = IF j = i + 1 THEN From(bs, i) + r ELSE From(bs, Before(i, j))
             /\ Until(c, j) = IF j = i THEN From(bs, i) + r ELSE Until(bs, Before(i, j))
             /\ Free(c, j) = IF j = i + 1 THEN FALSE ELSE Free(bs, Before(i, j))
  <2>1. CASE j = i
    <3>1. c[j] = low /\ Before(i, j) = i /\ j # i + 1
      <4>1. j < i + 1 /\ Before(i, j) = i /\ j # i + 1
        BY <1>1, <2>1 DEF Before
      <4>2. c[j] = cut[j]
        BY <1>8, <4>1
      <4>3. cut[i] = low
        BY <1>1, <1>6
      <4> QED BY <2>1, <4>1, <4>2, <4>3
    <3> QED BY <1>4, <2>1, <3>1 DEF Home, Number, From, Until, Wide, Free
  <2>2. CASE j = i + 1
    <3>1. Before(i, j) = i /\ j # i /\ ~(j < i + 1)
      BY <1>1, <2>2 DEF Before
    <3>2. c[j] = new
      BY <1>8, <2>2, <3>1
    <3>3. /\ Home(c, j) = Home(bs, i) /\ From(c, j) = From(bs, i) + r
          /\ Number(c, j) = Number(bs, i) /\ Free(c, j) = FALSE /\ Wide(c, j) = m
      BY <1>3, <3>2 DEF Home, Number, From, Wide, Free
    <3>4. Until(c, j) = From(c, j) + Wide(c, j)
      BY DEF Until
    <3>5. Until(c, j) = Until(bs, i)
      BY ONLY <1>1, <1>2, <3>3, <3>4, r + m = Wide(bs, i)
    <3> QED BY ONLY <2>2, <3>1, <3>3, <3>5
  <2>3. CASE j # i /\ j # i + 1
    <3>1. PICK k \in 1 .. n : k = Before(i, j)
      BY <1>1 DEF Before
    <3>2. c[j] = cut[k] /\ k # i
      <4>1. CASE j < i + 1
        <5>1. k = j
          BY <1>1, <3>1, <4>1 DEF Before
        <5> QED BY <1>8, <2>3, <4>1, <5>1
      <4>2. CASE ~(j < i + 1)
        <5>1. k = j - 1 /\ k # i
          BY <1>1, <2>3, <3>1, <4>2 DEF Before
        <5> QED BY <1>8, <2>3, <4>2, <5>1
      <4> QED BY <4>1, <4>2
    <3>3. c[j] = bs[k]
      BY <1>6, <3>2
    <3> QED BY ONLY <2>3, <3>1, <3>3 DEF Home, Number, From, Until, Wide, Free
  <2> QED BY <2>1, <2>2, <2>3
<1>10. IsSplit(bs, c, i, From(bs, i) + r)
  BY ONLY <1>8, <1>9 DEF IsSplit
<1>11. \A j \in 1 .. n : cut[j].at = bs[j].at /\ cut[j].size = IF j = i THEN r ELSE bs[j].size
  BY <1>4, <1>6
<1>12. IsCut(bs, cut, i, r)
  BY ONLY <1>6, <1>11 DEF IsCut
<1> QED BY <1>7, <1>10, <1>12

\* a block without its successor,
LEMMA RemovedBlock ==
    ASSUME NEW bs, bs \in Seq(Blocks), NEW k \in 1 .. Len(bs),
           NEW c, c = RemoveAt(bs, k)
    PROVE  /\ c \in Seq(Blocks) /\ Len(c) = Len(bs) - 1
           /\ \A j \in 1 .. Len(bs) - 1 : c[j] = bs[After(k - 1, j)] /\ After(k - 1, j) \in 1 .. Len(bs)
<1>1. Len(bs) \in Nat
  BY LenProperties
<1>2. /\ c \in Seq(Blocks) /\ Len(c) = Len(bs) - 1
      /\ \A j \in 1 .. Len(bs) - 1 : c[j] = IF j < k THEN bs[j] ELSE bs[j + 1]
  BY RemovedAt
<1>3. ASSUME NEW j \in 1 .. Len(bs) - 1
      PROVE  c[j] = bs[After(k - 1, j)] /\ After(k - 1, j) \in 1 .. Len(bs)
  <2>1. c[j] = IF j < k THEN bs[j] ELSE bs[j + 1]
    BY <1>2
  <2>2. After(k - 1, j) = IF j < k THEN j ELSE j + 1
    BY <1>1 DEF After
  <2>3. After(k - 1, j) \in 1 .. Len(bs)
    BY <1>1, <2>2
  <2> QED BY ONLY <2>1, <2>2, <2>3
<1> QED BY <1>2, <1>3

LEMMA Dropped ==
    ASSUME HeapAssumption, NEW bs, ChainOK(bs), NEW k \in 1 .. Len(bs)
    PROVE  IsDropped(bs, RemoveAt(bs, k), k)
<1>1. PICK c : c = RemoveAt(bs, k)
  OBVIOUS
<1>2. /\ c \in Seq(Blocks) /\ Len(c) = Len(bs) - 1
      /\ \A j \in 1 .. Len(bs) - 1 : c[j] = bs[After(k - 1, j)]
  BY <1>1, RemovedBlock DEF ChainOK
<1> QED BY ONLY <1>1, <1>2 DEF IsDropped, Home, Number, From, Until, Wide, Free

\* two blocks joined,
LEMMA Joined ==
    ASSUME HeapAssumption, NEW bs, ChainOK(bs), NEW k \in 1 .. Len(bs), k + 1 \in 1 .. Len(bs),
           Home(bs, k) = Home(bs, k + 1)
    PROVE  IsJoined(bs, joined(bs, k, k + 1), k) /\ IsJoined(bs, joined(bs, k + 1, k), k)
<1> DEFINE n == Len(bs)
           sum == Wide(bs, k) + Wide(bs, k + 1)
           low == [bs[k] EXCEPT !.size = sum]
           e == [bs EXCEPT ![k] = low]
           c == RemoveAt(e, k + 1)
<1>1. /\ n \in Nat /\ k \in 1 .. n /\ bs \in Seq(Blocks) /\ bs[k] \in Blocks
      /\ Wide(bs, k) \in Aligned /\ Wide(bs, k + 1) \in Aligned
      /\ Wide(bs, k) \in Nat /\ Wide(bs, k + 1) \in Nat
      /\ From(bs, k) \in Nat /\ Until(bs, k) = From(bs, k) + Wide(bs, k)
      /\ From(bs, k + 1) \in Nat /\ Until(bs, k + 1) = From(bs, k + 1) + Wide(bs, k + 1)
  BY ChainFacts DEF ChainOK
<1>2. Until(bs, k) = From(bs, k + 1)
  <2>1. k + 1 <= Len(bs)
    BY <1>1
  <2> QED BY <2>1, NextAdjoins
<1>3. sum \in Aligned
  BY ONLY <1>1, HeapAssumption, AlignedSums
<1>4. low \in Blocks /\ low.at = bs[k].at /\ low.page = bs[k].page /\ low.size = sum
      /\ low.is_free = bs[k].is_free
  BY <1>1, <1>3 DEF Blocks
<1>5. joined(bs, k, k + 1) = c /\ joined(bs, k + 1, k) = c
  <2>1. Min({k, k + 1}) = k /\ Min({k + 1, k}) = k
    <3> DEFINE T == {k, k + 1}
    <3>1. T \in SUBSET Nat /\ T # {} /\ T = {k + 1, k}
      BY <1>1
    <3>2. Min(T) \in T /\ \A y \in T : Min(T) <= y
      BY <3>1, MinIsLeast
    <3>3. Min(T) = k
      BY <1>1, <3>2
    <3> QED BY <3>1, <3>3
  <2>2. /\ [bs EXCEPT ![k].size = bs[k].size + bs[k + 1].size] = e
        /\ [bs EXCEPT ![k].size = bs[k + 1].size + bs[k].size] = e
    <3>1. bs[k].size + bs[k + 1].size = sum /\ bs[k + 1].size + bs[k].size = sum
      BY <1>1 DEF Wide
    <3> HIDE DEF sum
    <3> QED BY <3>1
  <2> HIDE DEF e
  <2> QED BY <2>1, <2>2 DEF joined
<1> HIDE DEF low, sum
<1>6. /\ e \in Seq(Blocks) /\ Len(e) = n
      /\ \A j \in 1 .. n : e[j] = IF j = k THEN low ELSE bs[j]
  BY ONLY <1>1, <1>4, Changed
<1> HIDE DEF e
<1>7. /\ c \in Seq(Blocks) /\ Len(c) = n - 1
      /\ \A j \in 1 .. n - 1 : c[j] = e[After((k + 1) - 1, j)] /\ After((k + 1) - 1, j) \in 1 .. n
  <2>1. PICK l \in 1 .. Len(e) : l = k + 1
    BY <1>1, <1>6
  <2>2. c = RemoveAt(e, l) /\ e \in Seq(Blocks)
    BY <1>6, <2>1
  <2> HIDE DEF c
  <2>3. /\ c \in Seq(Blocks) /\ Len(c) = Len(e) - 1
        /\ \A j \in 1 .. Len(e) - 1 : c[j] = e[After(l - 1, j)] /\ After(l - 1, j) \in 1 .. Len(e)
    BY ONLY <2>2, l \in 1 .. Len(e), RemovedBlock
  <2> QED BY <1>6, <2>1, <2>3
<1>8. (k + 1) - 1 = k
  BY <1>1
<1> HIDE DEF c
<1>9. ASSUME NEW j \in 1 .. n - 1
      PROVE  /\ Home(c, j) = Home(bs, After(k, j)) /\ Number(c, j) = Number(bs, After(k, j))
             /\ From(c, j) = From(bs, After(k, j)) /\ Free(c, j) = Free(bs, After(k, j))
             /\ Until(c, j) = IF j = k THEN Until(bs, k + 1) ELSE Until(bs, After(k, j))
  <2>1. PICK i \in 1 .. n : i = After(k, j) /\ c[j] = e[i]
    BY <1>7, <1>8
  <2>2. CASE j = k
    <3>1. i = k
      BY <1>1, <2>1, <2>2 DEF After
    <3>2. c[j] = low
      BY <1>6, <2>1, <3>1
    <3>3. /\ Home(c, j) = Home(bs, k) /\ Number(c, j) = Number(bs, k) /\ From(c, j) = From(bs, k)
          /\ Free(c, j) = Free(bs, k) /\ Wide(c, j) = sum
      BY <1>4, <3>2 DEF Home, Number, From, Wide, Free
    <3>4. Until(c, j) = From(c, j) + Wide(c, j)
      BY DEF Until
    <3>5. Until(c, j) = Until(bs, k + 1)
      BY ONLY <1>1, <1>2, <3>3, <3>4 DEF sum
    <3> QED BY ONLY <2>1, <2>2, <3>1, <3>3, <3>5
  <2>3. CASE j # k
    <3>1. i # k
      BY <1>1, <2>1, <2>3 DEF After
    <3>2. c[j] = bs[i]
      BY <1>6, <2>1, <3>1
    <3> QED BY ONLY <2>1, <2>3, <3>2 DEF Home, Number, From, Until, Wide, Free
  <2> QED BY <2>2, <2>3
<1>10. IsJoined(bs, c, k)
  BY ONLY <1>7, <1>9 DEF IsJoined
<1> QED BY <1>5, <1>10

\* and a page in front.
LEMMA Pushed ==
    ASSUME HeapAssumption, NEW bs, bs \in Seq(Blocks), NEW p \in 1 .. MaxPages, NEW number \in Nat,
           NEW b, b = [at |-> <<p, 0>>, page |-> number, size |-> PageSize, is_free |-> TRUE]
    PROVE  IsPushed(bs, <<b>> \o bs, p, number)
<1>1. PageSize \in Aligned /\ 0 \in Aligned /\ PageSize \in Nat
  BY AlignedHeaders
<1>2. b \in Blocks /\ b.at = <<p, 0>> /\ b.page = number /\ b.size = PageSize /\ b.is_free
  BY <1>1 DEF Blocks
<1>3. <<b>> \in Seq(Blocks) /\ Len(<<b>>) = 1 /\ <<b>>[1] = b
  BY <1>2
<1>4. PICK o \in Seq(Blocks) : o = <<b>> /\ Len(o) = 1 /\ o[1] = b
  BY <1>3
<1>5. PICK c : c = o \o bs
  OBVIOUS
<1>6. Len(bs) \in Nat
  BY LenProperties
<1>7. /\ c \in Seq(Blocks) /\ Len(c) = 1 + Len(bs)
      /\ \A j \in 1 .. 1 + Len(bs) : c[j] = IF j <= 1 THEN o[j] ELSE bs[j - 1]
  BY ONLY <1>4, <1>5, bs \in Seq(Blocks), Concatenated
<1>8. c[1] = b
  <2>1. 1 \in 1 .. 1 + Len(bs) /\ 1 <= 1
    BY <1>6
  <2>2. c[1] = o[1]
    BY <1>7, <2>1
  <2> QED BY <1>4, <2>2
<1>9. ASSUME NEW j \in 1 .. Len(bs) PROVE c[j + 1] = bs[j]
  <2>1. j + 1 \in 1 .. 1 + Len(bs) /\ ~(j + 1 <= 1) /\ (j + 1) - 1 = j
    BY <1>6
  <2> QED BY <1>7, <2>1
<1>10. Home(c, 1) = p /\ Number(c, 1) = number /\ From(c, 1) = 0 /\ Wide(c, 1) = PageSize /\ Free(c, 1)
  BY ONLY <1>2, <1>8 DEF Home, Number, From, Wide, Free
<1>11. Until(c, 1) = PageSize
  BY <1>1, <1>10 DEF Until
<1>12. Len(c) = Len(bs) + 1
  BY <1>6, <1>7
<1>13. \A j \in 1 .. Len(bs) :
         /\ Home(c, j + 1) = Home(bs, j) /\ Number(c, j + 1) = Number(bs, j)
         /\ From(c, j + 1) = From(bs, j) /\ Until(c, j + 1) = Until(bs, j)
         /\ Free(c, j + 1) = Free(bs, j)
  BY ONLY <1>9 DEF Home, Number, From, Until, Wide, Free
<1>14. IsPushed(bs, c, p, number)
  BY ONLY <1>7, <1>10, <1>11, <1>12, <1>13 DEF IsPushed
<1> QED BY <1>4, <1>5, <1>14

-----------------------------------------------------------------------------
(* The free list.                                                          *)

\* The list g is fl without the element at place k; with a at place i.
Without(fl, g, k) ==
    Len(g) = Len(fl) - 1 /\ \A j \in 1 .. Len(fl) - 1 : g[j] = IF j < k THEN fl[j] ELSE fl[j + 1]

With(fl, g, i, a) ==
    /\ Len(g) = Len(fl) + 1
    /\ \A j \in 1 .. Len(fl) + 1 : g[j] = IF j < i THEN fl[j] ELSE IF j = i THEN a ELSE fl[j - 1]

\* The place i is behind the blocks larger than size and before the others.
PlaceOf(bs, fl, i, size) ==
    /\ i \in 1 .. Len(fl) + 1
    /\ \A j \in 1 .. Len(fl) : j < i => Size(bs, fl[j]) > size
    /\ \A j \in 1 .. Len(fl) : j >= i => Size(bs, fl[j]) <= size

\* A list without the block at place k.
LEMMA ListRemoved ==
    ASSUME NEW bs, NEW fl, NEW F, ListFor(bs, fl, F), NEW k \in 1 .. Len(fl),
           NEW g, g = RemoveAt(fl, k)
    PROVE  ListFor(bs, g, F \ {fl[k]}) /\ Without(fl, g, k)
<1> DEFINE n == Len(fl)
           old(j) == IF j < k THEN j ELSE j + 1
<1>1. fl \in Seq(Places) /\ n \in Nat /\ k \in 1 .. n
  BY LenProperties DEF ListFor
<1>2. /\ g \in Seq(Places) /\ Len(g) = n - 1
      /\ \A j \in 1 .. n - 1 : g[j] = IF j < k THEN fl[j] ELSE fl[j + 1]
  BY ONLY <1>1, g = RemoveAt(fl, k), k \in 1 .. Len(fl), RemovedAt
<1>3. ASSUME NEW j \in 1 .. n - 1 PROVE g[j] = fl[old(j)] /\ old(j) \in 1 .. n /\ old(j) # k
  <2>1. old(j) \in 1 .. n /\ old(j) # k
    BY <1>1
  <2> QED BY <1>2, <2>1
<1>4. ASSUME NEW i \in 1 .. n, i # k PROVE \E j \in 1 .. n - 1 : old(j) = i
  <2>1. CASE i < k
    <3>1. i \in 1 .. n - 1 /\ old(i) = i
      BY <1>1, <2>1
    <3> QED BY <3>1
  <2>2. CASE i > k
    <3>1. i - 1 \in 1 .. n - 1 /\ old(i - 1) = i
      BY <1>1, <2>2
    <3> QED BY <3>1
  <2>3. i < k \/ i > k
    BY <1>1, <1>4
  <2> QED BY <2>1, <2>2, <2>3
<1>5. \A i, j \in 1 .. n - 1 : (i < j => old(i) < old(j)) /\ (old(i) = old(j) => i = j)
  BY <1>1
<1>6. /\ F = {fl[i] : i \in 1 .. n}
      /\ \A i, j \in 1 .. n : fl[i] = fl[j] => i = j
      /\ \A i, j \in 1 .. n : i < j => Size(bs, fl[i]) >= Size(bs, fl[j])
  BY DEF ListFor
<1> HIDE DEF old, n
<1>7. \A i, j \in 1 .. n - 1 : g[i] = g[j] => i = j
  BY ONLY <1>3, <1>5, <1>6
<1>8. ASSUME NEW i \in 1 .. n - 1, NEW j \in 1 .. n - 1, i < j
      PROVE  Size(bs, g[i]) >= Size(bs, g[j])
  <2>1. old(i) \in 1 .. n /\ old(j) \in 1 .. n /\ old(i) < old(j)
    BY ONLY <1>3, <1>5, <1>8
  <2>2. Size(bs, fl[old(i)]) >= Size(bs, fl[old(j)])
    BY ONLY <1>6, <2>1
  <2> QED BY <1>3, <2>2
<1>9. ASSUME NEW x PROVE x \in F \ {fl[k]} <=> x \in {g[i] : i \in 1 .. n - 1}
  <2>1. ASSUME x \in F, x # fl[k] PROVE x \in {g[i] : i \in 1 .. n - 1}
    <3>1. PICK i \in 1 .. n : x = fl[i] /\ i # k
      BY ONLY <1>6, <2>1
    <3>2. PICK j \in 1 .. n - 1 : old(j) = i
      BY ONLY <1>4, <3>1
    <3>3. g[j] = x
      BY ONLY <1>3, <3>1, <3>2
    <3> QED BY <3>3
  <2>2. ASSUME NEW i \in 1 .. n - 1, x = g[i] PROVE x \in F /\ x # fl[k]
    BY ONLY <1>1, <1>3, <1>6, <2>2
  <2> QED BY ONLY <2>1, <2>2
<1>10. F \ {fl[k]} = {g[i] : i \in 1 .. n - 1}
  BY <1>9
<1>11. ListFor(bs, g, F \ {fl[k]})
  BY ONLY <1>2, <1>7, <1>8, <1>10 DEF ListFor
<1> QED BY <1>2, <1>11 DEF n, Without

\* A list without a given block.
LEMMA ListWithout ==
    ASSUME NEW bs, NEW fl, NEW F, ListFor(bs, fl, F), NEW a \in F
    PROVE  \E k \in 1 .. Len(fl) : /\ fl[k] = a /\ RemoveFirst(fl, a) = RemoveAt(fl, k)
                                   /\ positionOf(fl, a) = k
<1>1. fl \in Seq(Places) /\ DOMAIN fl = 1 .. Len(fl)
  BY LenProperties DEF ListFor
<1>2. IsInjective(fl) /\ a \in ToSet(fl)
  BY <1>1 DEF ListFor, IsInjective, ToSet
<1> QED BY <1>1, <1>2, RemovedFirst

\* The order depends on the sizes only.
LEMMA ListSizes ==
    ASSUME NEW bs, NEW fl, NEW F, ListFor(bs, fl, F), NEW c, \A x \in F : Size(c, x) = Size(bs, x)
    PROVE  ListFor(c, fl, F) /\ (FewPages(bs, fl) => FewPages(c, fl))
<1>1. \A i \in 1 .. Len(fl) : Size(c, fl[i]) = Size(bs, fl[i])
  BY DEF ListFor
<1> QED BY <1>1 DEF ListFor, FewPages

\* Where a block goes: behind the larger ones, before the others.
LEMMA Placed ==
    ASSUME NEW bs, NEW fl, NEW F, ListFor(bs, fl, F), \A x \in F : Size(bs, x) \in Nat,
           NEW size \in Nat, NEW i, i = placeOf(bs, fl, size)
    PROVE  PlaceOf(bs, fl, i, size)
<1> DEFINE n == Len(fl)
           T == {j \in DOMAIN fl : Size(bs, fl[j]) <= size} \cup {n + 1}
<1>1. n \in Nat /\ DOMAIN fl = 1 .. n
  BY LenProperties DEF ListFor
<1>2. \A j \in 1 .. n : Size(bs, fl[j]) \in Nat
  BY DEF ListFor
<1>3. i \in T /\ \A j \in T : i <= j
  <2>1. T \in SUBSET Nat /\ T # {}
    BY <1>1
  <2>2. i = Min(T)
    BY DEF placeOf
  <2> HIDE DEF T
  <2> QED BY <2>1, <2>2, MinIsLeast
<1>4. i \in 1 .. n + 1
  BY <1>1, <1>3
<1>5. ASSUME NEW j \in 1 .. n, j < i PROVE Size(bs, fl[j]) > size
  <2>1. j \notin T
    BY <1>1, <1>3, <1>4, <1>5
  <2>2. ~(Size(bs, fl[j]) <= size)
    BY <1>1, <2>1
  <2>3. Size(bs, fl[j]) \in Nat
    BY <1>2
  <2> QED BY ONLY <2>2, <2>3, size \in Nat
<1>6. ASSUME NEW j \in 1 .. n, j >= i PROVE Size(bs, fl[j]) <= size
  <2>1. i \in 1 .. n
    BY <1>1, <1>4, <1>6
  <2>2. Size(bs, fl[i]) <= size
    BY <1>1, <1>3, <2>1
  <2>3. i = j \/ Size(bs, fl[i]) >= Size(bs, fl[j])
    <3>1. i = j \/ i < j
      BY <1>1, <1>6, <2>1
    <3> QED BY <2>1, <3>1 DEF ListFor
  <2>4. Size(bs, fl[i]) \in Nat /\ Size(bs, fl[j]) \in Nat
    BY <1>2, <2>1
  <2> QED BY ONLY <2>2, <2>3, <2>4, size \in Nat
<1> QED BY <1>4, <1>5, <1>6 DEF PlaceOf

\* A list with one more block.
LEMMA ListInserted ==
    ASSUME NEW bs, NEW fl, NEW F, ListFor(bs, fl, F), \A x \in F : Size(bs, x) \in Nat,
           NEW a \in Places, a \notin F, Size(bs, a) \in Nat, NEW g, g = inserted(bs, fl, a),
           NEW i, i = placeOf(bs, fl, Size(bs, a))
    PROVE  ListFor(bs, g, F \cup {a}) /\ With(fl, g, i, a) /\ PlaceOf(bs, fl, i, Size(bs, a))
<1> DEFINE n == Len(fl)
<1>1. fl \in Seq(Places) /\ n \in Nat
  BY LenProperties DEF ListFor
<1>2. PICK size \in Nat : size = Size(bs, a)
  OBVIOUS
<1>3. /\ i \in 1 .. n + 1
      /\ \A j \in 1 .. n : j < i => Size(bs, fl[j]) > size
      /\ \A j \in 1 .. n : j >= i => Size(bs, fl[j]) <= size
  BY <1>2, Placed DEF PlaceOf
<1>4. g = InsertAt(fl, i, a) /\ a \in Places
  BY DEF inserted
<1>5. /\ g \in Seq(Places) /\ Len(g) = n + 1
      /\ \A j \in 1 .. n + 1 : g[j] = IF j < i THEN fl[j] ELSE IF j = i THEN a ELSE fl[j - 1]
  <2>1. i \in 1 .. Len(fl) + 1
    BY <1>3
  <2>2. PICK d \in Seq(Places) : d = fl
    BY <1>1
  <2>3. PICK k \in 1 .. Len(d) + 1 : k = i
    BY <2>1, <2>2
  <2>4. PICK e \in Places : e = a
    OBVIOUS
  <2>5. /\ InsertAt(d, k, e) \in Seq(Places) /\ Len(InsertAt(d, k, e)) = Len(d) + 1
        /\ \A j \in 1 .. Len(d) + 1 :
              InsertAt(d, k, e)[j] = IF j < k THEN d[j] ELSE IF j = k THEN e ELSE d[j - 1]
    BY ONLY d \in Seq(Places), k \in 1 .. Len(d) + 1, e \in Places, InsertedAt
  <2> QED BY ONLY <1>4, <2>2, <2>3, <2>4, <2>5
<1>6. /\ F = {fl[j] : j \in 1 .. n}
      /\ \A j, k \in 1 .. n : fl[j] = fl[k] => j = k
      /\ \A j, k \in 1 .. n : j < k => Size(bs, fl[j]) >= Size(bs, fl[k])
  BY DEF ListFor
<1>7. \A j \in 1 .. n : Size(bs, fl[j]) \in Nat /\ fl[j] # a
  BY <1>6
<1> HIDE DEF n
<1>8. ASSUME NEW j \in 1 .. n + 1
      PROVE  /\ j = i => g[j] = a
             /\ j < i => j \in 1 .. n /\ g[j] = fl[j]
             /\ j > i => j - 1 \in 1 .. n /\ g[j] = fl[j - 1] /\ j - 1 >= i
  <2>1. g[j] = IF j < i THEN fl[j] ELSE IF j = i THEN a ELSE fl[j - 1]
    BY <1>5
  <2>2. /\ j < i => j \in 1 .. n
        /\ j > i => j - 1 \in 1 .. n /\ j - 1 >= i /\ ~(j < i) /\ j # i
        /\ j = i => ~(j < i)
    BY <1>1, <1>3
  <2> QED BY ONLY <2>1, <2>2
<1>9. \A j \in 1 .. n + 1 : j = i \/ j < i \/ j > i
  BY <1>1, <1>3
<1>10. ASSUME NEW j \in 1 .. n + 1, NEW k \in 1 .. n + 1, g[j] = g[k] PROVE j = k
  <2>1. j = i <=> g[j] = a
    BY <1>7, <1>8, <1>9
  <2>2. k = i <=> g[k] = a
    BY <1>7, <1>8, <1>9
  <2>3. CASE j < i /\ k < i
    BY <1>6, <1>8, <1>10, <2>3
  <2>4. CASE j > i /\ k > i
    <3>1. j - 1 = k - 1
      BY <1>6, <1>8, <1>10, <2>4
    <3> QED BY <1>1, <3>1
  <2>5. CASE j < i /\ k > i
    <3>1. k - 1 >= i /\ j = k - 1
      BY <1>6, <1>8, <1>10, <2>5
    <3> QED BY <1>1, <1>3, <2>5, <3>1
  <2>6. CASE j > i /\ k < i
    <3>1. j - 1 >= i /\ k = j - 1
      BY <1>6, <1>8, <1>10, <2>6
    <3> QED BY <1>1, <1>3, <2>6, <3>1
  <2> QED BY <1>9, <1>10, <2>1, <2>2, <2>3, <2>4, <2>5, <2>6
<1>11. ASSUME NEW j \in 1 .. n + 1, NEW k \in 1 .. n + 1, j < k
       PROVE  Size(bs, g[j]) >= Size(bs, g[k])
  <2>1. CASE k < i
    <3>1. j < i
      BY <1>1, <1>3, <1>11, <2>1
    <3>2. j \in 1 .. n /\ k \in 1 .. n /\ g[j] = fl[j] /\ g[k] = fl[k]
      BY <1>8, <2>1, <3>1
    <3> QED BY <1>6, <1>11, <3>2
  <2>2. CASE k = i
    <3>1. j \in 1 .. n /\ j < i /\ g[j] = fl[j] /\ g[k] = a
      BY <1>8, <1>11, <2>2
    <3>2. Size(bs, fl[j]) > size /\ Size(bs, fl[j]) \in Nat
      BY <1>3, <1>7, <3>1
    <3> QED BY <1>2, <3>1, <3>2
  <2>3. CASE k > i /\ j = i
    <3>1. k - 1 \in 1 .. n /\ k - 1 >= i /\ g[k] = fl[k - 1] /\ g[j] = a
      BY <1>8, <2>3
    <3>2. Size(bs, fl[k - 1]) <= size /\ Size(bs, fl[k - 1]) \in Nat
      BY <1>3, <1>7, <3>1
    <3> QED BY <1>2, <3>1, <3>2
  <2>4. CASE k > i /\ j < i
    <3>1. k - 1 \in 1 .. n /\ k - 1 >= i /\ g[k] = fl[k - 1] /\ j \in 1 .. n /\ g[j] = fl[j]
      BY <1>8, <2>4
    <3>2. j < k - 1
      BY <1>1, <1>3, <2>4, <3>1
    <3> QED BY <1>6, <3>1, <3>2
  <2>5. CASE k > i /\ j > i
    <3>1. k - 1 \in 1 .. n /\ g[k] = fl[k - 1] /\ j - 1 \in 1 .. n /\ g[j] = fl[j - 1]
      BY <1>8, <2>5
    <3>2. j - 1 < k - 1
      BY <1>1, <1>11
    <3> QED BY <1>6, <3>1, <3>2
  <2> QED BY <1>9, <2>1, <2>2, <2>3, <2>4, <2>5
<1>12. F \cup {a} = {g[j] : j \in 1 .. n + 1}
  <2>1. \A j \in 1 .. n + 1 : g[j] \in F \cup {a}
    BY <1>6, <1>8, <1>9
  <2>2. ASSUME NEW j \in 1 .. n PROVE \E k \in 1 .. n + 1 : g[k] = fl[j]
    <3>1. CASE j < i
      <4>1. j \in 1 .. n + 1
        BY <1>1
      <4> QED BY <1>8, <3>1, <4>1
    <3>2. CASE ~(j < i)
      <4>1. j + 1 \in 1 .. n + 1 /\ j + 1 > i /\ (j + 1) - 1 = j
        BY <1>1, <1>3, <3>2
      <4> QED BY <1>8, <4>1
    <3> QED BY <3>1, <3>2
  <2>3. g[i] = a
    BY <1>3, <1>8
  <2> QED BY <1>3, <1>6, <2>1, <2>2, <2>3
<1>13. ListFor(bs, g, F \cup {a})
  BY ONLY <1>5, <1>10, <1>11, <1>12 DEF ListFor
<1> QED BY <1>2, <1>3, <1>5, <1>13 DEF n, With, PlaceOf

\* insertFreeBlock: the lists and the page that is given back.
LEMMA FreeBlockInserted ==
    ASSUME HeapAssumption, NEW bs, ChainOK(bs), NoneAdjoin(bs),
           NewNumber(bs, PageIdMod - 1),
           NEW a \in FreeAt(bs), NEW fl, ListFor(bs, fl, FreeAt(bs) \ {a}), FewPages(bs, fl),
           NEW after, after = insertFreeBlock(bs, fl, a)
    PROVE  /\ ChainOK(after.blocks) /\ NoneAdjoin(after.blocks)
           /\ FreeOK(after.blocks, after.free_list) /\ FewPages(after.blocks, after.free_list)
           /\ \/ after.pages = {} /\ after.blocks = bs
              \/ \E k \in 1 .. Len(bs) : /\ Wide(bs, k) = PageSize /\ Free(bs, k)
                                         /\ after.pages = {Home(bs, k)}
                                         /\ IsDropped(bs, after.blocks, k)
<1> DEFINE F == FreeAt(bs)
           G == FreeAt(bs) \ {a}
           i == placeOf(bs, fl, Size(bs, a))
           ins == inserted(bs, fl, a)
           n == Len(fl)
<1>1. /\ KeptPages \in Nat /\ KeptPages >= 1 /\ PageSize \in Nat /\ n \in Nat
  BY LenProperties DEF HeapAssumption, ListFor
<1>2. ASSUME NEW x \in F
      PROVE  \E k \in 1 .. Len(bs) : /\ x = Where(bs, k) /\ Index(bs, x) = k /\ Size(bs, x) = Wide(bs, k)
                                     /\ Free(bs, k) /\ Wide(bs, k) \in Nat /\ Wide(bs, k) <= PageSize
  <2>1. PICK k \in 1 .. Len(bs) : x = Where(bs, k) /\ Free(bs, k)
    BY DEF FreeAt
  <2>2. Index(bs, x) = k /\ Size(bs, x) = Wide(bs, k)
    BY <2>1, OneBlock DEF ChainOK
  <2>3. /\ From(bs, k) \in Nat /\ Wide(bs, k) \in Nat /\ Until(bs, k) = From(bs, k) + Wide(bs, k)
        /\ Until(bs, k) <= PageSize
    BY ChainFacts DEF ChainOK
  <2>4. Wide(bs, k) <= PageSize
    BY ONLY <1>1, <2>3
  <2> QED BY <2>1, <2>2, <2>3, <2>4
<1>3. \A x \in F : Size(bs, x) \in Nat /\ Size(bs, x) <= PageSize
  BY <1>2
<1>4. F \subseteq Places
  <2>1. FreeAt(bs) \subseteq At(bs) /\ At(bs) \subseteq Places
    BY Addresses DEF ChainOK
  <2> QED BY <2>1
<1>5. /\ ListFor(bs, ins, F) /\ Len(ins) = n + 1 /\ i \in 1 .. n + 1
      /\ \A j \in 1 .. Len(ins) : ins[j] = IF j < i THEN fl[j] ELSE IF j = i THEN a ELSE fl[j - 1]
      /\ \A j \in 1 .. n : j < i => Size(bs, fl[j]) > Size(bs, a)
      /\ \A j \in 1 .. n : j >= i => Size(bs, fl[j]) <= Size(bs, a)
  <2>1. /\ ListFor(bs, fl, G) /\ \A x \in G : Size(bs, x) \in Nat
        /\ a \in Places /\ a \notin G /\ Size(bs, a) \in Nat
    BY <1>3, <1>4
  <2>2. G \cup {a} = F
    OBVIOUS
  <2> HIDE DEF G, F
  <2>3. PICK b \in Places : b = a
    BY <2>1
  <2>4. PICK g : g = inserted(bs, fl, b)
    OBVIOUS
  <2>5. PICK e : e = placeOf(bs, fl, Size(bs, b))
    OBVIOUS
  <2>6. ListFor(bs, fl, G) /\ (\A x \in G : Size(bs, x) \in Nat) /\ b \notin G /\ Size(bs, b) \in Nat
    BY <2>1, <2>3
  <2>7. ListFor(bs, g, G \cup {b}) /\ With(fl, g, e, b) /\ PlaceOf(bs, fl, e, Size(bs, b))
    BY ONLY <2>4, <2>5, <2>6, b \in Places, ListInserted
  <2>8. g = ins /\ e = i
    BY <2>3, <2>4, <2>5
  <2>9. ListFor(bs, ins, F) /\ With(fl, ins, i, a) /\ PlaceOf(bs, fl, i, Size(bs, a))
    BY <2>2, <2>3, <2>7, <2>8
  <2> HIDE DEF F, G, ins, i
  <2> QED BY <2>9 DEF With, PlaceOf
<1>6. \A j \in 1 .. n : fl[j] \in G /\ fl[j] \in F /\ Size(bs, fl[j]) \in Nat /\ Size(bs, fl[j]) <= PageSize
  BY <1>3 DEF ListFor
<1>7. Size(bs, a) = PageSize => i = 1
  <2> SUFFICES ASSUME Size(bs, a) = PageSize, i # 1 PROVE FALSE
    OBVIOUS
  <2>1. 1 \in 1 .. n /\ 1 < i
    BY <1>1, <1>5
  <2>2. Size(bs, fl[1]) > Size(bs, a) /\ Size(bs, fl[1]) \in Nat /\ Size(bs, fl[1]) <= PageSize
    BY <1>5, <1>6, <2>1
  <2> QED BY <1>1, <2>2
<1>8. CASE surplus(bs, fl, a)
  <2>1. Size(bs, a) = PageSize /\ n >= i + KeptPages - 1
        /\ \A j \in i .. i + KeptPages - 1 : Size(bs, fl[j]) = PageSize
    BY <1>8 DEF surplus
  <2>2. i = 1 /\ 1 \in 1 .. n /\ Size(bs, fl[1]) = PageSize
    <3>1. i = 1
      BY <1>7, <2>1
    <3>2. 1 \in 1 .. n /\ 1 \in 1 .. 1 + KeptPages - 1
      BY <1>1, <2>1, <3>1
    <3> QED BY <2>1, <3>1, <3>2
  <2>3. PICK k \in 1 .. Len(bs) : /\ fl[1] = Where(bs, k) /\ Index(bs, fl[1]) = k
                                  /\ Wide(bs, k) = PageSize /\ Free(bs, k)
    BY <1>2, <1>6, <2>2
  <2>4. after = [blocks |-> RemoveAt(bs, k), free_list |-> RemoveAt(ins, 2), pages |-> {fl[1][1]}]
    <3>1. i + 1 = 2
      BY <2>2
    <3> HIDE DEF ins
    <3> QED BY <1>8, <2>2, <2>3, <3>1 DEF insertFreeBlock, ins
  <2> HIDE DEF ins, i, F, G
  <2>5. PICK c, g : c = RemoveAt(bs, k) /\ g = RemoveAt(ins, 2)
    OBVIOUS
  <2>6. after.blocks = c /\ after.free_list = g /\ after.pages = {Home(bs, k)}
    <3>1. fl[1][1] = Home(bs, k)
      BY <2>3 DEF Where
    <3> QED BY <2>4, <2>5, <3>1
  <2>7. IsDropped(bs, c, k)
    BY <2>5, Dropped
  <2>8. /\ ChainOK(c) /\ NoneAdjoin(c) /\ FreeAt(c) = FreeAt(bs) \ {Where(bs, k)}
        /\ At(c) = At(bs) \ {Where(bs, k)} /\ \A x \in At(c) : Size(c, x) = Size(bs, x)
    BY <2>3, <2>7, DropChain
  <2>9. 2 \in 1 .. Len(ins) /\ ins[2] = fl[1]
    BY <1>1, <1>5, <2>2
  <2>10. /\ ListFor(bs, g, F \ {ins[2]}) /\ Len(g) = Len(ins) - 1
         /\ \A j \in 1 .. Len(g) : g[j] = IF j < 2 THEN ins[j] ELSE ins[j + 1]
    <3>1. PICK l \in 1 .. Len(ins) : l = 2
      BY <2>9
    <3>2. ListFor(bs, ins, F) /\ g = RemoveAt(ins, l)
      BY <1>5, <2>5, <3>1
    <3>3. ListFor(bs, g, F \ {ins[l]}) /\ Without(ins, g, l)
      BY ONLY <3>2, l \in 1 .. Len(ins), ListRemoved
    <3> QED BY <3>1, <3>3 DEF Without
  <2>11. F \ {ins[2]} = FreeAt(c)
    BY <2>3, <2>8, <2>9 DEF F
  <2>12. \A x \in FreeAt(c) : Size(c, x) = Size(bs, x)
    BY <2>8, Addresses DEF ChainOK
  <2>13. ListFor(c, g, FreeAt(c))
    BY <2>10, <2>11, <2>12, ListSizes
  <2>14. FewPages(bs, g)
    <3> SUFFICES ASSUME NEW j \in 1 .. Len(g), j > KeptPages PROVE Size(bs, g[j]) < PageSize
      BY DEF FewPages
    <3>1. j \in 1 .. n /\ ~(j < 2) /\ j + 1 \in 1 .. Len(ins) /\ ~(j + 1 < i) /\ j + 1 # i /\ (j + 1) - 1 = j
      BY <1>1, <1>5, <2>2, <2>10
    <3>2. g[j] = ins[j + 1]
      BY <2>10, <3>1
    <3>3. ins[j + 1] = fl[(j + 1) - 1]
      <4>1. ins[j + 1] = IF j + 1 < i THEN fl[j + 1] ELSE IF j + 1 = i THEN a ELSE fl[(j + 1) - 1]
        BY <1>5, <3>1
      <4> QED BY ONLY <3>1, <4>1
    <3>4. g[j] = fl[j]
      BY ONLY <3>1, <3>2, <3>3
    <3> QED BY <3>1, <3>4 DEF FewPages
  <2>15. FewPages(c, g)
    BY <2>10, <2>11, <2>12, <2>14, ListSizes
  <2> QED BY <2>3, <2>6, <2>7, <2>8, <2>13, <2>15 DEF FreeOK
<1>9. CASE ~surplus(bs, fl, a)
  <2>1. after.blocks = bs /\ after.free_list = ins /\ after.pages = {}
    BY <1>9 DEF insertFreeBlock
  <2>2. ASSUME NEW j \in 1 .. n + 1, j > KeptPages PROVE Size(bs, ins[j]) < PageSize
    <3>1. Size(bs, a) \in Nat /\ Size(bs, a) <= PageSize
      BY <1>3
    <3>2. CASE Size(bs, a) < PageSize
      <4>1. CASE j < i
        <5>1. j \in 1 .. n /\ ins[j] = fl[j]
          BY <1>1, <1>5, <4>1
        <5> QED BY <2>2, <5>1 DEF FewPages
      <4>2. CASE j = i
        <5>1. ins[j] = a
          BY <1>1, <1>5, <4>2
        <5> QED BY <3>2, <5>1
      <4>3. CASE j > i
        <5>1. j - 1 \in 1 .. n /\ j - 1 >= i /\ ins[j] = fl[j - 1]
          BY <1>1, <1>5, <4>3
        <5>2. Size(bs, fl[j - 1]) <= Size(bs, a) /\ Size(bs, fl[j - 1]) \in Nat
          BY <1>5, <1>6, <5>1
        <5> QED BY <1>1, <3>1, <3>2, <5>1, <5>2
      <4> QED BY <1>1, <1>5, <4>1, <4>2, <4>3
    <3>3. CASE Size(bs, a) = PageSize
      <4>1. i = 1
        BY <1>7, <3>3
      <4>2. j - 1 \in 1 .. n /\ j - 1 >= KeptPages /\ ins[j] = fl[j - 1] /\ n >= KeptPages
        <5>1. j - 1 \in 1 .. n /\ j - 1 >= KeptPages /\ n >= KeptPages /\ ~(j < i) /\ j # i
          BY <1>1, <2>2, <4>1
        <5>2. j \in 1 .. Len(ins)
          BY <1>5
        <5> QED BY <1>5, <5>1, <5>2
      <4>3. ASSUME \A l \in 1 .. KeptPages : Size(bs, fl[l]) = PageSize PROVE FALSE
        <5>1. 1 \in 1 .. n /\ 1 \in 1 .. KeptPages /\ 1 + KeptPages - 1 = KeptPages
          BY <1>1, <4>2
        <5>2. Size(bs, fl[1]) = PageSize
          BY <4>3, <5>1
        <5>3. PICK k \in 1 .. Len(bs) : fl[1] = Where(bs, k) /\ Index(bs, fl[1]) = k /\ Wide(bs, k) = PageSize
          BY <1>2, <1>6, <5>1, <5>2
        <5>4. ASSUME NEW l \in Int, l # k PROVE bs[k].page # Block(bs, l).page
          <6>1. bs[k].page = Number(bs, k) /\ DOMAIN bs = 1 .. Len(bs)
            BY ChainFacts DEF ChainOK, Number
          <6>2. CASE l \in 1 .. Len(bs)
            <7>1. Home(bs, l) # Home(bs, k)
              BY <5>3, <5>4, <6>2, WholePage
            <7>2. Number(bs, l) # Number(bs, k)
              BY <6>2, <7>1 DEF ChainOK, Paged
            <7>3. Block(bs, l).page = Number(bs, l)
              BY <6>1, <6>2 DEF Block, Number
            <7> QED BY <6>1, <7>2, <7>3
          <6>3. CASE l \notin 1 .. Len(bs)
            <7>1. Block(bs, l).page = PageIdMod - 1
              BY <6>1, <6>3 DEF Block, Dummy
            <7>2. Number(bs, k) # PageIdMod - 1
              BY DEF NewNumber
            <7> QED BY <6>1, <7>1, <7>2
          <6> QED BY <6>2, <6>3
        <5>5. bs[k].page # Block(bs, k - 1).page /\ bs[k].page # Block(bs, k + 1).page
          <6>1. k - 1 \in Int /\ k - 1 # k /\ k + 1 \in Int /\ k + 1 # k
            OBVIOUS
          <6> QED BY <5>4, <6>1
        <5>6. surplus(bs, fl, a)
          <6> HIDE DEF i, ins
          <6>1. placeOf(bs, fl, Size(bs, a)) = 1
            BY <4>1 DEF i
          <6> QED BY ONLY <3>3, <4>2, <4>3, <5>1, <5>3, <5>5, <6>1 DEF surplus
        <5> QED BY <1>9, <5>6
      <4>4. PICK l \in 1 .. KeptPages : Size(bs, fl[l]) # PageSize
        BY <4>3
      <4>5. l \in 1 .. n /\ (l = j - 1 \/ l < j - 1)
        BY <1>1, <4>2
      <4>6. Size(bs, fl[l]) >= Size(bs, fl[j - 1])
        <5>1. Size(bs, fl[l]) \in Nat /\ Size(bs, fl[j - 1]) \in Nat
          BY <1>6, <4>2, <4>5
        <5>2. l < j - 1 => Size(bs, fl[l]) >= Size(bs, fl[j - 1])
          BY <4>2, <4>5 DEF ListFor
        <5> QED BY <4>5, <5>1, <5>2
      <4>7. /\ Size(bs, fl[l]) \in Nat /\ Size(bs, fl[j - 1]) \in Nat /\ Size(bs, fl[l]) <= PageSize
        BY <1>6, <4>2, <4>5
      <4>8. Size(bs, fl[j - 1]) < PageSize
        BY ONLY <1>1, <4>4, <4>6, <4>7
      <4> QED BY <4>2, <4>8
    <3> QED BY <1>1, <3>1, <3>2, <3>3
  <2>3. FewPages(bs, ins)
    BY <1>5, <2>2 DEF FewPages
  <2> QED BY <1>5, <2>1, <2>3 DEF FreeOK
<1> QED BY <1>8, <1>9

-----------------------------------------------------------------------------
(* The bytes of the list.                                                  *)

\* The blocks in use
Used(bs) == At(bs) \ FreeAt(bs)

\* The statistics add up these functions.
LEMMA Summands ==
    ASSUME HeapAssumption, NEW bs, ChainOK(bs)
    PROVE  /\ DOMAIN SizesOf(bs) = At(bs) /\ IsFiniteSet(At(bs))
           /\ \A x \in At(bs) : SizesOf(bs)[x] = Size(bs, x) /\ Size(bs, x) \in Nat
                                /\ Size(bs, x) >= BlockHeader
           /\ DOMAIN UsedSizes(bs) = Used(bs) /\ IsFiniteSet(Used(bs))
           /\ \A x \in Used(bs) : UsedSizes(bs)[x] = Size(bs, x)
           /\ DOMAIN Less(UsedSizes(bs), BlockHeader) = Used(bs)
           /\ \A x \in Used(bs) : /\ Less(UsedSizes(bs), BlockHeader)[x] = Size(bs, x) - BlockHeader
                                  /\ Size(bs, x) - BlockHeader \in Nat
<1>1. At(bs) = {b.at : b \in ToSet(bs)} /\ IsFiniteSet(At(bs))
  BY Addresses DEF ChainOK
<1>2. DOMAIN SizesOf(bs) = At(bs) /\ \A x \in At(bs) : SizesOf(bs)[x] = Size(bs, x)
  BY <1>1 DEF SizesOf
<1>3. BlockHeader \in Nat /\ BlockHeader <= FreeHeader /\ FreeHeader \in Nat
  BY DEF HeapAssumption
<1>4. ASSUME NEW x \in At(bs) PROVE Size(bs, x) \in Nat /\ Size(bs, x) >= BlockHeader
  <2>1. PICK i \in 1 .. Len(bs) : Size(bs, x) = Wide(bs, i)
    BY OneBlock DEF ChainOK
  <2>2. Wide(bs, i) \in Nat /\ Wide(bs, i) >= FreeHeader
    BY ChainFacts DEF ChainOK
  <2> QED BY <1>3, <2>1, <2>2
<1>5. Used(bs) = {b.at : b \in {c \in ToSet(bs) : ~c.is_free}}
  <2>1. DOMAIN bs = 1 .. Len(bs) /\ \A i \in 1 .. Len(bs) : bs[i].at = Where(bs, i)
    BY ChainFacts, OneBlock DEF ChainOK
  <2>2. \A i, j \in 1 .. Len(bs) : Where(bs, i) = Where(bs, j) => i = j
    BY OneBlock DEF ChainOK
  <2>3. {b.at : b \in {c \in ToSet(bs) : ~c.is_free}}
            = {Where(bs, i) : i \in {j \in 1 .. Len(bs) : ~Free(bs, j)}}
    BY <2>1 DEF ToSet, Free
  <2>4. Used(bs) = {Where(bs, i) : i \in {j \in 1 .. Len(bs) : ~Free(bs, j)}}
    BY <2>2 DEF Used, At, FreeAt
  <2> QED BY <2>3, <2>4
<1>6. DOMAIN UsedSizes(bs) = Used(bs) /\ \A x \in Used(bs) : UsedSizes(bs)[x] = Size(bs, x)
  BY <1>5 DEF UsedSizes
<1>7. Used(bs) \subseteq At(bs)
  BY DEF Used
<1>8. IsFiniteSet(Used(bs))
  BY <1>1, <1>7, FS_Subset
<1>9. /\ DOMAIN Less(UsedSizes(bs), BlockHeader) = Used(bs)
      /\ \A x \in Used(bs) : Less(UsedSizes(bs), BlockHeader)[x] = Size(bs, x) - BlockHeader
  BY <1>6 DEF Less
<1>10. \A x \in Used(bs) : Size(bs, x) - BlockHeader \in Nat
  BY <1>3, <1>4, <1>7
<1> QED BY <1>1, <1>2, <1>4, <1>6, <1>8, <1>9, <1>10

\* One more block of w bytes.
LEMMA MoreBytes ==
    ASSUME HeapAssumption, NEW bs, ChainOK(bs), NEW c, ChainOK(c),
           NEW a, a \notin At(bs), At(c) = At(bs) \cup {a}, \A x \in At(bs) : Size(c, x) = Size(bs, x)
    PROVE  /\ Total(SizesOf(bs)) \in Nat /\ Size(c, a) \in Nat
           /\ Total(SizesOf(c)) = Total(SizesOf(bs)) + Size(c, a)
<1>1. PICK f : f = SizesOf(bs)
  OBVIOUS
<1>2. PICK g : g = SizesOf(c)
  OBVIOUS
<1>3. /\ DOMAIN f = At(bs) /\ IsFiniteSet(DOMAIN f)
      /\ \A x \in DOMAIN f : f[x] = Size(bs, x) /\ f[x] \in Nat
  BY <1>1, Summands
<1>4. /\ DOMAIN g = At(c) /\ \A x \in DOMAIN g : g[x] = Size(c, x) /\ g[x] \in Nat
  BY <1>2, Summands
<1>5. /\ a \notin DOMAIN f /\ DOMAIN g = DOMAIN f \cup {a} /\ g[a] \in Nat /\ g[a] = Size(c, a)
      /\ \A x \in DOMAIN f : g[x] = f[x]
  BY <1>3, <1>4
<1>6. Total(f) \in Nat /\ Total(g) = Total(f) + g[a]
  BY ONLY <1>3, <1>5, TotalMore
<1> QED BY <1>1, <1>2, <1>5, <1>6

\* Splitting, marking and joining leave the sum alone, a page adds its size and takes it.
LEMMA SplitBytes ==
    ASSUME HeapAssumption, NEW bs, ChainOK(bs), NEW i \in 1 .. Len(bs),
           NEW q \in Nat, From(bs, i) + FreeHeader <= q, q + FreeHeader <= Until(bs, i),
           NEW c, IsSplit(bs, c, i, q)
    PROVE  Total(SizesOf(c)) = Total(SizesOf(bs))
<1>1. PICK a : a = <<Home(bs, i), q>>
  OBVIOUS
<1>2. PICK b : b = Where(bs, i)
  OBVIOUS
<1>3. /\ a \notin At(bs) /\ At(c) = At(bs) \cup {a} /\ b \in At(bs)
      /\ Size(c, a) = Until(bs, i) - q /\ Size(c, b) = q - From(bs, i)
      /\ \A x \in At(bs) : x # b => Size(c, x) = Size(bs, x)
  <2>1. b \in At(bs)
    BY <1>2 DEF At
  <2>2. /\ a \notin At(bs) /\ At(c) = At(bs) \cup {a}
        /\ Size(c, a) = Until(bs, i) - q /\ Size(c, Where(bs, i)) = q - From(bs, i)
        /\ \A x \in At(bs) : x # Where(bs, i) => Size(c, x) = Size(bs, x)
    BY ONLY HeapAssumption, ChainOK(bs), i \in 1 .. Len(bs), q \in Nat, From(bs, i) + FreeHeader <= q,
            q + FreeHeader <= Until(bs, i), IsSplit(bs, c, i, q), <1>1, SplitAddresses
  <2> QED BY <1>2, <2>1, <2>2
<1>4. ChainOK(c)
  BY SplitChain
<1>5. Size(bs, b) = Until(bs, i) - From(bs, i) /\ From(bs, i) \in Nat /\ Until(bs, i) \in Nat
  <2>1. /\ From(bs, i) \in Nat /\ Until(bs, i) \in Nat /\ Wide(bs, i) \in Nat
        /\ Until(bs, i) = From(bs, i) + Wide(bs, i) /\ Size(bs, b) = Wide(bs, i)
    BY <1>2, ChainFacts, OneBlock DEF ChainOK
  <2> QED BY ONLY <2>1
<1>6. PICK f : f = SizesOf(bs)
  OBVIOUS
<1>7. PICK g : g = SizesOf(c)
  OBVIOUS
<1>8. /\ DOMAIN f = At(bs) /\ IsFiniteSet(DOMAIN f)
      /\ \A x \in DOMAIN f : f[x] = Size(bs, x) /\ f[x] \in Nat
  BY <1>6, Summands
<1>9. /\ DOMAIN g = At(c) /\ \A x \in DOMAIN g : g[x] = Size(c, x) /\ g[x] \in Nat
  BY <1>4, <1>7, Summands
<1>10. PICK h : h = [x \in At(bs) |-> g[x]]
  OBVIOUS
<1>11. /\ DOMAIN h = DOMAIN f /\ IsFiniteSet(DOMAIN h) /\ b \in DOMAIN f /\ h[b] = g[b] /\ h[b] \in Nat
       /\ (\A x \in DOMAIN f \ {b} : h[x] = f[x]) /\ \A x \in DOMAIN h : h[x] \in Nat
  BY <1>3, <1>8, <1>9, <1>10
<1>12. Total(f) \in Nat /\ Total(h) \in Nat /\ Total(h) = Total(f) - f[b] + h[b]
  <2>1. PICK e \in DOMAIN f : e = b
    BY <1>11
  <2>2. /\ DOMAIN h = DOMAIN f /\ h[e] \in Nat /\ \A x \in DOMAIN f \ {e} : h[x] = f[x]
    BY <1>11, <2>1
  <2>3. IsFiniteSet(DOMAIN f) /\ \A x \in DOMAIN f : f[x] \in Nat
    BY <1>8
  <2>4. Total(f) \in Nat /\ Total(h) \in Nat /\ Total(h) = Total(f) - f[e] + h[e]
    BY ONLY <2>2, <2>3, e \in DOMAIN f, TotalChanged
  <2> QED BY <2>1, <2>4
<1>13. a \notin DOMAIN h /\ DOMAIN g = DOMAIN h \cup {a} /\ g[a] \in Nat /\ \A x \in DOMAIN h : g[x] = h[x]
  BY <1>3, <1>8, <1>9, <1>10, <1>11
<1>14. Total(g) = Total(h) + g[a]
  BY ONLY <1>11, <1>13, TotalMore
<1>15. f[b] = Until(bs, i) - From(bs, i) /\ h[b] = q - From(bs, i) /\ g[a] = Until(bs, i) - q
  BY <1>3, <1>5, <1>8, <1>9, <1>11, <1>13
<1>16. Total(g) = Total(f)
  BY ONLY <1>5, <1>12, <1>14, <1>15, q \in Nat
<1> QED BY <1>6, <1>7, <1>16

LEMMA JoinBytes ==
    ASSUME HeapAssumption, NEW bs, ChainOK(bs), NEW k \in 1 .. Len(bs), k + 1 \in 1 .. Len(bs),
           Home(bs, k) = Home(bs, k + 1), NEW c, IsJoined(bs, c, k)
    PROVE  Total(SizesOf(c)) = Total(SizesOf(bs))
<1>1. PICK a : a = Where(bs, k + 1)
  OBVIOUS
<1>2. PICK b : b = Where(bs, k)
  OBVIOUS
<1>3. ChainOK(c)
  BY JoinChain
<1>4. /\ a \in At(bs) /\ b \in At(bs) /\ a # b /\ Size(bs, a) = Wide(bs, k + 1) /\ Size(bs, b) = Wide(bs, k)
      /\ Wide(bs, k) \in Nat /\ Wide(bs, k + 1) \in Nat
  <2>1. k # k + 1
    OBVIOUS
  <2>2. a # b /\ Size(bs, a) = Wide(bs, k + 1) /\ Size(bs, b) = Wide(bs, k)
    BY <1>1, <1>2, <2>1, OneBlock DEF ChainOK
  <2>3. Wide(bs, k) \in Nat /\ Wide(bs, k + 1) \in Nat
    BY ChainFacts DEF ChainOK
  <2> QED BY <1>1, <1>2, <2>2, <2>3 DEF At
<1>5. /\ At(c) = At(bs) \ {a} /\ Size(c, b) = Wide(bs, k) + Wide(bs, k + 1)
      /\ \A x \in At(c) : x # b => Size(c, x) = Size(bs, x)
  BY <1>1, <1>2, JoinAddresses
<1>6. PICK f : f = SizesOf(bs)
  OBVIOUS
<1>7. PICK g : g = SizesOf(c)
  OBVIOUS
<1>8. /\ DOMAIN f = At(bs) /\ IsFiniteSet(DOMAIN f)
      /\ \A x \in DOMAIN f : f[x] = Size(bs, x) /\ f[x] \in Nat
  BY <1>6, Summands
<1>9. /\ DOMAIN g = At(c) /\ IsFiniteSet(DOMAIN g)
      /\ \A x \in DOMAIN g : g[x] = Size(c, x) /\ g[x] \in Nat
  BY <1>3, <1>7, Summands
<1>10. PICK h : h = [x \in At(c) |-> f[x]]
  OBVIOUS
<1>11. /\ DOMAIN h = DOMAIN g /\ IsFiniteSet(DOMAIN h) /\ b \in DOMAIN g /\ h[b] = f[b] /\ h[b] \in Nat
       /\ (\A x \in DOMAIN g \ {b} : h[x] = g[x]) /\ \A x \in DOMAIN h : h[x] \in Nat
  BY <1>4, <1>5, <1>8, <1>9, <1>10
<1>12. Total(g) \in Nat /\ Total(h) \in Nat /\ Total(h) = Total(g) - g[b] + h[b]
  <2>1. PICK e \in DOMAIN g : e = b
    BY <1>11
  <2>2. /\ DOMAIN h = DOMAIN g /\ h[e] \in Nat /\ \A x \in DOMAIN g \ {e} : h[x] = g[x]
    BY <1>11, <2>1
  <2>3. IsFiniteSet(DOMAIN g) /\ \A x \in DOMAIN g : g[x] \in Nat
    BY <1>9
  <2>4. Total(g) \in Nat /\ Total(h) \in Nat /\ Total(h) = Total(g) - g[e] + h[e]
    BY ONLY <2>2, <2>3, e \in DOMAIN g, TotalChanged
  <2> QED BY <2>1, <2>4
<1>13. a \notin DOMAIN h /\ DOMAIN f = DOMAIN h \cup {a} /\ f[a] \in Nat /\ \A x \in DOMAIN h : f[x] = h[x]
  BY <1>4, <1>5, <1>8, <1>9, <1>10, <1>11
<1>14. Total(f) = Total(h) + f[a]
  BY ONLY <1>11, <1>13, TotalMore
<1>15. g[b] = Wide(bs, k) + Wide(bs, k + 1) /\ h[b] = Wide(bs, k) /\ f[a] = Wide(bs, k + 1)
  BY <1>4, <1>5, <1>8, <1>9, <1>11
<1>16. Total(g) = Total(f)
  BY ONLY <1>4, <1>12, <1>14, <1>15
<1> QED BY <1>6, <1>7, <1>16

LEMMA MarkBytes ==
    ASSUME HeapAssumption, NEW bs, ChainOK(bs), NEW k \in 1 .. Len(bs), NEW f \in BOOLEAN,
           NEW c, IsMarked(bs, c, k, f)
    PROVE  Total(SizesOf(c)) = Total(SizesOf(bs))
<1>1. ChainOK(c) /\ At(c) = At(bs) /\ \A x \in At(bs) : Size(c, x) = Size(bs, x)
  BY MarkChain
<1>2. {b.at : b \in ToSet(bs)} = At(bs) /\ {b.at : b \in ToSet(c)} = At(c)
  BY <1>1, Addresses DEF ChainOK
<1>3. SizesOf(c) = SizesOf(bs)
  BY <1>1, <1>2 DEF SizesOf
<1> QED BY <1>3

LEMMA PushBytes ==
    ASSUME HeapAssumption, NEW bs, ChainOK(bs), NEW p, p \notin PagesOf(bs),
           NEW number, NewNumber(bs, number),
           NEW c, IsPushed(bs, c, p, number)
    PROVE  /\ Total(SizesOf(bs)) \in Nat
           /\ Total(SizesOf(c)) = Total(SizesOf(bs)) + PageSize
<1>1. PICK a : a = <<p, 0>>
  OBVIOUS
<1>2. /\ ChainOK(c) /\ a \notin At(bs) /\ At(c) = At(bs) \cup {a} /\ Size(c, a) = PageSize
      /\ \A x \in At(bs) : Size(c, x) = Size(bs, x)
  BY ONLY HeapAssumption, ChainOK(bs), p \notin PagesOf(bs), NewNumber(bs, number),
          IsPushed(bs, c, p, number), <1>1, PushChain
<1>3. /\ Total(SizesOf(bs)) \in Nat
      /\ Total(SizesOf(c)) = Total(SizesOf(bs)) + Size(c, a)
  BY ONLY HeapAssumption, ChainOK(bs), <1>2, MoreBytes
<1> QED BY <1>2, <1>3

LEMMA DropBytes ==
    ASSUME HeapAssumption, NEW bs, ChainOK(bs), NEW k \in 1 .. Len(bs), Wide(bs, k) = PageSize,
           NEW c, IsDropped(bs, c, k)
    PROVE  /\ Total(SizesOf(c)) \in Nat
           /\ Total(SizesOf(bs)) = Total(SizesOf(c)) + PageSize
<1>1. PICK a : a = Where(bs, k)
  OBVIOUS
<1>2. ChainOK(c) /\ At(c) = At(bs) \ {a} /\ \A x \in At(c) : Size(bs, x) = Size(c, x)
  BY <1>1, DropChain
<1>3. a \in At(bs) /\ Size(bs, a) = PageSize
  BY <1>1, OneBlock DEF At, ChainOK
<1>4. a \notin At(c) /\ At(bs) = At(c) \cup {a}
  BY <1>2, <1>3
<1>5. /\ Total(SizesOf(c)) \in Nat
      /\ Total(SizesOf(bs)) = Total(SizesOf(c)) + Size(bs, a)
  BY ONLY HeapAssumption, ChainOK(bs), <1>2, <1>4, MoreBytes
<1> QED BY <1>3, <1>5

-----------------------------------------------------------------------------
(* Taking a block.                                                         *)

\* The page numbers are those that were there.
LEMMA SameNumbers ==
    ASSUME HeapAssumption, NEW bs, ChainOK(bs), NEW c
    PROVE  /\ \A i \in 1 .. Len(bs) : \A q : IsSplit(bs, c, i, q) => NumbersOf(c) \subseteq NumbersOf(bs)
           /\ \A k, f : IsMarked(bs, c, k, f) => NumbersOf(c) \subseteq NumbersOf(bs)
           /\ \A k \in 1 .. Len(bs) : IsJoined(bs, c, k) => NumbersOf(c) \subseteq NumbersOf(bs)
           /\ \A k \in 1 .. Len(bs) : IsDropped(bs, c, k) => NumbersOf(c) \subseteq NumbersOf(bs)
<1> DEFINE n == Len(bs)
<1>1. n \in Nat
  BY ChainFacts DEF ChainOK
<1>2. ASSUME NEW i \in 1 .. n, NEW q, IsSplit(bs, c, i, q) PROVE NumbersOf(c) \subseteq NumbersOf(bs)
  <2>1. Len(c) = n + 1 /\ \A j \in 1 .. n + 1 : Number(c, j) = Number(bs, Before(i, j))
    BY <1>2 DEF IsSplit
  <2>2. \A j \in 1 .. n + 1 : Before(i, j) \in 1 .. n
    BY <1>1 DEF Before
  <2> QED BY <2>1, <2>2 DEF NumbersOf
<1>3. ASSUME NEW k, NEW f, IsMarked(bs, c, k, f) PROVE NumbersOf(c) \subseteq NumbersOf(bs)
  BY <1>3 DEF IsMarked, NumbersOf
<1>4. ASSUME NEW k \in 1 .. n, IsJoined(bs, c, k) PROVE NumbersOf(c) \subseteq NumbersOf(bs)
  <2>1. Len(c) = n - 1 /\ \A j \in 1 .. n - 1 : Number(c, j) = Number(bs, After(k, j))
    BY <1>4 DEF IsJoined
  <2>2. \A j \in 1 .. n - 1 : After(k, j) \in 1 .. n
    BY <1>1 DEF After
  <2> QED BY <2>1, <2>2 DEF NumbersOf
<1>5. ASSUME NEW k \in 1 .. n, IsDropped(bs, c, k) PROVE NumbersOf(c) \subseteq NumbersOf(bs)
  <2>1. Len(c) = n - 1 /\ \A j \in 1 .. n - 1 : Number(c, j) = Number(bs, After(k - 1, j))
    BY <1>5 DEF IsDropped
  <2>2. \A j \in 1 .. n - 1 : After(k - 1, j) \in 1 .. n
    BY <1>1 DEF After
  <2> QED BY <2>1, <2>2 DEF NumbersOf
<1> QED BY <1>2, <1>3, <1>4, <1>5

\* The free pages stay at the head of the list when a block leaves it
LEMMA FewRemoved ==
    ASSUME HeapAssumption, NEW bs, NEW fl, fl \in Seq(Places), FewPages(bs, fl), NEW k \in 1 .. Len(fl),
           NEW g, Without(fl, g, k)
    PROVE  FewPages(bs, g)
<1>1. Len(fl) \in Nat /\ KeptPages \in Nat
  BY LenProperties DEF HeapAssumption
<1>2. SUFFICES ASSUME NEW j \in 1 .. Len(fl) - 1, j > KeptPages PROVE Size(bs, g[j]) < PageSize
  BY DEF FewPages, Without
<1>3. CASE j < k
  <2>1. j \in 1 .. Len(fl) /\ g[j] = fl[j]
    BY <1>1, <1>3 DEF Without
  <2> QED BY <1>2, <2>1 DEF FewPages
<1>4. CASE ~(j < k)
  <2>1. j + 1 \in 1 .. Len(fl) /\ g[j] = fl[j + 1] /\ j + 1 > KeptPages
    BY <1>1, <1>2, <1>4 DEF Without
  <2> QED BY <2>1 DEF FewPages
<1> QED BY <1>3, <1>4

\* and when a smaller one joins it.
LEMMA FewInserted ==
    ASSUME HeapAssumption, NEW bs, NEW fl, fl \in Seq(Places), FewPages(bs, fl),
           \A j \in 1 .. Len(fl) : Size(bs, fl[j]) \in Nat,
           NEW size \in Nat, size < PageSize, NEW a, Size(bs, a) = size, NEW i, NEW g, With(fl, g, i, a),
           PlaceOf(bs, fl, i, size)
    PROVE  FewPages(bs, g)
<1>1. Len(fl) \in Nat /\ KeptPages \in Nat /\ PageSize \in Nat /\ i \in 1 .. Len(fl) + 1
  BY LenProperties DEF HeapAssumption, PlaceOf
<1>2. SUFFICES ASSUME NEW j \in 1 .. Len(fl) + 1, j > KeptPages PROVE Size(bs, g[j]) < PageSize
  BY DEF FewPages, With
<1>3. CASE j < i
  <2>1. j \in 1 .. Len(fl) /\ g[j] = fl[j]
    BY <1>1, <1>3 DEF With
  <2> QED BY <1>2, <2>1 DEF FewPages
<1>4. CASE j = i
  <2>1. g[j] = a
    BY <1>1, <1>4 DEF With
  <2> QED BY <2>1
<1>5. CASE j > i
  <2>1. j - 1 \in 1 .. Len(fl) /\ g[j] = fl[j - 1] /\ j - 1 >= i
    <3>1. j - 1 \in 1 .. Len(fl) /\ j - 1 >= i /\ ~(j < i) /\ j # i
      BY <1>1, <1>5
    <3> QED BY <3>1 DEF With
  <2>2. Size(bs, fl[j - 1]) <= size /\ Size(bs, fl[j - 1]) \in Nat
    BY <2>1 DEF PlaceOf
  <2> QED BY <1>1, <2>1, <2>2
<1> QED BY <1>1, <1>3, <1>4, <1>5

\* The sizes in the list whose block was cut.
LEMMA CutSizes ==
    ASSUME HeapAssumption, NEW bs, ChainOK(bs), NEW i \in 1 .. Len(bs), NEW r, NEW cut, IsCut(bs, cut, i, r)
    PROVE  /\ Size(cut, Where(bs, i)) = r
           /\ \A x \in At(bs) : x # Where(bs, i) => Size(cut, x) = Size(bs, x)
<1>1. /\ DOMAIN bs = 1 .. Len(bs) /\ \A j \in 1 .. Len(bs) : bs[j].at = Where(bs, j)
      /\ \A j, k \in 1 .. Len(bs) : Where(bs, j) = Where(bs, k) => j = k
  BY ChainFacts, OneBlock DEF ChainOK
<1>2. DOMAIN cut = 1 .. Len(bs) /\ \A j \in 1 .. Len(bs) : cut[j].at = Where(bs, j)
  BY <1>1, LenProperties DEF IsCut
<1>3. ASSUME NEW j \in 1 .. Len(bs) PROVE Size(cut, Where(bs, j)) = cut[j].size
  <2>1. Index(cut, Where(bs, j)) = j
    BY <1>1, <1>2 DEF Index
  <2> QED BY <2>1 DEF Size
<1>4. \A j \in 1 .. Len(bs) : cut[j].size = IF j = i THEN r ELSE Wide(bs, j)
  BY DEF IsCut, Wide
<1>5. Size(cut, Where(bs, i)) = r
  BY <1>3, <1>4
<1>6. ASSUME NEW x \in At(bs), x # Where(bs, i) PROVE Size(cut, x) = Size(bs, x)
  <2>1. PICK j \in 1 .. Len(bs) : x = Where(bs, j) /\ j # i
    BY <1>6 DEF At
  <2>2. Size(cut, x) = Wide(bs, j)
    BY <1>3, <1>4, <2>1
  <2>3. Size(bs, x) = Wide(bs, j)
    BY <2>1, OneBlock DEF ChainOK
  <2> QED BY <2>2, <2>3
<1> QED BY <1>5, <1>6

\* The lists after a block was taken: y is in use, the other blocks in use are as before.
Taken(bs, cs, gl, y) ==
    /\ ChainOK(cs) /\ NoneAdjoin(cs) /\ PagesOf(cs) = PagesOf(bs) /\ NumbersOf(cs) \subseteq NumbersOf(bs)
    /\ FreeOK(cs, gl) /\ FewPages(cs, gl)
    /\ y \notin Used(bs) /\ Used(cs) = Used(bs) \cup {y}
    /\ \A x \in Used(bs) : Size(cs, x) = Size(bs, x)
    /\ Total(SizesOf(cs)) = Total(SizesOf(bs))

\* The whole block is taken.
LEMMA WholeTaken ==
    ASSUME HeapAssumption, NEW bs, ChainOK(bs), NoneAdjoin(bs), NEW fl, FreeOK(bs, fl), FewPages(bs, fl),
           NEW i \in 1 .. Len(bs), Free(bs, i), NEW a, a = Where(bs, i),
           NEW cs, IsMarked(bs, cs, i, FALSE), NEW gl, gl = RemoveFirst(fl, a)
    PROVE  Taken(bs, cs, gl, a) /\ Size(cs, a) = Wide(bs, i)
<1>1. PICK f \in BOOLEAN : f = FALSE
  OBVIOUS
<1>2. /\ ChainOK(cs) /\ PagesOf(cs) = PagesOf(bs)
      /\ At(cs) = At(bs) /\ \A x \in At(bs) : Size(cs, x) = Size(bs, x)
      /\ FreeAt(cs) = FreeAt(bs) \ {a} /\ NoneAdjoin(cs)
  <2>1. IsMarked(bs, cs, i, f)
    BY <1>1
  <2>2. /\ ChainOK(cs) /\ PagesOf(cs) = PagesOf(bs)
        /\ At(cs) = At(bs) /\ \A x \in At(bs) : Size(cs, x) = Size(bs, x)
        /\ ~f => FreeAt(cs) = FreeAt(bs) \ {Where(bs, i)} /\ (NoneAdjoin(bs) => NoneAdjoin(cs))
    BY ONLY HeapAssumption, ChainOK(bs), i \in 1 .. Len(bs), f \in BOOLEAN, <2>1, MarkChain
  <2> QED BY <1>1, <2>2
<1>3. a \in FreeAt(bs) /\ FreeAt(bs) \subseteq At(bs) /\ Size(bs, a) = Wide(bs, i)
  BY FreeBlocks, Addresses, OneBlock DEF ChainOK
<1>4. PICK k \in 1 .. Len(fl) : fl[k] = a /\ gl = RemoveAt(fl, k)
  BY <1>3, ListWithout DEF FreeOK
<1>5. ListFor(bs, gl, FreeAt(bs) \ {a}) /\ Without(fl, gl, k)
  BY <1>4, ListRemoved DEF FreeOK
<1>6. FewPages(bs, gl)
  BY <1>5, FewRemoved DEF FreeOK, ListFor
<1>7. ListFor(cs, gl, FreeAt(bs) \ {a}) /\ FewPages(cs, gl)
  <2>1. \A x \in FreeAt(bs) \ {a} : Size(cs, x) = Size(bs, x)
    BY <1>2, <1>3
  <2> QED BY ONLY <1>5, <1>6, <2>1, ListSizes
<1>8. NumbersOf(cs) \subseteq NumbersOf(bs) /\ Total(SizesOf(cs)) = Total(SizesOf(bs))
  <2>1. NumbersOf(cs) \subseteq NumbersOf(bs)
    BY SameNumbers
  <2>2. Total(SizesOf(cs)) = Total(SizesOf(bs))
    BY ONLY HeapAssumption, ChainOK(bs), i \in 1 .. Len(bs), f \in BOOLEAN, <1>1, IsMarked(bs, cs, i, FALSE), MarkBytes
  <2> QED BY <2>1, <2>2
<1>9. /\ a \notin Used(bs) /\ Used(cs) = Used(bs) \cup {a} /\ Size(cs, a) = Wide(bs, i)
      /\ \A x \in Used(bs) : Size(cs, x) = Size(bs, x)
  BY <1>2, <1>3 DEF Used
<1> QED BY ONLY <1>2, <1>7, <1>8, <1>9 DEF Taken, FreeOK

\* The free list after the block at place k of it became smaller.
LEMMA ListShrunk ==
    ASSUME NEW bs, NEW fl, NEW F, ListFor(bs, fl, F), \A x \in F : Size(bs, x) \in Nat,
           NEW k \in 1 .. Len(fl), NEW r \in Nat, r <= Size(bs, fl[k]),
           k + 1 \in 1 .. Len(fl) => r >= Size(bs, fl[k + 1]),
           NEW c, Size(c, fl[k]) = r, \A x \in F : x # fl[k] => Size(c, x) = Size(bs, x)
    PROVE  ListFor(c, fl, F) /\ (FewPages(bs, fl) /\ PageSize \in Nat => FewPages(c, fl))
<1> DEFINE n == Len(fl)
<1>1. /\ n \in Nat /\ fl \in Seq(Places) /\ F = {fl[i] : i \in 1 .. n}
      /\ \A i, j \in 1 .. n : fl[i] = fl[j] => i = j
      /\ \A i, j \in 1 .. n : i < j => Size(bs, fl[i]) >= Size(bs, fl[j])
  BY LenProperties DEF ListFor
<1>2. \A i \in 1 .. n : Size(bs, fl[i]) \in Nat
  BY <1>1
<1>3. \A i \in 1 .. n : i # k => Size(c, fl[i]) = Size(bs, fl[i])
  BY <1>1
<1> HIDE DEF n
<1>4. k \in 1 .. n /\ (k + 1 \in 1 .. n => r >= Size(bs, fl[k + 1]))
  BY DEF n
<1>5. ASSUME NEW i \in 1 .. n, NEW j \in 1 .. n, i < j
      PROVE  Size(c, fl[i]) >= Size(c, fl[j])
  <2>1. Size(bs, fl[i]) >= Size(bs, fl[j])
    BY <1>1, <1>5
  <2>2. CASE i # k /\ j # k
    BY <1>3, <2>1, <2>2
  <2>3. CASE j = k
    <3>1. Size(c, fl[i]) = Size(bs, fl[i]) /\ Size(c, fl[j]) = r
      BY <1>1, <1>3, <1>5, <2>3
    <3> QED BY <1>2, <2>1, <2>3, <3>1
  <2>4. CASE i = k
    <3>1. Size(c, fl[j]) = Size(bs, fl[j]) /\ Size(c, fl[i]) = r
      BY <1>1, <1>3, <1>5, <2>4
    <3>2. k + 1 \in 1 .. n /\ (k + 1 = j \/ k + 1 < j)
      BY <1>1, <1>5, <2>4
    <3>3. Size(bs, fl[k + 1]) >= Size(bs, fl[j])
      BY <1>1, <1>2, <3>2
    <3>4. r >= Size(bs, fl[k + 1]) /\ Size(bs, fl[k + 1]) \in Nat /\ Size(bs, fl[j]) \in Nat
      BY <1>2, <1>4, <3>2
    <3> QED BY ONLY <3>1, <3>3, <3>4, r \in Nat
  <2> QED BY <2>2, <2>3, <2>4
<1>6. ListFor(c, fl, F)
  BY <1>1, <1>5 DEF ListFor, n
<1>7. ASSUME FewPages(bs, fl), PageSize \in Nat PROVE FewPages(c, fl)
  <2> SUFFICES ASSUME NEW i \in 1 .. n, i > KeptPages PROVE Size(c, fl[i]) < PageSize
    BY DEF FewPages, n
  <2>1. Size(bs, fl[i]) < PageSize /\ Size(bs, fl[i]) \in Nat
    BY <1>2, <1>7 DEF FewPages, n
  <2>2. Size(c, fl[i]) \in Nat /\ Size(c, fl[i]) <= Size(bs, fl[i])
    BY <1>2, <1>3
  <2> QED BY <1>7, <2>1, <2>2
<1> QED BY <1>6, <1>7

\* The tail of the block is taken.
LEMMA TailTaken ==
    ASSUME HeapAssumption, NEW bs, ChainOK(bs), NoneAdjoin(bs), NEW fl, FreeOK(bs, fl), FewPages(bs, fl),
           NEW i \in 1 .. Len(bs), Free(bs, i), NEW a, a = Where(bs, i),
           NEW r \in Nat, NEW m \in Nat, r + m = Wide(bs, i), r >= FreeHeader, m >= FreeHeader,
           NEW cut, IsCut(bs, cut, i, r), NEW cs, IsSplit(bs, cs, i, From(bs, i) + r),
           NEW y, y = <<Home(bs, i), From(bs, i) + r>>,
           NEW k \in 1 .. Len(fl), fl[k] = a,
           NEW gl, gl = IF k < Len(fl) /\ r < Size(bs, fl[k + 1])
                        THEN inserted(cut, RemoveFirst(fl, a), a) ELSE fl
    PROVE  Taken(bs, cs, gl, y) /\ Size(cs, y) = m
<1>1. /\ From(bs, i) \in Nat /\ Wide(bs, i) \in Nat /\ Until(bs, i) = From(bs, i) + Wide(bs, i)
      /\ FreeHeader \in Nat /\ FreeHeader > 0 /\ PageSize \in Nat /\ Until(bs, i) <= PageSize
  BY ChainFacts DEF ChainOK
<1>2. PICK q \in Nat : q = From(bs, i) + r
  BY <1>1
<1>3. From(bs, i) + FreeHeader <= q /\ q + FreeHeader <= Until(bs, i)
  BY ONLY <1>1, <1>2, r \in Nat, m \in Nat, r + m = Wide(bs, i), r >= FreeHeader, m >= FreeHeader
<1>4. IsSplit(bs, cs, i, q) /\ y = <<Home(bs, i), q>>
  BY <1>2
<1>5. ChainOK(cs) /\ NoneAdjoin(cs) /\ PagesOf(cs) = PagesOf(bs)
  BY <1>3, <1>4, SplitChain
<1>6. /\ y \notin At(bs) /\ At(cs) = At(bs) \cup {y} /\ FreeAt(cs) = FreeAt(bs)
      /\ Size(cs, y) = Until(bs, i) - q
      /\ Size(cs, Where(bs, i)) = q - From(bs, i)
      /\ \A x \in At(bs) : x # Where(bs, i) => Size(cs, x) = Size(bs, x)
  BY ONLY HeapAssumption, ChainOK(bs), i \in 1 .. Len(bs), q \in Nat, <1>3, <1>4, SplitAddresses
<1>7. Size(cs, y) = m /\ Size(cs, a) = r
  <2>1. Until(bs, i) - q = m /\ q - From(bs, i) = r
    BY ONLY <1>1, <1>2, r \in Nat, m \in Nat, r + m = Wide(bs, i)
  <2> QED BY <1>6, <2>1
<1>8. NumbersOf(cs) \subseteq NumbersOf(bs) /\ Total(SizesOf(cs)) = Total(SizesOf(bs))
  <2>1. NumbersOf(cs) \subseteq NumbersOf(bs)
    BY <1>4, SameNumbers
  <2>2. Total(SizesOf(cs)) = Total(SizesOf(bs))
    BY ONLY HeapAssumption, ChainOK(bs), i \in 1 .. Len(bs), q \in Nat, <1>3, <1>4, SplitBytes
  <2> QED BY <2>1, <2>2
<1>9. /\ a \in FreeAt(bs) /\ FreeAt(bs) \subseteq At(bs) /\ At(bs) \subseteq Places
      /\ Size(bs, a) = Wide(bs, i)
  BY FreeBlocks, Addresses, OneBlock DEF ChainOK
<1>10. /\ y \notin Used(bs) /\ Used(cs) = Used(bs) \cup {y}
       /\ \A x \in Used(bs) : Size(cs, x) = Size(bs, x)
  BY <1>6, <1>9 DEF Used
<1>11. PICK F : F = FreeAt(bs)
  OBVIOUS
<1>12. ListFor(bs, fl, F) /\ (\A x \in F : Size(bs, x) \in Nat) /\ a \in F /\ fl \in Seq(Places)
       /\ \A j \in 1 .. Len(fl) : fl[j] \in F
  BY <1>9, <1>11, Summands DEF FreeOK, ListFor
<1>13. Size(cut, a) = r /\ Size(cs, a) = r
       /\ (\A x \in F : x # a => Size(cut, x) = Size(bs, x))
       /\ (\A x \in F : x # a => Size(cs, x) = Size(bs, x))
  BY <1>6, <1>7, <1>9, <1>11, CutSizes
<1>14. CASE k < Len(fl) /\ r < Size(bs, fl[k + 1])
  <2>1. gl = inserted(cut, RemoveFirst(fl, a), a)
    BY <1>14
  <2>2. PICK g : g = RemoveFirst(fl, a)
    OBVIOUS
  <2>3. g = RemoveAt(fl, k)
    <3> PICK e \in F : e = a
      BY <1>12
    <3>1. PICK j \in 1 .. Len(fl) : fl[j] = e /\ RemoveFirst(fl, e) = RemoveAt(fl, j)
      BY ONLY <1>12, e \in F, ListWithout
    <3>2. j = k
      BY <1>12, <3>1 DEF ListFor
    <3> QED BY <2>2, <3>1, <3>2
  <2>4. ListFor(bs, g, F \ {a}) /\ Without(fl, g, k)
    BY <1>12, <2>3, ListRemoved
  <2>5. FewPages(bs, g)
    BY <1>12, <2>4, FewRemoved
  <2>6. \A x \in F \ {a} : Size(cut, x) = Size(bs, x)
    BY <1>13
  <2>7. ListFor(cut, g, F \ {a}) /\ FewPages(cut, g)
    BY ONLY <2>4, <2>5, <2>6, ListSizes
  <2>8. /\ \A x \in F \ {a} : Size(cut, x) \in Nat
        /\ a \in Places /\ a \notin F \ {a} /\ Size(cut, a) \in Nat
    BY <1>9, <1>12, <1>13, <2>6
  <2>9. PICK p : p = placeOf(cut, g, Size(cut, a))
    OBVIOUS
  <2>10. gl = inserted(cut, g, a)
    BY <2>1, <2>2
  <2>11. ListFor(cut, gl, (F \ {a}) \cup {a}) /\ With(g, gl, p, a) /\ PlaceOf(cut, g, p, Size(cut, a))
    BY ONLY <2>7, <2>8, <2>9, <2>10, ListInserted
  <2>12. r < PageSize
    BY ONLY <1>1, r \in Nat, m \in Nat, r + m = Wide(bs, i), m >= FreeHeader
  <2>13. FewPages(cut, gl)
    <3>1. g \in Seq(Places) /\ \A j \in 1 .. Len(g) : Size(cut, g[j]) \in Nat
      BY <2>7, <2>8 DEF ListFor
    <3>2. PlaceOf(cut, g, p, r) /\ Size(cut, a) = r
      BY <1>13, <2>11
    <3> QED BY ONLY HeapAssumption, r \in Nat, <2>7, <2>11, <2>12, <3>1, <3>2, FewInserted
  <2>14. (F \ {a}) \cup {a} = F /\ \A x \in F : Size(cs, x) = Size(cut, x)
    BY <1>12, <1>13
  <2>15. ListFor(cs, gl, F) /\ FewPages(cs, gl)
    <3>1. ListFor(cut, gl, F)
      BY <2>11, <2>14
    <3> QED BY ONLY <2>13, <2>14, <3>1, ListSizes
  <2>16. FreeOK(cs, gl)
    BY <1>6, <1>11, <2>15 DEF FreeOK
  <2> QED BY ONLY <1>5, <1>7, <1>8, <1>10, <2>15, <2>16 DEF Taken
<1>15. CASE ~(k < Len(fl) /\ r < Size(bs, fl[k + 1]))
  <2>1. gl = fl
    BY <1>15
  <2>2. k + 1 \in 1 .. Len(fl) => r >= Size(bs, fl[k + 1])
    <3>1. SUFFICES ASSUME k + 1 \in 1 .. Len(fl) PROVE r >= Size(bs, fl[k + 1])
      OBVIOUS
    <3>2. Size(bs, fl[k + 1]) \in Nat /\ k < Len(fl)
      BY <1>12, <3>1, LenProperties
    <3>3. ~(r < Size(bs, fl[k + 1]))
      BY <1>15, <3>2
    <3> QED BY ONLY <3>2, <3>3, r \in Nat
  <2>3. r <= Size(bs, fl[k])
    BY ONLY <1>1, <1>9, fl[k] = a, r \in Nat, m \in Nat, r + m = Wide(bs, i)
  <2>4. Size(cs, fl[k]) = r /\ \A x \in F : x # fl[k] => Size(cs, x) = Size(bs, x)
    BY <1>13
  <2>5. ListFor(cs, fl, F) /\ (FewPages(bs, fl) /\ PageSize \in Nat => FewPages(cs, fl))
    BY ONLY <1>12, k \in 1 .. Len(fl), r \in Nat, <2>2, <2>3, <2>4, ListShrunk
  <2>6. FreeOK(cs, gl) /\ FewPages(cs, gl)
    BY <1>1, <1>6, <1>11, <2>1, <2>5 DEF FreeOK
  <2> QED BY ONLY <1>5, <1>7, <1>8, <1>10, <2>6 DEF Taken
<1> QED BY <1>14, <1>15

\* bestFit finds the last block of the list that is large enough, if there is one.
LEMMA BestFit ==
    ASSUME NEW F, ListFor(blocks, free_list, F), \A x \in F : Size(blocks, x) \in Nat, NEW size \in Nat
    PROVE  /\ bestFit(size) \in 0 .. Len(free_list)
           /\ bestFit(size) # 0 => /\ free_list[bestFit(size)] \in F
                                   /\ Size(blocks, free_list[bestFit(size)]) >= size
           /\ bestFit(size) = 0 => \A x \in F : Size(blocks, x) < size
<1> DEFINE n == Len(free_list)
           T == {i \in DOMAIN free_list : Size(blocks, free_list[i]) < size} \cup {n + 1}
<1>1. /\ n \in Nat /\ DOMAIN free_list = 1 .. n
      /\ F = {free_list[i] : i \in 1 .. n}
      /\ \A i, j \in 1 .. n : i < j => Size(blocks, free_list[i]) >= Size(blocks, free_list[j])
  BY LenProperties DEF ListFor
<1>2. \A i \in 1 .. n : Size(blocks, free_list[i]) \in Nat /\ free_list[i] \in F
  BY <1>1
<1>3. PICK p : p = Min(T)
  OBVIOUS
<1>4. p \in T /\ \A j \in T : p <= j
  <2>1. T \in SUBSET Nat /\ T # {}
    BY <1>1
  <2> HIDE DEF T
  <2> QED BY <1>3, <2>1, MinIsLeast
<1>5. bestFit(size) = p - 1
  BY <1>3 DEF bestFit
<1>6. p \in 1 .. n + 1
  BY <1>1, <1>4
<1>7. ASSUME p # 1 PROVE p - 1 \in 1 .. n /\ Size(blocks, free_list[p - 1]) >= size
  <2>1. p - 1 \in 1 .. n /\ ~(p <= p - 1)
    BY <1>1, <1>6, <1>7
  <2>2. p - 1 \notin T
    BY <1>4, <2>1
  <2>3. ~(Size(blocks, free_list[p - 1]) < size)
    BY <1>1, <2>1, <2>2
  <2>4. Size(blocks, free_list[p - 1]) \in Nat
    BY <1>2, <2>1
  <2> QED BY ONLY <2>1, <2>3, <2>4, size \in Nat
<1>8. ASSUME p = 1, NEW i \in 1 .. n PROVE Size(blocks, free_list[i]) < size
  <2>1. 1 \in 1 .. n /\ Size(blocks, free_list[1]) < size
    BY <1>1, <1>4, <1>8
  <2>2. i = 1 \/ 1 < i
    BY <1>1
  <2>3. i = 1 \/ Size(blocks, free_list[1]) >= Size(blocks, free_list[i])
    BY <1>1, <2>1, <2>2
  <2>4. Size(blocks, free_list[1]) \in Nat /\ Size(blocks, free_list[i]) \in Nat
    BY <1>2, <2>1
  <2> QED BY ONLY <2>1, <2>3, <2>4, size \in Nat
<1>9. bestFit(size) \in 0 .. n
  BY <1>1, <1>5, <1>6
<1>10. bestFit(size) # 0 => p # 1
  BY <1>5
<1>11. bestFit(size) = 0 => p = 1
  BY <1>5, <1>6
<1> QED BY <1>1, <1>2, <1>5, <1>7, <1>8, <1>9, <1>10, <1>11

\* carve hands out the block at y of w bytes, at least as many as asked for.
Carved(bs, y, w, size, n, alloc) ==
    /\ Taken(bs, blocks', free_list', y) /\ Size(blocks', y) = w /\ w >= size
    /\ stats' = [stats EXCEPT !["medium"] =
                    registerAlloc(allocated(@, alloc), w, w - BlockHeader)]
    /\ returned("medium", y, n)

LEMMA CarveTakes ==
    ASSUME HeapAssumption, NEW bs, ChainOK(bs), NoneAdjoin(bs), NEW fl, FreeOK(bs, fl), FewPages(bs, fl),
           NEW a \in FreeAt(bs), NEW size \in Aligned, size >= FreeHeader, size <= Size(bs, a),
           NEW n, NEW alloc, carve(bs, fl, a, size, n, alloc)
    PROVE  \E y \in Places, w \in Nat : Carved(bs, y, w, size, n, alloc)
<1>1. PICK i \in 1 .. Len(bs) : a = Where(bs, i) /\ Free(bs, i)
  BY DEF FreeAt
<1>2. /\ Index(bs, a) = i /\ Size(bs, a) = Wide(bs, i) /\ bs[i].at = a /\ bs[i].size = Wide(bs, i)
      /\ bs[i].page = Number(bs, i) /\ a[1] = Home(bs, i) /\ a[2] = From(bs, i)
      /\ Wide(bs, i) \in Nat /\ Wide(bs, i) \in Aligned /\ Where(bs, i) \in Places
  <2>1. Index(bs, a) = i /\ Size(bs, a) = Wide(bs, i) /\ bs[i].at = a
    BY <1>1, OneBlock DEF ChainOK
  <2>2. Wide(bs, i) \in Nat /\ Wide(bs, i) \in Aligned
    BY ChainFacts DEF ChainOK
  <2>3. Where(bs, i) \in Places
    BY <1>1, Addresses DEF ChainOK
  <2> QED BY <1>1, <2>1, <2>2, <2>3 DEF Wide, Number, Where
<1>3. PICK r : r = Wide(bs, i) - size
  OBVIOUS
<1>4. size \in Nat /\ r \in Nat /\ r \in Aligned /\ r + size = Wide(bs, i)
  <2>1. size \in Nat
    BY AlignedHeaders
  <2>2. Wide(bs, i) >= size
    BY <1>2
  <2>3. Wide(bs, i) - size \in Aligned
    BY <1>2, <2>2, AlignedSums
  <2> QED BY ONLY <1>2, <1>3, <2>1, <2>2, <2>3
<1>5. CASE takesAll(bs, i, r)
  <2>1. /\ blocks' = [bs EXCEPT ![i].is_free = FALSE]
        /\ free_list' = RemoveFirst(fl, a)
        /\ takenMedium(a, Wide(bs, i), n, alloc)
    <3>1. takeWhole(bs, fl, i, n, alloc)
      BY <1>2, <1>3, <1>5 DEF carve
    <3> QED BY <1>2, <3>1 DEF takeWhole
  <2>2. IsMarked(bs, blocks', i, FALSE)
    BY <2>1, Marked
  <2>3. Taken(bs, blocks', free_list', a) /\ Size(blocks', a) = Wide(bs, i)
    BY ONLY HeapAssumption, ChainOK(bs), NoneAdjoin(bs), FreeOK(bs, fl), FewPages(bs, fl),
            i \in 1 .. Len(bs), <1>1, <2>1, <2>2, WholeTaken
  <2>4. Carved(bs, a, Wide(bs, i), size, n, alloc)
    BY <1>2, <2>1, <2>3 DEF Carved, takenMedium
  <2> QED BY <1>1, <1>2, <2>4
<1>6. CASE ~takesAll(bs, i, r)
  <2>1. PICK k \in 1 .. Len(fl) : fl[k] = a /\ positionOf(fl, a) = k
    <3>1. PICK F : F = FreeAt(bs)
      OBVIOUS
    <3>2. ListFor(bs, fl, F) /\ a \in F
      BY <3>1 DEF FreeOK
    <3> QED BY ONLY <3>2, ListWithout
  <2>2. PICK cut : cut = [bs EXCEPT ![i].size = r]
    OBVIOUS
  <2>3. PICK new : new = [at |-> <<Home(bs, i), From(bs, i) + r>>, page |-> Number(bs, i),
                          size |-> size, is_free |-> FALSE]
    OBVIOUS
  <2>4. PICK y : y = <<Home(bs, i), From(bs, i) + r>>
    OBVIOUS
  <2>5. /\ blocks' = InsertAt(cut, i + 1, new)
        /\ free_list' = IF k < Len(fl) /\ r < Size(bs, fl[k + 1])
                        THEN inserted(cut, RemoveFirst(fl, a), a) ELSE fl
        /\ takenMedium(y, size, n, alloc)
    <3>1. takeTail(bs, fl, i, r, size, n, alloc)
      BY <1>2, <1>3, <1>6 DEF carve
    <3> QED BY ONLY <1>2, <2>1, <2>2, <2>3, <2>4, <3>1 DEF takeTail
  <2>6. r >= FreeHeader
    <3>1. FreeHeader \in Nat /\ MaxSmall \in Nat /\ FreeHeader <= MaxSmall \div 2
      BY DEF HeapAssumption
    <3>2. ~(r < MaxSmall) \/ ~(r < MaxSmall \div 2)
      BY <1>6 DEF takesAll
    <3> QED BY ONLY <1>4, <3>1, <3>2
  <2>7. IsSplit(bs, InsertAt(cut, i + 1, new), i, From(bs, i) + r) /\ IsCut(bs, cut, i, r)
    <3>1. PICK m \in Aligned : m = size
      OBVIOUS
    <3> QED BY ONLY HeapAssumption, ChainOK(bs), i \in 1 .. Len(bs), size \in Aligned, size >= FreeHeader,
                    <1>4, <2>2, <2>3, <2>6, Cut
  <2>8. IsSplit(bs, blocks', i, From(bs, i) + r)
    BY <2>5, <2>7
  <2>9. Taken(bs, blocks', free_list', y) /\ Size(blocks', y) = size
    BY ONLY HeapAssumption, ChainOK(bs), NoneAdjoin(bs), FreeOK(bs, fl), FewPages(bs, fl),
            i \in 1 .. Len(bs), k \in 1 .. Len(fl), size >= FreeHeader,
            <1>1, <1>4, <2>1, <2>4, <2>5, <2>6, <2>7, <2>8, TailTaken
  <2>10. y \in Places
    <3>1. y \in At(blocks') /\ At(blocks') \subseteq Places
      BY <2>9, Addresses DEF Taken, Used, ChainOK
    <3> QED BY <3>1
  <2>11. Carved(bs, y, size, size, n, alloc)
    BY <1>4, <2>5, <2>9 DEF Carved, takenMedium
  <2> QED BY <1>4, <2>10, <2>11
<1> QED BY <1>5, <1>6

-----------------------------------------------------------------------------
(* The statistics and the pointers.                                        *)

\* The sizes f with one block more, or g with one less.
OneMore(f, g, a, w, header) ==
    /\ IsFiniteSet(DOMAIN f) /\ \A x \in DOMAIN f : f[x] \in Nat /\ f[x] >= header /\ g[x] = f[x]
    /\ a \notin DOMAIN f /\ DOMAIN g = DOMAIN f \cup {a} /\ g[a] = w
    /\ header \in Nat /\ w \in Nat /\ w >= header

\* The sums grow by the block and by what it has beside its header.
LEMMA SumsMore ==
    ASSUME NEW f, NEW g, NEW a, NEW w, NEW header, OneMore(f, g, a, w, header)
    PROVE  /\ Total(f) \in Nat /\ Total(g) = Total(f) + w
           /\ Total(Less(f, header)) \in Nat
           /\ Total(Less(g, header)) = Total(Less(f, header)) + (w - header)
           /\ w \in Nat /\ w - header \in Nat
<1>1. /\ IsFiniteSet(DOMAIN f) /\ (\A x \in DOMAIN f : f[x] \in Nat) /\ a \notin DOMAIN f
      /\ DOMAIN g = DOMAIN f \cup {a} /\ g[a] \in Nat /\ g[a] = w /\ \A x \in DOMAIN f : g[x] = f[x]
  BY DEF OneMore
<1>2. Total(f) \in Nat /\ Total(g) = Total(f) + g[a]
  BY ONLY <1>1, TotalMore
<1>3. PICK f2 : f2 = Less(f, header)
  OBVIOUS
<1>4. PICK g2 : g2 = Less(g, header)
  OBVIOUS
<1>5. /\ DOMAIN f2 = DOMAIN f /\ \A x \in DOMAIN f2 : f2[x] = f[x] - header
      /\ DOMAIN g2 = DOMAIN g /\ \A x \in DOMAIN g2 : g2[x] = g[x] - header
  BY <1>3, <1>4 DEF Less
<1>6. header \in Nat /\ w \in Nat /\ w >= header /\ \A x \in DOMAIN f : f[x] \in Nat /\ f[x] >= header
  BY DEF OneMore
<1>7. w - header \in Nat /\ \A x \in DOMAIN f : f[x] - header \in Nat
  BY <1>6
<1>8. /\ IsFiniteSet(DOMAIN f2) /\ (\A x \in DOMAIN f2 : f2[x] \in Nat) /\ a \notin DOMAIN f2
      /\ DOMAIN g2 = DOMAIN f2 \cup {a} /\ g2[a] \in Nat /\ g2[a] = w - header
      /\ \A x \in DOMAIN f2 : g2[x] = f2[x]
  BY ONLY <1>1, <1>5, <1>7
<1>9. Total(f2) \in Nat /\ Total(g2) = Total(f2) + g2[a]
  BY ONLY <1>8, TotalMore
<1> QED BY <1>1, <1>2, <1>3, <1>4, <1>6, <1>7, <1>8, <1>9

\* registerAlloc and registerFree keep an entry exact.
LEMMA EntryMore ==
    ASSUME NEW f, NEW g, NEW a, NEW w, NEW header, OneMore(f, g, a, w, header), NEW m
    PROVE  /\ registerAlloc(Entry(f, header, m), w, w - header) = Entry(g, header, m)
           /\ registerFree(Entry(g, header, m), w, w - header) = Entry(f, header, m)
<1>1. /\ Total(f) \in Nat /\ Total(g) = Total(f) + w
      /\ Total(Less(f, header)) \in Nat
      /\ Total(Less(g, header)) = Total(Less(f, header)) + (w - header)
      /\ w \in Nat /\ w - header \in Nat
  BY SumsMore
<1>2. PICK u \in Nat : u = Total(f)
  BY <1>1
<1>3. PICK d \in Nat : d = Total(Less(f, header))
  BY <1>1
<1>4. PICK v \in Nat : v = w - header
  BY <1>1
<1>5. Entry(f, header, m) = [alloc |-> m, used |-> u, data |-> d]
  BY <1>2, <1>3 DEF Entry
<1>6. Entry(g, header, m) = [alloc |-> m, used |-> u + w, data |-> d + v]
  BY <1>1, <1>2, <1>3, <1>4 DEF Entry
<1>7. (u + w) - w = u /\ (d + v) - v = d
  BY <1>1
<1>8. /\ registerAlloc([alloc |-> m, used |-> u, data |-> d], w, v)
            = [alloc |-> m, used |-> u + w, data |-> d + v]
      /\ registerFree([alloc |-> m, used |-> u + w, data |-> d + v], w, v)
            = [alloc |-> m, used |-> (u + w) - w, data |-> (d + v) - v]
  BY DEF registerAlloc, registerFree
<1> QED BY ONLY <1>4, <1>5, <1>6, <1>7, <1>8

\* alloc_size changes alone.
LEMMA EntryChanged ==
    ASSUME NEW f, NEW header, NEW m, NEW d
    PROVE  /\ allocated(Entry(f, header, m), d) = Entry(f, header, m + d)
           /\ released(Entry(f, header, m), d) = Entry(f, header, m - d)
BY DEF allocated, released, Entry

\* A block is counted
LEMMA StatsMore ==
    ASSUME NEW f, NEW g, NEW a, NEW w, NEW header, OneMore(f, g, a, w, header),
           NEW s, DOMAIN s = Types, NEW t \in Types, NEW m, s[t] = Entry(f, header, m),
           NEW d, NEW k, k = m + d, NEW q, q = w,
           NEW s2, s2 = [s EXCEPT ![t] = registerAlloc(allocated(@, d), q, q - header)]
    PROVE  /\ s2[t] = Entry(g, header, k) /\ DOMAIN s2 = Types
           /\ \A u \in Types : u # t => s2[u] = s[u]
<1>1. PICK r : r = registerAlloc(allocated(s[t], d), q, q - header)
  OBVIOUS
<1>2. allocated(s[t], d) = Entry(f, header, k)
  BY ONLY s[t] = Entry(f, header, m), k = m + d, EntryChanged
<1>3. registerAlloc(Entry(f, header, k), w, w - header) = Entry(g, header, k)
  BY ONLY OneMore(f, g, a, w, header), EntryMore
<1>4. r = Entry(g, header, k)
  BY ONLY <1>1, <1>2, <1>3, q = w
<1>5. s2 = [s EXCEPT ![t] = r]
  BY ONLY <1>1, s2 = [s EXCEPT ![t] = registerAlloc(allocated(@, d), q, q - header)]
<1> QED BY ONLY <1>4, <1>5, DOMAIN s = Types, t \in Types

\* or no longer counted.
LEMMA StatsLess ==
    ASSUME NEW f, NEW g, NEW a, NEW w, NEW header, OneMore(f, g, a, w, header),
           NEW s, DOMAIN s = Types, NEW t \in Types, NEW m, s[t] = Entry(g, header, m),
           NEW d, NEW k, k = m - d, NEW q, q = w,
           NEW s2, s2 = [s EXCEPT ![t] = registerFree(released(@, d), q, q - header)]
    PROVE  /\ s2[t] = Entry(f, header, k) /\ DOMAIN s2 = Types
           /\ \A u \in Types : u # t => s2[u] = s[u]
<1>1. PICK r : r = registerFree(released(s[t], d), q, q - header)
  OBVIOUS
<1>2. released(s[t], d) = Entry(g, header, k)
  BY ONLY s[t] = Entry(g, header, m), k = m - d, EntryChanged
<1>3. registerFree(Entry(g, header, k), w, w - header) = Entry(f, header, k)
  BY ONLY OneMore(f, g, a, w, header), EntryMore
<1>4. r = Entry(f, header, k)
  BY ONLY <1>1, <1>2, <1>3, q = w
<1>5. s2 = [s EXCEPT ![t] = r]
  BY ONLY <1>1, s2 = [s EXCEPT ![t] = registerFree(released(@, d), q, q - header)]
<1> QED BY ONLY <1>4, <1>5, DOMAIN s = Types, t \in Types

\* The program has one more pointer,
LEMMA HeldMore ==
    ASSUME NEW hs, HeldTyped(hs), NEW t \in Types, NEW f, NEW g, NEW a \in Places, NEW w, NEW header,
           OneMore(f, g, a, w, header), HeldIn(hs, t, f, header),
           NEW n \in Nat, w >= n + header, NEW gs, gs = hs \cup {[type |-> t, at |-> a, size |-> n]}
    PROVE  /\ HeldTyped(gs) /\ HeldIn(gs, t, g, header)
           /\ \A u, e, h : u # t /\ HeldIn(hs, u, e, h) => HeldIn(gs, u, e, h)
<1>1. PICK q : q = [type |-> t, at |-> a, size |-> n]
  OBVIOUS
<1>2. q \in Pointers /\ q.type = t /\ q.at = a /\ q.size = n /\ gs = hs \cup {q}
  BY <1>1 DEF Pointers
<1>3. \A p \in hs : p.type = t => p.at \in DOMAIN f /\ f[p.at] >= p.size + header
  BY DEF HeldIn
<1>4. a \notin DOMAIN f /\ DOMAIN g = DOMAIN f \cup {a} /\ g[a] = w /\ \A x \in DOMAIN f : g[x] = f[x]
  BY DEF OneMore
<1>5. HeldTyped(gs)
  BY <1>2, <1>3, <1>4 DEF HeldTyped
<1>6. HeldIn(gs, t, g, header)
  BY <1>2, <1>3, <1>4 DEF HeldIn
<1>7. \A u, e, h : u # t /\ HeldIn(hs, u, e, h) => HeldIn(gs, u, e, h)
  BY <1>2 DEF HeldIn
<1> QED BY <1>5, <1>6, <1>7

\* or one less.
LEMMA HeldLess ==
    ASSUME NEW hs, HeldTyped(hs), NEW p \in hs, NEW f, NEW g, NEW w, NEW header,
           OneMore(f, g, p.at, w, header), HeldIn(hs, p.type, g, header), NEW gs, gs = hs \ {p}
    PROVE  /\ HeldTyped(gs) /\ HeldIn(gs, p.type, f, header)
           /\ \A u, e, h : HeldIn(hs, u, e, h) => HeldIn(gs, u, e, h)
<1>1. HeldTyped(gs)
  BY DEF HeldTyped
<1>2. \A q \in hs : q.type = p.type => q.at \in DOMAIN g /\ g[q.at] >= q.size + header
  BY DEF HeldIn
<1>3. DOMAIN g = DOMAIN f \cup {p.at} /\ \A x \in DOMAIN f : g[x] = f[x]
  BY DEF OneMore
<1>4. \A q \in gs : q.type = p.type => q.at # p.at
  BY DEF HeldTyped
<1>5. HeldIn(gs, p.type, f, header)
  BY <1>2, <1>3, <1>4 DEF HeldIn
<1>6. \A u, e, h : HeldIn(hs, u, e, h) => HeldIn(gs, u, e, h)
  BY DEF HeldIn
<1> QED BY <1>1, <1>5, <1>6

-----------------------------------------------------------------------------
(* Small blocks.                                                           *)

\* The blocks of a slot have some bytes.
LEMMA PieceSizes ==
    ASSUME HeapAssumption, NEW i \in Slots
    PROVE  i \in Nat /\ getSize(i) \in Nat /\ getSize(i) > 0 /\ getSize(i) \in Aligned
<1>1. Align \in Nat \ {0}
  BY DEF HeapAssumption
<1>2. i \in Nat
  BY DEF Slots
<1>3. i * Align \in Nat /\ getSize(i) = i * Align + Align
  BY <1>1, <1>2 DEF getSize
<1>4. i * Align \in Aligned /\ Align \in Aligned
  BY <1>1, <1>2, <1>3, AlignedFactor, AlignedHeaders
<1>5. getSize(i) \in Aligned
  BY <1>3, <1>4, AlignedSums
<1> QED BY <1>1, <1>2, <1>3, <1>5

\* One more block in use,
LEMMA SlotAdded ==
    ASSUME HeapAssumption, NEW sm, NEW fs, NEW offs, SmallTyped(sm, fs, offs),
           NEW i \in Slots, getSize(i) >= SmallHeader, NEW a \in Places, a \notin DOMAIN sm,
           NEW sm2, sm2 = put(sm, a, i)
    PROVE  /\ SmallTyped(sm2, fs, offs) /\ UsedPieces(sm2) = UsedPieces(sm) \cup {<<a, i>>}
           /\ OneMore(SmallSizes(sm), SmallSizes(sm2), a, getSize(i), SmallHeader)
<1>1. DOMAIN sm2 = DOMAIN sm \cup {a} /\ sm2[a] = i /\ \A x \in DOMAIN sm : sm2[x] = sm[x]
  BY DEF put
<1>2. IsFiniteSet(DOMAIN sm2)
  BY <1>1, FS_AddElement DEF SmallTyped
<1>3. \A x \in DOMAIN sm2 : sm2[x] \in Slots /\ getSize(sm2[x]) >= SmallHeader
  BY <1>1 DEF SmallTyped
<1>4. SmallTyped(sm2, fs, offs)
  BY <1>1, <1>2, <1>3 DEF SmallTyped
<1>5. UsedPieces(sm2) = UsedPieces(sm) \cup {<<a, i>>}
  <2>1. ASSUME NEW x \in Places \X Slots
        PROVE  x[1] \in DOMAIN sm2 /\ sm2[x[1]] = x[2]
                 <=> (x[1] \in DOMAIN sm /\ sm[x[1]] = x[2]) \/ x = <<a, i>>
    BY <1>1
  <2>2. <<a, i>> \in Places \X Slots
    OBVIOUS
  <2> QED BY <2>1, <2>2 DEF UsedPieces
<1>6. OneMore(SmallSizes(sm), SmallSizes(sm2), a, getSize(i), SmallHeader)
  <2>1. PICK f : f = SmallSizes(sm)
    OBVIOUS
  <2>2. PICK g : g = SmallSizes(sm2)
    OBVIOUS
  <2>3. /\ DOMAIN f = DOMAIN sm /\ \A x \in DOMAIN sm : f[x] = getSize(sm[x])
        /\ DOMAIN g = DOMAIN sm2 /\ \A x \in DOMAIN sm2 : g[x] = getSize(sm2[x])
    BY <2>1, <2>2 DEF SmallSizes
  <2>4. \A x \in DOMAIN sm : getSize(sm[x]) \in Nat /\ getSize(sm[x]) >= SmallHeader
    BY PieceSizes DEF SmallTyped
  <2>5. getSize(i) \in Nat /\ SmallHeader \in Nat
    BY PieceSizes DEF HeapAssumption
  <2>6. IsFiniteSet(DOMAIN sm)
    BY DEF SmallTyped
  <2>7. OneMore(f, g, a, getSize(i), SmallHeader)
    BY <1>1, <2>3, <2>4, <2>5, <2>6 DEF OneMore
  <2> QED BY <2>1, <2>2, <2>7
<1> QED BY <1>4, <1>5, <1>6

\* one less,
LEMMA SlotRemoved ==
    ASSUME HeapAssumption, NEW sm, NEW fs, NEW offs, SmallTyped(sm, fs, offs),
           NEW a \in DOMAIN sm, NEW sm2, sm2 = Restrict(sm, DOMAIN sm \ {a})
    PROVE  /\ SmallTyped(sm2, fs, offs) /\ UsedPieces(sm2) = UsedPieces(sm) \ {<<a, sm[a]>>}
           /\ <<a, sm[a]>> \in UsedPieces(sm)
           /\ OneMore(SmallSizes(sm2), SmallSizes(sm), a, getSize(sm[a]), SmallHeader)
<1>1. DOMAIN sm2 = DOMAIN sm \ {a} /\ \A x \in DOMAIN sm2 : sm2[x] = sm[x]
  BY DEF Restrict
<1>2. IsFiniteSet(DOMAIN sm2)
  BY <1>1, FS_Subset DEF SmallTyped
<1>3. SmallTyped(sm2, fs, offs)
  BY <1>1, <1>2 DEF SmallTyped
<1>4. <<a, sm[a]>> \in Places \X Slots
  BY DEF SmallTyped
<1>5. UsedPieces(sm2) = UsedPieces(sm) \ {<<a, sm[a]>>}
  <2>1. ASSUME NEW x \in Places \X Slots
        PROVE  x[1] \in DOMAIN sm2 /\ sm2[x[1]] = x[2]
                 <=> (x[1] \in DOMAIN sm /\ sm[x[1]] = x[2]) /\ x # <<a, sm[a]>>
    BY <1>1
  <2> QED BY <2>1 DEF UsedPieces
<1>6. OneMore(SmallSizes(sm2), SmallSizes(sm), a, getSize(sm[a]), SmallHeader)
  <2>1. PICK f : f = SmallSizes(sm2)
    OBVIOUS
  <2>2. PICK g : g = SmallSizes(sm)
    OBVIOUS
  <2>3. /\ DOMAIN f = DOMAIN sm2 /\ \A x \in DOMAIN sm2 : f[x] = getSize(sm2[x])
        /\ DOMAIN g = DOMAIN sm /\ \A x \in DOMAIN sm : g[x] = getSize(sm[x])
    BY <2>1, <2>2 DEF SmallSizes
  <2>4. \A x \in DOMAIN sm : getSize(sm[x]) \in Nat /\ getSize(sm[x]) >= SmallHeader
    BY PieceSizes DEF SmallTyped
  <2>5. SmallHeader \in Nat
    BY DEF HeapAssumption
  <2>6. OneMore(f, g, a, getSize(sm[a]), SmallHeader)
    BY <1>1, <1>2, <2>3, <2>4, <2>5 DEF OneMore
  <2> QED BY <2>1, <2>2, <2>6
<1> QED BY <1>3, <1>4, <1>5, <1>6 DEF UsedPieces

\* one more block in a free list,
LEMMA FreePushed ==
    ASSUME NEW fs \in [Slots -> Seq(Places)], Once(fs), NEW i \in Slots, NEW a \in Places,
           <<a, i>> \notin FreePieces(fs), NEW fs2, fs2 = [fs EXCEPT ![i] = <<a>> \o @]
    PROVE  fs2 \in [Slots -> Seq(Places)] /\ Once(fs2) /\ FreePieces(fs2) = FreePieces(fs) \cup {<<a, i>>}
<1>1. PICK s \in Seq(Places) : s = fs[i]
  OBVIOUS
<1>2. PICK o \in Seq(Places) : o = <<a>>
  <2>1. <<a>> \in Seq(Places)
    BY ONLY a \in Places
  <2> QED BY <2>1
<1>3. PICK t : t = o \o s
  OBVIOUS
<1>4. Len(o) = 1 /\ o[1] = a /\ Len(s) \in Nat
  BY <1>2, LenProperties
<1>5. /\ t \in Seq(Places) /\ Len(t) = Len(s) + 1
      /\ \A j \in 1 .. Len(s) + 1 : t[j] = IF j <= 1 THEN o[j] ELSE s[j - 1]
  <2>1. /\ t \in Seq(Places) /\ Len(t) = Len(o) + Len(s)
        /\ \A j \in 1 .. Len(o) + Len(s) : t[j] = IF j <= Len(o) THEN o[j] ELSE s[j - Len(o)]
    BY <1>3, Concatenated
  <2>2. Len(o) + Len(s) = Len(s) + 1
    BY <1>4
  <2> QED BY <1>4, <2>1, <2>2
<1>6. /\ t[1] = a /\ 1 \in 1 .. Len(t)
      /\ \A j \in 1 .. Len(s) : j + 1 \in 1 .. Len(t) /\ t[j + 1] = s[j]
      /\ \A j \in 1 .. Len(t) : j = 1 \/ (j - 1 \in 1 .. Len(s) /\ t[j] = s[j - 1])
  <2>1. t[1] = a /\ 1 \in 1 .. Len(t)
    BY <1>4, <1>5
  <2>2. ASSUME NEW j \in 1 .. Len(s) PROVE j + 1 \in 1 .. Len(t) /\ t[j + 1] = s[j]
    <3>1. j + 1 \in 1 .. Len(s) + 1 /\ ~(j + 1 <= 1) /\ (j + 1) - 1 = j
      BY <1>4
    <3> QED BY <1>5, <3>1
  <2>3. ASSUME NEW j \in 1 .. Len(t), j # 1 PROVE j - 1 \in 1 .. Len(s) /\ t[j] = s[j - 1]
    <3>1. j \in 1 .. Len(s) + 1 /\ ~(j <= 1) /\ j - 1 \in 1 .. Len(s)
      BY <1>4, <1>5, <2>3
    <3> QED BY <1>5, <3>1
  <2> QED BY <2>1, <2>2, <2>3
<1>7. fs2 \in [Slots -> Seq(Places)] /\ fs2[i] = t /\ \A k \in Slots \ {i} : fs2[k] = fs[k]
  BY <1>1, <1>2, <1>3, <1>5
<1>8. \A j \in 1 .. Len(s) : s[j] # a
  BY <1>1 DEF FreePieces
<1>9. \A j, k \in 1 .. Len(t) : t[j] = t[k] => j = k
  <2>1. \A j, k \in 1 .. Len(s) : s[j] = s[k] => j = k
    BY <1>1 DEF Once
  <2>2. ASSUME NEW j \in 1 .. Len(t), NEW k \in 1 .. Len(t), t[j] = t[k] PROVE j = k
    <3>1. CASE j = 1 \/ k = 1
      BY <1>6, <1>8, <2>2, <3>1
    <3>2. CASE j # 1 /\ k # 1
      <4>1. j - 1 = k - 1
        BY <1>6, <2>1, <2>2, <3>2
      <4> QED BY <1>4, <1>5, <4>1
    <3> QED BY <3>1, <3>2
  <2> QED BY <2>2
<1>10. Once(fs2)
  BY <1>7, <1>9 DEF Once
<1>11. ASSUME NEW x \in Places \X Slots
       PROVE  (\E j \in 1 .. Len(fs2[x[2]]) : fs2[x[2]][j] = x[1])
                <=> (\E j \in 1 .. Len(fs[x[2]]) : fs[x[2]][j] = x[1]) \/ x = <<a, i>>
  <2>1. CASE x[2] # i
    BY <1>7, <2>1
  <2>2. CASE x[2] = i
    <3>1. (\E j \in 1 .. Len(t) : t[j] = x[1]) <=> (\E j \in 1 .. Len(s) : s[j] = x[1]) \/ x[1] = a
      BY <1>6
    <3>2. x = <<a, i>> <=> x[1] = a
      BY <2>2
    <3>3. fs2[x[2]] = t /\ fs[x[2]] = s
      BY <1>1, <1>7, <2>2
    <3> QED BY ONLY <3>1, <3>2, <3>3
  <2> QED BY <2>1, <2>2
<1>12. FreePieces(fs2) = FreePieces(fs) \cup {<<a, i>>}
  <2>1. <<a, i>> \in Places \X Slots
    OBVIOUS
  <2> QED BY <1>11, <2>1 DEF FreePieces
<1> QED BY <1>7, <1>10, <1>12

\* and one less.
LEMMA FreePopped ==
    ASSUME NEW fs \in [Slots -> Seq(Places)], Once(fs), NEW i \in Slots, fs[i] # << >>,
           NEW a, a = Head(fs[i]), NEW fs2, fs2 = [fs EXCEPT ![i] = Tail(@)]
    PROVE  /\ fs2 \in [Slots -> Seq(Places)] /\ Once(fs2) /\ a \in Places
           /\ <<a, i>> \in FreePieces(fs) /\ FreePieces(fs2) = FreePieces(fs) \ {<<a, i>>}
<1>1. PICK s \in Seq(Places) : s = fs[i] /\ s # << >>
  OBVIOUS
<1>2. PICK t : t = Tail(s)
  OBVIOUS
<1>3. /\ Len(s) \in Nat /\ Len(s) >= 1 /\ a = s[1] /\ a \in Places
      /\ t \in Seq(Places) /\ Len(t) = Len(s) - 1 /\ \A j \in 1 .. Len(s) - 1 : t[j] = s[j + 1]
  BY <1>1, <1>2, EmptySeq, LenProperties, HeadTailProperties
<1>4. fs2 \in [Slots -> Seq(Places)] /\ fs2[i] = t /\ \A k \in Slots \ {i} : fs2[k] = fs[k]
  BY <1>1, <1>2, <1>3
<1>5. \A j, k \in 1 .. Len(s) : s[j] = s[k] => j = k
  BY <1>1 DEF Once
<1>6. /\ \A j \in 1 .. Len(t) : j + 1 \in 1 .. Len(s) /\ t[j] = s[j + 1] /\ j + 1 # 1
      /\ \A j \in 1 .. Len(s) : j = 1 \/ (j - 1 \in 1 .. Len(t) /\ t[j - 1] = s[j])
  <2>1. \A j \in 1 .. Len(t) : j + 1 \in 1 .. Len(s) /\ t[j] = s[j + 1] /\ j + 1 # 1
    BY <1>3
  <2>2. ASSUME NEW j \in 1 .. Len(s), j # 1 PROVE j - 1 \in 1 .. Len(t) /\ t[j - 1] = s[j]
    <3>1. j - 1 \in 1 .. Len(s) - 1 /\ (j - 1) + 1 = j
      BY <1>3, <2>2
    <3> QED BY <1>3, <3>1
  <2> QED BY <2>1, <2>2
<1>7. \A j, k \in 1 .. Len(t) : t[j] = t[k] => j = k
  <2>1. ASSUME NEW j \in 1 .. Len(t), NEW k \in 1 .. Len(t), t[j] = t[k] PROVE j = k
    <3>1. j + 1 = k + 1
      BY <1>5, <1>6, <2>1
    <3> QED BY <1>3, <3>1
  <2> QED BY <2>1
<1>8. Once(fs2)
  BY <1>4, <1>7 DEF Once
<1>9. 1 \in 1 .. Len(s) /\ \A j \in 1 .. Len(t) : t[j] # a
  BY <1>3, <1>5, <1>6
<1>10. <<a, i>> \in FreePieces(fs)
  BY <1>1, <1>3, <1>9 DEF FreePieces
<1>11. ASSUME NEW x \in Places \X Slots
       PROVE  (\E j \in 1 .. Len(fs2[x[2]]) : fs2[x[2]][j] = x[1])
                <=> (\E j \in 1 .. Len(fs[x[2]]) : fs[x[2]][j] = x[1]) /\ x # <<a, i>>
  <2>1. CASE x[2] # i
    BY <1>4, <2>1
  <2>2. CASE x[2] = i
    <3>1. (\E j \in 1 .. Len(t) : t[j] = x[1]) <=> (\E j \in 1 .. Len(s) : s[j] = x[1]) /\ x[1] # a
      <4>1. PICK y : y = x[1]
        OBVIOUS
      <4>2. ASSUME NEW j \in 1 .. Len(t), t[j] = y PROVE (\E k \in 1 .. Len(s) : s[k] = y) /\ y # a
        BY <1>6, <1>9, <4>2
      <4>3. ASSUME NEW j \in 1 .. Len(s), s[j] = y, y # a PROVE \E k \in 1 .. Len(t) : t[k] = y
        BY <1>3, <1>6, <4>3
      <4> QED BY ONLY <4>1, <4>2, <4>3
    <3>2. x = <<a, i>> <=> x[1] = a
      BY <2>2
    <3>3. fs2[x[2]] = t /\ fs[x[2]] = s
      BY <1>1, <1>4, <2>2
    <3> QED BY ONLY <3>1, <3>2, <3>3
  <2> QED BY <2>1, <2>2
<1>12. FreePieces(fs2) = FreePieces(fs) \ {<<a, i>>}
  BY <1>11 DEF FreePieces
<1> QED BY <1>3, <1>4, <1>8, <1>10, <1>12

\* No other block begins where one does.
LEMMA OnePiece ==
    ASSUME HeapAssumption, NEW P, P \subseteq Places \X Slots, AllApart(P),
           NEW a, NEW i \in Slots, NEW k \in Slots, <<a, i>> \in P, <<a, k>> \in P
    PROVE  i = k
<1>1. getSize(i) \in Nat /\ getSize(i) > 0 /\ getSize(k) \in Nat /\ getSize(k) > 0
  BY PieceSizes
<1>2. a[2] \in Nat
  BY DEF Places
<1>3. SUFFICES ASSUME <<a, i>> # <<a, k>> PROVE FALSE
  OBVIOUS
<1>4. Apart(a, getSize(i), a, getSize(k))
  BY <1>3 DEF AllApart
<1> QED BY ONLY <1>1, <1>2, <1>4 DEF Apart

\* The block is apart from all others.
Clear(P, a, i) == \A y \in P : Apart(y[1], getSize(y[2]), a, getSize(i))

LEMMA OneApart ==
    ASSUME HeapAssumption, NEW P, P \subseteq Places \X Slots, AllApart(P), NEW a \in Places, NEW i \in Slots,
           Clear(P, a, i), NEW Q, Q = P \cup {<<a, i>>}
    PROVE  AllApart(Q) /\ Q \subseteq Places \X Slots /\ \A k \in Slots : <<a, k>> \notin P
<1>1. getSize(i) \in Nat /\ getSize(i) > 0 /\ a[2] \in Nat
  BY PieceSizes DEF Places
<1>2. \A y \in P : Apart(y[1], getSize(y[2]), a, getSize(i)) /\ Apart(a, getSize(i), y[1], getSize(y[2]))
  BY DEF Clear, Apart
<1>3. PICK x : x = <<a, i>>
  OBVIOUS
<1>4. x[1] = a /\ x[2] = i /\ Q = P \cup {x}
  BY <1>3
<1>5. AllApart(Q)
  BY <1>2, <1>4 DEF AllApart
<1>6. Q \subseteq Places \X Slots
  BY <1>3
<1>7. ASSUME NEW k \in Slots, <<a, k>> \in P PROVE FALSE
  <2>1. Apart(a, getSize(k), a, getSize(i))
    BY <1>2, <1>7
  <2>2. getSize(k) \in Nat /\ getSize(k) > 0
    BY PieceSizes
  <2> QED BY ONLY <1>1, <2>1, <2>2 DEF Apart
<1> QED BY <1>5, <1>6, <1>7

\* The first block of a slot leaves its list, and a block comes to be the first.
Popped(fs, i, a, fs2) == fs[i] # << >> /\ a = Head(fs[i]) /\ fs2 = [fs EXCEPT ![i] = Tail(@)]

PushedOn(fs, i, a, fs2) == fs2 = [fs EXCEPT ![i] = <<a>> \o @]

Shrunk(f, a, g) == g = Restrict(f, DOMAIN f \ {a})

\* A block of a free list is used again,
LEMMA SmallReused ==
    ASSUME HeapAssumption, NEW sm, NEW fs, NEW offs, SmallTyped(sm, fs, offs), SmallSound(sm, fs),
           NEW i \in Slots, getSize(i) >= SmallHeader, NEW a, NEW fs2, Popped(fs, i, a, fs2),
           NEW sm2, sm2 = put(sm, a, i)
    PROVE  /\ SmallTyped(sm2, fs2, offs) /\ SmallSound(sm2, fs2) /\ Pieces(sm2, fs2) = Pieces(sm, fs)
           /\ a \in Places /\ OneMore(SmallSizes(sm), SmallSizes(sm2), a, getSize(i), SmallHeader)
<1>1. /\ fs2 \in [Slots -> Seq(Places)] /\ Once(fs2) /\ a \in Places
      /\ <<a, i>> \in FreePieces(fs) /\ FreePieces(fs2) = FreePieces(fs) \ {<<a, i>>}
  <2>1. fs \in [Slots -> Seq(Places)] /\ Once(fs)
    BY DEF SmallTyped, SmallSound
  <2>2. fs[i] # << >> /\ a = Head(fs[i]) /\ fs2 = [fs EXCEPT ![i] = Tail(@)]
    BY DEF Popped
  <2> QED BY ONLY <2>1, <2>2, i \in Slots, FreePopped
<1>2. /\ Pieces(sm, fs) \subseteq Places \X Slots /\ AllApart(Pieces(sm, fs))
      /\ UsedPieces(sm) \cap FreePieces(fs) = {}
  BY DEF SmallSound, Pieces, UsedPieces, FreePieces
<1>3. a \notin DOMAIN sm
  <2>1. SUFFICES ASSUME a \in DOMAIN sm PROVE FALSE
    OBVIOUS
  <2>2. PICK k \in Slots : k = sm[a]
    BY <2>1 DEF SmallTyped
  <2>3. <<a, k>> \in UsedPieces(sm)
    BY <1>1, <2>1, <2>2 DEF UsedPieces
  <2>4. i = k
    <3>1. PICK P : P = Pieces(sm, fs)
      OBVIOUS
    <3>2. P \subseteq Places \X Slots /\ AllApart(P) /\ <<a, i>> \in P /\ <<a, k>> \in P
      BY <1>1, <1>2, <2>3, <3>1 DEF Pieces
    <3> QED BY ONLY HeapAssumption, i \in Slots, k \in Slots, <3>2, OnePiece
  <2> QED BY <1>1, <1>2, <2>3, <2>4
<1>4. /\ SmallTyped(sm2, fs, offs) /\ UsedPieces(sm2) = UsedPieces(sm) \cup {<<a, i>>}
      /\ OneMore(SmallSizes(sm), SmallSizes(sm2), a, getSize(i), SmallHeader)
  BY ONLY HeapAssumption, SmallTyped(sm, fs, offs), i \in Slots, getSize(i) >= SmallHeader,
          sm2 = put(sm, a, i), <1>1, <1>3, SlotAdded
<1>5. Pieces(sm2, fs2) = Pieces(sm, fs)
  BY <1>1, <1>4 DEF Pieces
<1>6. UsedPieces(sm2) \cap FreePieces(fs2) = {}
  BY <1>1, <1>2, <1>4
<1>7. SmallTyped(sm2, fs2, offs)
  BY <1>1, <1>4 DEF SmallTyped
<1>8. SmallSound(sm2, fs2)
  BY <1>1, <1>2, <1>5, <1>6 DEF SmallSound
<1> QED BY <1>1, <1>4, <1>5, <1>7, <1>8

\* a block goes to its free list,
LEMMA SmallFreed ==
    ASSUME HeapAssumption, NEW sm, NEW fs, NEW offs, SmallTyped(sm, fs, offs), SmallSound(sm, fs),
           NEW a \in DOMAIN sm, NEW sm2, Shrunk(sm, a, sm2), NEW i \in Slots, i = sm[a],
           NEW fs2, PushedOn(fs, i, a, fs2)
    PROVE  /\ SmallTyped(sm2, fs2, offs) /\ SmallSound(sm2, fs2) /\ Pieces(sm2, fs2) = Pieces(sm, fs)
           /\ OneMore(SmallSizes(sm2), SmallSizes(sm), a, getSize(i), SmallHeader)
<1>1. /\ SmallTyped(sm2, fs, offs) /\ UsedPieces(sm2) = UsedPieces(sm) \ {<<a, sm[a]>>}
      /\ <<a, sm[a]>> \in UsedPieces(sm)
      /\ OneMore(SmallSizes(sm2), SmallSizes(sm), a, getSize(sm[a]), SmallHeader)
  <2>1. sm2 = Restrict(sm, DOMAIN sm \ {a})
    BY DEF Shrunk
  <2> QED BY ONLY HeapAssumption, SmallTyped(sm, fs, offs), a \in DOMAIN sm, <2>1, SlotRemoved
<1>2. i = sm[a]
  OBVIOUS
<1>3. UsedPieces(sm) \cap FreePieces(fs) = {} /\ AllApart(Pieces(sm, fs))
  BY DEF SmallSound
<1>4. fs2 \in [Slots -> Seq(Places)] /\ Once(fs2) /\ FreePieces(fs2) = FreePieces(fs) \cup {<<a, i>>}
  <2>1. fs \in [Slots -> Seq(Places)] /\ Once(fs) /\ a \in Places
    BY DEF SmallTyped, SmallSound
  <2>2. <<a, i>> \notin FreePieces(fs) /\ fs2 = [fs EXCEPT ![i] = <<a>> \o @]
    BY <1>1, <1>2, <1>3 DEF PushedOn
  <2> QED BY ONLY <2>1, <2>2, i \in Slots, FreePushed
<1>5. Pieces(sm2, fs2) = Pieces(sm, fs) /\ UsedPieces(sm2) \cap FreePieces(fs2) = {}
  BY <1>1, <1>2, <1>3, <1>4 DEF Pieces
<1>6. SmallTyped(sm2, fs2, offs)
  BY <1>1, <1>4 DEF SmallTyped
<1>7. SmallSound(sm2, fs2)
  BY <1>3, <1>4, <1>5 DEF SmallSound
<1> QED BY <1>1, <1>5, <1>6, <1>7

\* a block is carved from memory that no other has,
LEMMA SmallCarved ==
    ASSUME HeapAssumption, NEW sm, NEW fs, NEW offs, SmallTyped(sm, fs, offs), SmallSound(sm, fs),
           NEW i \in Slots, getSize(i) >= SmallHeader, NEW a \in Places, Clear(Pieces(sm, fs), a, i),
           NEW sm2, sm2 = put(sm, a, i)
    PROVE  /\ SmallTyped(sm2, fs, offs) /\ SmallSound(sm2, fs)
           /\ Pieces(sm2, fs) = Pieces(sm, fs) \cup {<<a, i>>}
           /\ OneMore(SmallSizes(sm), SmallSizes(sm2), a, getSize(i), SmallHeader)
<1>1. /\ Pieces(sm, fs) \subseteq Places \X Slots /\ AllApart(Pieces(sm, fs))
      /\ UsedPieces(sm) \cap FreePieces(fs) = {} /\ Once(fs)
  BY DEF SmallSound, Pieces, UsedPieces, FreePieces
<1>2. PICK P : P = Pieces(sm, fs)
  OBVIOUS
<1>3. PICK Q : Q = P \cup {<<a, i>>}
  OBVIOUS
<1>4. AllApart(Q) /\ \A k \in Slots : <<a, k>> \notin P
  <2>1. P \subseteq Places \X Slots /\ AllApart(P) /\ Clear(P, a, i)
    BY <1>1, <1>2
  <2> QED BY ONLY HeapAssumption, a \in Places, i \in Slots, <1>3, <2>1, OneApart
<1>5. a \notin DOMAIN sm
  <2>1. ASSUME a \in DOMAIN sm PROVE FALSE
    <3>1. PICK k \in Slots : k = sm[a]
      BY <2>1 DEF SmallTyped
    <3>2. <<a, k>> \in UsedPieces(sm)
      BY <2>1, <3>1 DEF UsedPieces
    <3> QED BY <1>2, <1>4, <3>2 DEF Pieces
  <2> QED BY <2>1
<1>6. /\ SmallTyped(sm2, fs, offs) /\ UsedPieces(sm2) = UsedPieces(sm) \cup {<<a, i>>}
      /\ OneMore(SmallSizes(sm), SmallSizes(sm2), a, getSize(i), SmallHeader)
  BY ONLY HeapAssumption, SmallTyped(sm, fs, offs), i \in Slots, getSize(i) >= SmallHeader,
          sm2 = put(sm, a, i), a \in Places, <1>5, SlotAdded
<1>7. Pieces(sm2, fs) = Q
  BY <1>2, <1>3, <1>6 DEF Pieces
<1>8. UsedPieces(sm2) \cap FreePieces(fs) = {}
  BY <1>1, <1>2, <1>4, <1>6 DEF Pieces
<1>9. SmallSound(sm2, fs)
  BY <1>1, <1>4, <1>7, <1>8 DEF SmallSound
<1> QED BY <1>2, <1>3, <1>6, <1>7, <1>9

\* and such memory becomes a free block.
LEMMA RestFreed ==
    ASSUME HeapAssumption, NEW sm, NEW fs, NEW offs, SmallTyped(sm, fs, offs), SmallSound(sm, fs),
           NEW i \in Slots, NEW a \in Places, Clear(Pieces(sm, fs), a, i),
           NEW fs2, PushedOn(fs, i, a, fs2)
    PROVE  /\ SmallTyped(sm, fs2, offs) /\ SmallSound(sm, fs2)
           /\ Pieces(sm, fs2) = Pieces(sm, fs) \cup {<<a, i>>}
<1>1. /\ Pieces(sm, fs) \subseteq Places \X Slots /\ AllApart(Pieces(sm, fs))
      /\ UsedPieces(sm) \cap FreePieces(fs) = {} /\ Once(fs)
  BY DEF SmallSound, Pieces, UsedPieces, FreePieces
<1>2. PICK P : P = Pieces(sm, fs)
  OBVIOUS
<1>3. PICK Q : Q = P \cup {<<a, i>>}
  OBVIOUS
<1>4. AllApart(Q) /\ \A k \in Slots : <<a, k>> \notin P
  <2>1. P \subseteq Places \X Slots /\ AllApart(P) /\ Clear(P, a, i)
    BY <1>1, <1>2
  <2> QED BY ONLY HeapAssumption, a \in Places, i \in Slots, <1>3, <2>1, OneApart
<1>5. <<a, i>> \notin FreePieces(fs) /\ <<a, i>> \notin UsedPieces(sm)
  BY <1>2, <1>4 DEF Pieces
<1>6. fs2 \in [Slots -> Seq(Places)] /\ Once(fs2) /\ FreePieces(fs2) = FreePieces(fs) \cup {<<a, i>>}
  <2>1. fs \in [Slots -> Seq(Places)]
    BY DEF SmallTyped
  <2>2. fs2 = [fs EXCEPT ![i] = <<a>> \o @]
    BY DEF PushedOn
  <2> QED BY ONLY <1>1, <1>5, <2>1, <2>2, a \in Places, i \in Slots, FreePushed
<1>7. Pieces(sm, fs2) = Q /\ UsedPieces(sm) \cap FreePieces(fs2) = {}
  BY <1>1, <1>2, <1>3, <1>5, <1>6 DEF Pieces
<1>8. SmallTyped(sm, fs2, offs)
  BY <1>6 DEF SmallTyped
<1>9. SmallSound(sm, fs2)
  BY <1>4, <1>6, <1>7 DEF SmallSound
<1> QED BY <1>2, <1>3, <1>7, <1>8, <1>9

-----------------------------------------------------------------------------
(* The steps: small blocks.                                                *)

\* Rounding up yields the least aligned number.
LEMMA RoundedLeast ==
    ASSUME HeapAssumption, NEW n \in Nat, NEW m \in Aligned, n <= m
    PROVE  rounded(n) <= m
<1>1. rounded(n) \in Aligned /\ rounded(n) < n + Align
  BY RoundedUp
<1>2. rounded(n) \in Nat /\ m \in Nat /\ Align \in Nat
  BY <1>1, AlignedHeaders
<1>3. SUFFICES ASSUME rounded(n) > m PROVE FALSE
  BY <1>2
<1>4. PICK d \in Aligned : d = rounded(n) - m
  BY <1>1, <1>2, <1>3, AlignedSums
<1>5. d \in Nat /\ d > 0 /\ d < Align
  BY ONLY <1>1, <1>2, <1>3, <1>4, n \in Nat, n <= m
<1>6. PICK q \in Nat : d = q * Align
  BY <1>4, <1>5, AlignedFactor
<1>7. q >= 1 => q * Align >= Align
  BY ONLY <1>2, q \in Nat
<1>8. q = 0 => d = 0
  BY <1>2, <1>6
<1> QED BY <1>2, <1>5, <1>6, <1>7, <1>8

\* The slot of a small request.
LEMMA SmallRequest ==
    ASSUME HeapAssumption, NEW n \in Sizes, n < MaxSmall, NEW size, size = smallSize(n)
    PROVE  /\ n \in Nat /\ size \in Aligned /\ size \in Nat /\ size > 0 /\ slotOf(size) \in Slots
           /\ getSize(slotOf(size)) = size /\ size >= n + SmallHeader /\ size <= MaxSmall + SmallHeader
           /\ size >= SmallHeader
<1>1. n \in Nat /\ n > 0 /\ SmallHeader \in Nat /\ MaxSmall \in Nat
  <2>1. n \in Nat \ {0}
    BY DEF HeapAssumption
  <2>2. SmallHeader \in Nat /\ MaxSmall \in Nat
    BY AlignedHeaders
  <2> QED BY ONLY <2>1, <2>2
<1>2. n + SmallHeader \in Nat
  BY <1>1
<1>3. size \in Aligned /\ size >= n + SmallHeader
  BY <1>2, RoundedUp DEF smallSize
<1>4. MaxSmall + SmallHeader \in Aligned
  BY AlignedHeaders, AlignedSums
<1>5. size <= MaxSmall + SmallHeader
  <2>1. n + SmallHeader <= MaxSmall + SmallHeader
    BY <1>1
  <2> QED BY <1>2, <1>4, <2>1, RoundedLeast DEF smallSize
<1>6. size \in Nat
  BY <1>3, AlignedHeaders
<1>7. size > 0 /\ size >= SmallHeader
  BY ONLY <1>1, <1>3, <1>6
<1>8. slotOf(size) \in Slots /\ getSize(slotOf(size)) = size
  BY <1>3, <1>5, <1>7, SlotSizes
<1> QED BY <1>1, <1>3, <1>5, <1>6, <1>7, <1>8

\* A page that is not in use.
LEMMA NewPageFresh ==
    ASSUME HeapAssumption, pages \subseteq 1 .. MaxPages, CanTakePage
    PROVE  NewPage \in 1 .. MaxPages /\ NewPage \notin pages
<1>1. MaxPages \in Nat
  BY DEF HeapAssumption
<1>2. pages # 1 .. MaxPages
  <2>1. SUFFICES ASSUME pages = 1 .. MaxPages PROVE FALSE
    OBVIOUS
  <2>2. Cardinality(1 .. MaxPages) = MaxPages
    <3>1. Cardinality(1 .. MaxPages) = IF 1 > MaxPages THEN 0 ELSE MaxPages - 1 + 1
      BY <1>1, FS_Interval
    <3> QED BY <1>1, <3>1
  <2> QED BY <1>1, <2>1, <2>2 DEF CanTakePage
<1>3. PICK T \in SUBSET Nat : T = (1 .. MaxPages) \ pages
  <2>1. (1 .. MaxPages) \ pages \in SUBSET Nat
    BY <1>1
  <2> QED BY ONLY <2>1
<1>4. T # {}
  BY <1>2, <1>3
<1>5. Min(T) \in T
  BY <1>4, MinIsLeast
<1> QED BY <1>3, <1>5 DEF NewPage

\* One more page in front of the others.
IsBefore(p, sp, t) == t = <<p>> \o sp

LEMMA PagePushed ==
    ASSUME NEW S, NEW sp \in Seq(S), NEW p \in S, NEW t, IsBefore(p, sp, t)
    PROVE  /\ t \in Seq(S) /\ ToSet(t) = ToSet(sp) \cup {p} /\ Head(t) = p /\ t # << >>
           /\ Len(t) = Len(sp) + 1 /\ t[1] = p
           /\ \A j \in 1 .. Len(sp) : j + 1 \in 1 .. Len(sp) + 1 /\ t[j + 1] = sp[j]
           /\ \A j \in 1 .. Len(sp) + 1 : j # 1 => j - 1 \in 1 .. Len(sp) /\ t[j] = sp[j - 1]
<1>1. PICK o \in Seq(S) : o = <<p>>
  <2>1. <<p>> \in Seq(S)
    BY ONLY p \in S
  <2> QED BY <2>1
<1>2. Len(o) = 1 /\ o[1] = p /\ Len(sp) \in Nat
  BY <1>1, LenProperties
<1>3. /\ t \in Seq(S) /\ Len(t) = Len(o) + Len(sp)
      /\ \A j \in 1 .. Len(o) + Len(sp) : t[j] = IF j <= Len(o) THEN o[j] ELSE sp[j - Len(o)]
  <2>1. t = o \o sp
    BY ONLY <1>1, IsBefore(p, sp, t) DEF IsBefore
  <2>2. PICK u : u = o \o sp
    OBVIOUS
  <2>3. /\ u \in Seq(S) /\ Len(u) = Len(o) + Len(sp)
        /\ \A j \in 1 .. Len(o) + Len(sp) : u[j] = IF j <= Len(o) THEN o[j] ELSE sp[j - Len(o)]
    BY ONLY <2>2, o \in Seq(S), sp \in Seq(S), Concatenated
  <2> QED BY ONLY <2>1, <2>2, <2>3
<1>4. Len(t) = Len(sp) + 1 /\ DOMAIN t = 1 .. Len(sp) + 1 /\ DOMAIN sp = 1 .. Len(sp)
  BY <1>2, <1>3, LenProperties
<1>5. t[1] = p /\ 1 \in 1 .. Len(sp) + 1
  BY <1>2, <1>3
<1>6. ASSUME NEW j \in 1 .. Len(sp) PROVE j + 1 \in 1 .. Len(sp) + 1 /\ t[j + 1] = sp[j]
  <2>1. j + 1 \in 1 .. Len(o) + Len(sp) /\ ~(j + 1 <= Len(o)) /\ (j + 1) - Len(o) = j
    BY <1>2
  <2> QED BY <1>2, <1>3, <2>1
<1>7. ASSUME NEW j \in 1 .. Len(sp) + 1, j # 1 PROVE j - 1 \in 1 .. Len(sp) /\ t[j] = sp[j - 1]
  <2>1. j \in 1 .. Len(o) + Len(sp) /\ ~(j <= Len(o)) /\ j - Len(o) = j - 1 /\ j - 1 \in 1 .. Len(sp)
    BY <1>2, <1>7
  <2> QED BY <1>3, <2>1
<1>8. ToSet(t) = ToSet(sp) \cup {p}
  <2>1. ASSUME NEW x \in ToSet(t) PROVE x \in ToSet(sp) \cup {p}
    <3>1. PICK j \in 1 .. Len(sp) + 1 : x = t[j]
      BY ONLY <1>4, x \in ToSet(t) DEF ToSet
    <3>2. CASE j = 1
      BY <1>5, <3>1, <3>2
    <3>3. CASE j # 1
      <4>1. j - 1 \in DOMAIN sp /\ x = sp[j - 1]
        BY <1>4, <1>7, <3>1, <3>3
      <4> QED BY <4>1 DEF ToSet
    <3> QED BY <3>2, <3>3
  <2>2. \A x : x \in ToSet(sp) \cup {p} => x \in ToSet(t)
    BY <1>4, <1>5, <1>6 DEF ToSet
  <2> QED BY <2>1, <2>2
<1>9. t # << >>
  BY <1>2, <1>4, EmptySeq
<1>10. Head(t) = p
  BY <1>3, <1>5, <1>9
<1> QED BY <1>3, <1>4, <1>5, <1>6, <1>7, <1>8, <1>9, <1>10

\* takeSmall: the pointers and the statistics.
LEMMA SmallTaken ==
    ASSUME HeapAssumption, HeldOK, StatsOK, ~destroyed, NEW n \in Nat, NEW i \in Slots, NEW a \in Places,
           getSize(i) >= n + SmallHeader, NEW alloc \in Nat, takeSmall(a, i, n, alloc),
           OneMore(SmallSizes(small), SmallSizes(small'), a, getSize(i), SmallHeader),
           blocks' = blocks, large' = large, destroyed' = destroyed,
           PageSize * Len(small_pages') = PageSize * Len(small_pages) + alloc
    PROVE  HeldOK' /\ StatsOK'
<1>1. PICK f : f = SmallSizes(small)
  OBVIOUS
<1>2. PICK g : g = SmallSizes(small')
  OBVIOUS
<1>3. PICK w : w = getSize(i)
  OBVIOUS
<1>4. OneMore(f, g, a, w, SmallHeader) /\ w >= n + SmallHeader
  BY <1>1, <1>2, <1>3
<1>5. "small" \in Types /\ "medium" \in Types /\ "large" \in Types
  BY DEF Types
<1>6. HeldOK'
  <2>1. held' = held \cup {[type |-> "small", at |-> a, size |-> n]}
    BY DEF takeSmall, returned
  <2>2. HeldTyped(held) /\ HeldIn(held, "small", f, SmallHeader)
    BY <1>1 DEF HeldOK
  <2>3. PICK t \in Types : t = "small"
    BY <1>5
  <2>4. /\ HeldTyped(held') /\ HeldIn(held', t, g, SmallHeader)
        /\ \A u, e, h : u # t /\ HeldIn(held, u, e, h) => HeldIn(held', u, e, h)
    BY ONLY a \in Places, n \in Nat, <1>4, <2>1, <2>2, <2>3, HeldMore
  <2>5. HeldIn(held', "medium", UsedSizes(blocks), BlockHeader) /\ HeldIn(held', "large", large, BlockHeader)
    BY <2>3, <2>4 DEF HeldOK
  <2> QED BY <1>2, <2>3, <2>4, <2>5 DEF HeldOK
<1>7. StatsOK'
  <2>1. PICK m : m = PageSize * Len(small_pages)
    OBVIOUS
  <2>2. PICK k : k = m + alloc
    OBVIOUS
  <2>3. stats["small"] = Entry(f, SmallHeader, m) /\ DOMAIN stats = Types
    BY <1>1, <2>1 DEF StatsOK
  <2>4. stats' = [stats EXCEPT !["small"] =
                    registerAlloc(allocated(@, alloc), getSize(i), getSize(i) - SmallHeader)]
    BY DEF takeSmall
  <2>5. PICK t \in Types : t = "small"
    BY <1>5
  <2>6. /\ stats'[t] = Entry(g, SmallHeader, k) /\ DOMAIN stats' = Types
        /\ \A u \in Types : u # t => stats'[u] = stats[u]
    BY ONLY <1>3, <1>4, <2>2, <2>3, <2>4, <2>5, StatsMore
  <2>7. /\ stats'["small"] = Entry(g, SmallHeader, k) /\ stats'["medium"] = stats["medium"]
        /\ stats'["large"] = stats["large"] /\ DOMAIN stats' = Types
    BY ONLY <1>5, <2>5, <2>6
  <2>8. k = PageSize * Len(small_pages')
    BY <2>1, <2>2
  <2> QED BY <1>2, <2>7, <2>8 DEF StatsOK
<1> QED BY <1>6, <1>7

\* What a step of the small blocks leaves alone.
LEMMA OthersSame ==
    ASSUME MediumOK, ListOK, LargeOK, blocks' = blocks, free_list' = free_list,
           next_page' = next_page, large' = large, destroyed' = destroyed
    PROVE  MediumOK' /\ ListOK' /\ LargeOK'
<1>1. MediumOK'
  BY DEF MediumOK
<1>2. ListOK'
  BY DEF ListOK
<1>3. LargeOK'
  BY DEF LargeOK
<1> QED BY <1>1, <1>2, <1>3

\* The free block of the list is handed out.
LEMMA ReuseStep ==
    ASSUME HeapAssumption, Inv, ~destroyed, NEW n \in Sizes, n < MaxSmall, reuseSmall(n),
           UNCHANGED <<blocks, free_list, next_page, large, destroyed>>
    PROVE  Inv'
<1>1. PICK size : size = smallSize(n)
  OBVIOUS
<1>2. n \in Nat /\ slotOf(size) \in Slots /\ getSize(slotOf(size)) = size /\ size >= n + SmallHeader
      /\ size >= SmallHeader
  BY <1>1, SmallRequest
<1>3. PICK i \in Slots : i = slotOf(size)
  BY <1>2
<1>4. PICK a : a = Head(free_small[i])
  OBVIOUS
<1>5. /\ free_small[i] # << >> /\ free_small' = [free_small EXCEPT ![i] = Tail(@)]
      /\ takeSmall(a, i, n, 0) /\ small_pages' = small_pages /\ small_page_offs' = small_page_offs
      /\ pages' = pages
  BY <1>1, <1>3, <1>4 DEF reuseSmall
<1>6. small' = put(small, a, i)
  BY <1>5 DEF takeSmall
<1>7. SmallTyped(small, free_small, small_page_offs) /\ SmallSound(small, free_small)
  BY DEF Inv, SmallOK
<1>8. /\ SmallTyped(small', free_small', small_page_offs) /\ SmallSound(small', free_small')
      /\ Pieces(small', free_small') = Pieces(small, free_small)
      /\ a \in Places /\ OneMore(SmallSizes(small), SmallSizes(small'), a, getSize(i), SmallHeader)
  <2>1. getSize(i) >= SmallHeader
    BY <1>2, <1>3
  <2>2. free_small[i] # << >> /\ free_small' = [free_small EXCEPT ![i] = Tail(@)]
    BY <1>5
  <2>3. Popped(free_small, i, a, free_small')
    BY ONLY <1>4, <2>2 DEF Popped
  <2> QED BY ONLY HeapAssumption, <1>6, <1>7, <2>1, <2>3, SmallReused
<1>9. SmallOK'
  BY <1>5, <1>8 DEF Inv, SmallOK
<1>10. HeldOK' /\ StatsOK'
  <2>1. getSize(i) >= n + SmallHeader /\ a \in Places /\ 0 \in Nat
    BY <1>2, <1>3, <1>8
  <2>2. PageSize * Len(small_pages') = PageSize * Len(small_pages) + 0
    <3>1. PageSize \in Nat /\ Len(small_pages) \in Nat
      BY AlignedHeaders, LenProperties DEF Inv, PagesOK
    <3>2. PageSize * Len(small_pages) \in Nat
      BY ONLY <3>1
    <3> QED BY <1>5, <3>2
  <2>3. HeldOK /\ StatsOK
    BY DEF Inv
  <2>4. blocks' = blocks /\ large' = large /\ destroyed' = destroyed
    OBVIOUS
  <2> QED BY ONLY HeapAssumption, ~destroyed, <1>2, <1>5, <1>8, <2>1, <2>2, <2>3, <2>4, SmallTaken
<1>11. PagesOK'
  BY <1>5 DEF Inv, PagesOK
<1>12. MediumOK' /\ ListOK' /\ LargeOK'
  BY OthersSame DEF Inv
<1> QED BY <1>9, <1>10, <1>11, <1>12 DEF Inv

\* What was given out of the current page lies before the offset.
LEMMA CurrentPage ==
    ASSUME HeapAssumption, Inv, ~destroyed, free_page_size > 0
    PROVE  /\ small_pages # << >> /\ Head(small_pages) \in 1 .. MaxPages
           /\ Head(small_pages) \in ToSet(small_pages)
           /\ free_page_size = PageSize - small_page_offs /\ free_page_size \in Aligned
           /\ <<Head(small_pages), small_page_offs>> \in Places /\ small_page_offs \in Aligned
           /\ \A i \in Slots :
                 Clear(Pieces(small, free_small), <<Head(small_pages), small_page_offs>>, i)
<1>1. /\ small_page_offs \in Aligned /\ small_page_offs <= PageSize
      /\ small_pages = << >> => small_page_offs = 0
      /\ small_pages \in Seq(1 .. MaxPages)
  BY DEF Inv, SmallOK, SmallTyped, PagesOK
<1>2. small_pages # << >>
  BY <1>1, AlignedHeaders DEF free_page_size
<1>3. free_page_size = PageSize - small_page_offs
  BY <1>2 DEF free_page_size
<1>4. free_page_size \in Aligned
  <2>1. PageSize \in Aligned
    BY AlignedHeaders
  <2>2. PageSize - small_page_offs \in Aligned
    BY ONLY HeapAssumption, <1>1, <2>1, AlignedSums, AlignedHeaders
  <2> QED BY <1>3, <2>2
<1>5. PICK h : h = Head(small_pages)
  OBVIOUS
<1>6. h \in 1 .. MaxPages /\ h \in ToSet(small_pages)
  <2>1. Len(small_pages) \in Nat /\ DOMAIN small_pages = 1 .. Len(small_pages)
    BY <1>1, LenProperties
  <2>2. 1 \in 1 .. Len(small_pages) /\ h = small_pages[1]
    BY <1>1, <1>2, <1>5, <2>1, EmptySeq
  <2>3. small_pages[1] \in 1 .. MaxPages
    BY <1>1, <2>2, ElementOfSeq
  <2> QED BY <2>1, <2>2, <2>3 DEF ToSet
<1>7. <<h, small_page_offs>> \in Places
  BY <1>1, <1>6, AlignedHeaders DEF Places
<1>8. ASSUME NEW i \in Slots, NEW y \in Pieces(small, free_small)
      PROVE  Apart(y[1], getSize(y[2]), <<h, small_page_offs>>, getSize(i))
  <2>1. Within(y, small_pages, small_page_offs)
    BY DEF Inv, SmallOK
  <2> QED BY <1>5, <2>1 DEF Within, Apart
<1>9. \A i \in Slots : Clear(Pieces(small, free_small), <<h, small_page_offs>>, i)
  BY <1>8 DEF Clear
<1> QED BY <1>1, <1>2, <1>3, <1>4, <1>5, <1>6, <1>7, <1>9

\* The next bytes of the current page are handed out.
LEMMA CarveStep ==
    ASSUME HeapAssumption, Inv, ~destroyed, NEW n \in Sizes, n < MaxSmall, carveSmall(n),
           UNCHANGED <<blocks, free_list, next_page, large, destroyed>>
    PROVE  Inv'
<1>1. PICK size : size = smallSize(n)
  OBVIOUS
<1>2. n \in Nat /\ slotOf(size) \in Slots /\ getSize(slotOf(size)) = size /\ size >= n + SmallHeader
      /\ size >= SmallHeader /\ size > 0 /\ size \in Aligned /\ size \in Nat
  BY <1>1, SmallRequest
<1>3. PICK i \in Slots : i = slotOf(size)
  BY <1>2
<1>4. PICK a : a = <<Head(small_pages), small_page_offs>>
  OBVIOUS
<1>5. /\ free_page_size >= size /\ small_page_offs' = small_page_offs + size
      /\ takeSmall(a, i, n, 0) /\ small_pages' = small_pages /\ free_small' = free_small
      /\ pages' = pages
  BY <1>1, <1>3, <1>4 DEF carveSmall
<1>6. small' = put(small, a, i)
  BY <1>5 DEF takeSmall
<1>7. SmallTyped(small, free_small, small_page_offs) /\ SmallSound(small, free_small)
  BY DEF Inv, SmallOK
<1>8. /\ a[1] = Head(small_pages) /\ a[2] = small_page_offs /\ small_pages # << >>
      /\ Head(small_pages) \in ToSet(small_pages) /\ free_page_size = PageSize - small_page_offs
      /\ a \in Places /\ small_page_offs \in Aligned /\ Clear(Pieces(small, free_small), a, i)
  <2>1. small_page_offs \in Int /\ PageSize \in Int
    BY AlignedHeaders DEF Inv, SmallOK, SmallTyped
  <2>2. free_page_size \in Int
    BY <2>1 DEF free_page_size
  <2>3. free_page_size > 0
    BY <1>2, <1>5, <2>2
  <2> QED BY <1>4, <2>3, CurrentPage
<1>9. /\ SmallTyped(small', free_small, small_page_offs) /\ SmallSound(small', free_small)
      /\ Pieces(small', free_small) = Pieces(small, free_small) \cup {<<a, i>>}
      /\ OneMore(SmallSizes(small), SmallSizes(small'), a, getSize(i), SmallHeader)
  <2>1. getSize(i) >= SmallHeader
    BY <1>2, <1>3
  <2> QED BY ONLY HeapAssumption, <1>6, <1>7, <1>8, <2>1, SmallCarved
<1>10. SmallOK'
  <2>1. /\ small_page_offs \in Nat /\ PageSize \in Nat /\ small_page_offs' \in Nat
        /\ small_page_offs' \in Aligned /\ small_page_offs' <= PageSize
        /\ small_page_offs <= small_page_offs'
    <3>1. small_page_offs \in Nat /\ PageSize \in Nat
      BY <1>8, AlignedHeaders
    <3>2. small_page_offs + size \in Aligned
      BY <1>2, <1>8, AlignedSums
    <3> QED BY <1>2, <1>5, <1>8, <3>1, <3>2
  <2>2. SmallTyped(small', free_small', small_page_offs') /\ SmallSound(small', free_small')
    BY <1>5, <1>9, <2>1 DEF SmallTyped
  <2>3. Within(<<a, i>>, small_pages, small_page_offs')
    <3>1. getSize(i) = size
      BY <1>2, <1>3
    <3>2. a[2] + size = small_page_offs'
      BY <1>5, <1>8
    <3> QED BY <1>8, <2>1, <3>1, <3>2 DEF Within
  <2>4. ASSUME NEW x \in Pieces(small, free_small) PROVE Within(x, small_pages, small_page_offs')
    <3>1. Within(x, small_pages, small_page_offs)
      BY DEF Inv, SmallOK
    <3>2. x[1][2] \in Nat /\ getSize(x[2]) \in Nat
      <4>1. x \in Places \X Slots
        BY DEF Pieces, UsedPieces, FreePieces
      <4> QED BY <4>1, PieceSizes DEF Places
    <3> QED BY <2>1, <3>1, <3>2 DEF Within
  <2> QED BY <1>5, <1>8, <1>9, <2>2, <2>3, <2>4 DEF SmallOK
<1>11. HeldOK' /\ StatsOK'
  <2>1. getSize(i) >= n + SmallHeader /\ a \in Places /\ 0 \in Nat
    BY <1>2, <1>3, <1>8
  <2>2. PageSize * Len(small_pages') = PageSize * Len(small_pages) + 0
    <3>1. PageSize \in Nat /\ Len(small_pages) \in Nat
      BY AlignedHeaders, LenProperties DEF Inv, PagesOK
    <3>2. PageSize * Len(small_pages) \in Nat
      BY ONLY <3>1
    <3> QED BY <1>5, <3>2
  <2>3. HeldOK /\ StatsOK
    BY DEF Inv
  <2>4. blocks' = blocks /\ large' = large /\ destroyed' = destroyed
    OBVIOUS
  <2> QED BY ONLY HeapAssumption, ~destroyed, <1>2, <1>5, <1>9, <2>1, <2>2, <2>3, <2>4, SmallTaken
<1>12. PagesOK'
  BY <1>5 DEF Inv, PagesOK
<1>13. MediumOK' /\ ListOK' /\ LargeOK'
  BY OthersSame DEF Inv
<1> QED BY <1>10, <1>11, <1>12, <1>13 DEF Inv

\* The rest of the current page is a free block, or nobody's.
LEMMA RestStep ==
    ASSUME HeapAssumption, Inv, ~destroyed, free_page_size < MaxSmall + SmallHeader, NEW fs, fs = restOfPage
    PROVE  /\ SmallTyped(small, fs, small_page_offs) /\ SmallSound(small, fs)
           /\ \A x \in Pieces(small, fs) :
                 /\ x[1][1] \in ToSet(small_pages) /\ x[1][2] \in Aligned
                 /\ x[1][2] + getSize(x[2]) <= PageSize
<1>1. SmallTyped(small, free_small, small_page_offs) /\ SmallSound(small, free_small)
  BY DEF Inv, SmallOK
<1>2. \A x \in Pieces(small, free_small) :
         /\ x[1][1] \in ToSet(small_pages) /\ x[1][2] \in Aligned
         /\ x[1][2] + getSize(x[2]) <= PageSize
  BY DEF Inv, SmallOK, Within
<1>3. CASE ~(free_page_size > rounded(Align + SmallHeader))
  BY <1>1, <1>2, <1>3 DEF restOfPage
<1>4. CASE free_page_size > rounded(Align + SmallHeader)
  <2>1. small_page_offs \in Int /\ PageSize \in Int /\ MaxSmall \in Nat /\ SmallHeader \in Nat /\ Align \in Nat
    BY AlignedHeaders DEF Inv, SmallOK, SmallTyped
  <2>2. free_page_size \in Int
    BY <2>1 DEF free_page_size
  <2>3. Align + SmallHeader \in Nat
    BY <2>1
  <2>4. rounded(Align + SmallHeader) \in Nat
    BY <2>3, RoundedUp, AlignedHeaders
  <2>5. free_page_size > 0
    BY <1>4, <2>2, <2>4
  <2>6. PICK a : a = <<Head(small_pages), small_page_offs>>
    OBVIOUS
  <2>7. /\ a[1] = Head(small_pages) /\ a[2] = small_page_offs
        /\ Head(small_pages) \in ToSet(small_pages) /\ free_page_size = PageSize - small_page_offs
        /\ a \in Places /\ small_page_offs \in Aligned /\ free_page_size \in Aligned
        /\ \A i \in Slots : Clear(Pieces(small, free_small), a, i)
    BY <2>5, <2>6, CurrentPage
  <2>8. PICK w \in Aligned : w = free_page_size
    BY <2>7
  <2>9. w > 0 /\ w <= MaxSmall + SmallHeader
    BY <2>1, <2>2, <2>5, <2>8
  <2>10. slotOf(w) \in Slots /\ getSize(slotOf(w)) = w
    BY <2>9, SlotSizes
  <2>11. PICK i \in Slots : i = slotOf(w)
    BY <2>10
  <2>12. PushedOn(free_small, i, a, fs)
    BY <1>4, <2>6, <2>8, <2>11 DEF PushedOn, restOfPage, pushSmall
  <2>13. /\ SmallTyped(small, fs, small_page_offs) /\ SmallSound(small, fs)
         /\ Pieces(small, fs) = Pieces(small, free_small) \cup {<<a, i>>}
    <3>1. a \in Places /\ Clear(Pieces(small, free_small), a, i)
      BY <2>7
    <3> QED BY ONLY HeapAssumption, <1>1, <2>12, <3>1, RestFreed
  <2>14. a[2] + getSize(i) <= PageSize
    BY <2>1, <2>7, <2>8, <2>10, <2>11
  <2> QED BY <1>2, <2>7, <2>13, <2>14
<1> QED BY <1>3, <1>4

\* A new page becomes the current one.
LEMMA NewSmallStep ==
    ASSUME HeapAssumption, MallocFails = FALSE, Inv, ~destroyed, NEW n \in Sizes, n < MaxSmall,
           newSmallPage(n), UNCHANGED <<blocks, free_list, next_page, large, destroyed>>
    PROVE  Inv'
<1>1. PICK size : size = smallSize(n)
  OBVIOUS
<1>2. n \in Nat /\ slotOf(size) \in Slots /\ getSize(slotOf(size)) = size /\ size >= n + SmallHeader
      /\ size >= SmallHeader /\ size > 0 /\ size \in Aligned /\ size \in Nat
      /\ size <= MaxSmall + SmallHeader
  BY <1>1, SmallRequest
<1>3. PICK i \in Slots : i = slotOf(size)
  BY <1>2
<1>4. PICK q : q = NewPage
  OBVIOUS
<1>5. PICK a : a = <<q, PageHeader>>
  OBVIOUS
<1>6. /\ free_page_size < size /\ free_small' = restOfPage
      /\ CanTakePage /\ pages' = pages \cup {q}
      /\ small_pages' = <<q>> \o small_pages
      /\ small_page_offs' = PageHeader + size
      /\ takeSmall(a, i, n, PageSize)
  BY <1>1, <1>3, <1>4, <1>5 DEF newSmallPage
<1>7. q \in 1 .. MaxPages /\ q \notin pages
  BY <1>4, <1>6, NewPageFresh DEF Inv, PagesOK
<1>8. small' = put(small, a, i)
  BY <1>6 DEF takeSmall
<1>9. PageSize \in Nat /\ PageHeader \in Aligned /\ PageHeader \in Nat /\ MaxSmall \in Nat /\ SmallHeader \in Nat
  BY AlignedHeaders
<1>10. PageHeader + size \in Aligned /\ PageHeader + size <= PageSize
  <2>1. PageHeader + size \in Aligned
    BY <1>2, <1>9, AlignedSums
  <2>2. PageHeader + SmallHeader <= MaxSmall /\ 2 * MaxSmall <= PageSize
    BY DEF HeapAssumption
  <2> QED BY ONLY <1>2, <1>9, <2>1, <2>2
<1>11. /\ SmallTyped(small, free_small', small_page_offs) /\ SmallSound(small, free_small')
       /\ \A x \in Pieces(small, free_small') :
                 /\ x[1][1] \in ToSet(small_pages) /\ x[1][2] \in Aligned
                 /\ x[1][2] + getSize(x[2]) <= PageSize
  <2>1. small_page_offs \in Int
    BY AlignedHeaders DEF Inv, SmallOK, SmallTyped
  <2>2. free_page_size \in Int
    BY <1>9, <2>1 DEF free_page_size
  <2>3. free_page_size < MaxSmall + SmallHeader
    BY ONLY <1>2, <1>6, <1>9, <2>2
  <2>4. PICK fs : fs = free_small'
    OBVIOUS
  <2>5. fs = restOfPage
    BY <1>6, <2>4
  <2> QED BY ONLY HeapAssumption, Inv, ~destroyed, <2>3, <2>4, <2>5, RestStep
<1>12. q \notin ToSet(small_pages) /\ small_pages \in Seq(1 .. MaxPages)
  BY <1>7 DEF Inv, PagesOK
<1>13. /\ a \in Places /\ a[1] = q /\ a[2] = PageHeader
       /\ Clear(Pieces(small, free_small'), a, i)
  <2>1. a \in Places /\ a[1] = q /\ a[2] = PageHeader
    BY <1>5, <1>7, <1>9 DEF Places
  <2> QED BY <1>11, <1>12, <2>1 DEF Clear, Apart
<1>14. /\ SmallTyped(small', free_small', small_page_offs) /\ SmallSound(small', free_small')
       /\ Pieces(small', free_small') = Pieces(small, free_small') \cup {<<a, i>>}
       /\ OneMore(SmallSizes(small), SmallSizes(small'), a, getSize(i), SmallHeader)
  <2>1. getSize(i) >= SmallHeader
    BY <1>2, <1>3
  <2>2. SmallTyped(small, free_small', small_page_offs) /\ SmallSound(small, free_small')
    BY <1>11
  <2> QED BY ONLY HeapAssumption, <1>8, <1>13, <2>1, <2>2, SmallCarved
<1>15. /\ small_pages' \in Seq(1 .. MaxPages) /\ ToSet(small_pages') = ToSet(small_pages) \cup {q}
       /\ Head(small_pages') = q /\ small_pages' # << >> /\ Len(small_pages') = Len(small_pages) + 1
  <2>1. PICK S : S = 1 .. MaxPages
    OBVIOUS
  <2>2. q \in S /\ small_pages \in Seq(S)
    BY <1>7, <1>12, <2>1
  <2>3. PICK sp \in Seq(S) : sp = small_pages
    BY <2>2
  <2>4. PICK p \in S : p = q
    BY <2>2
  <2>5. PICK t : t = small_pages'
    OBVIOUS
  <2>6. IsBefore(p, sp, t)
    BY ONLY <1>6, <2>3, <2>4, <2>5 DEF IsBefore
  <2>7. /\ t \in Seq(S) /\ ToSet(t) = ToSet(sp) \cup {p} /\ Head(t) = p /\ t # << >>
        /\ Len(t) = Len(sp) + 1
    BY ONLY <2>6, PagePushed
  <2> QED BY <2>1, <2>3, <2>4, <2>5, <2>7
<1>16. SmallOK'
  <2>1. SmallTyped(small', free_small', small_page_offs')
    BY <1>6, <1>10, <1>14 DEF SmallTyped
  <2>2. Within(<<a, i>>, small_pages', small_page_offs')
    <3>1. getSize(i) = size
      BY <1>2, <1>3
    <3> QED BY <1>6, <1>9, <1>10, <1>13, <1>15, <3>1 DEF Within
  <2>3. ASSUME NEW x \in Pieces(small, free_small') PROVE Within(x, small_pages', small_page_offs')
    BY <1>11, <1>12, <1>15, <2>3 DEF Within
  <2> QED BY <1>14, <1>15, <2>1, <2>2, <2>3 DEF SmallOK
<1>17. HeldOK' /\ StatsOK'
  <2>1. getSize(i) >= n + SmallHeader /\ a \in Places /\ PageSize \in Nat
    BY <1>2, <1>3, <1>9, <1>13
  <2>2. PageSize * Len(small_pages') = PageSize * Len(small_pages) + PageSize
    <3>1. PageSize \in Nat /\ Len(small_pages) \in Nat
      BY <1>9, <1>12, LenProperties
    <3>2. PageSize * (Len(small_pages) + 1) = PageSize * Len(small_pages) + PageSize
      BY ONLY <3>1
    <3> QED BY <1>15, <3>2
  <2>3. HeldOK /\ StatsOK
    BY DEF Inv
  <2>4. blocks' = blocks /\ large' = large /\ destroyed' = destroyed
    OBVIOUS
  <2> QED BY ONLY HeapAssumption, ~destroyed, <1>2, <1>6, <1>14, <2>1, <2>2, <2>3, <2>4, SmallTaken
<1>18. PagesOK'
  BY <1>6, <1>7, <1>15 DEF Inv, PagesOK
<1>19. MediumOK' /\ ListOK' /\ LargeOK'
  BY OthersSame DEF Inv
<1> QED BY <1>16, <1>17, <1>18, <1>19 DEF Inv

\* A small block is given back.
LEMMA FreeSmallStep ==
    ASSUME HeapAssumption, Inv, NEW p \in held, p.type = "small", freeSmall(p)
    PROVE  Inv'
<1>1. PICK a : a = p.at
  OBVIOUS
<1>2. ~destroyed
  BY DEF Inv, PagesOK
<1>3. SmallTyped(small, free_small, small_page_offs) /\ SmallSound(small, free_small)
  BY <1>2 DEF Inv, SmallOK
<1>4. a \in DOMAIN small
  BY <1>1 DEF Inv, HeldOK, HeldIn, SmallSizes
<1>5. PICK i \in Slots : i = small[a]
  BY <1>3, <1>4 DEF SmallTyped
<1>6. /\ small' = Restrict(small, DOMAIN small \ {a})
      /\ PushedOn(free_small, i, a, free_small')
      /\ stats' = [stats EXCEPT !["small"] = registerFree(@, getSize(i), getSize(i) - SmallHeader)]
      /\ held' = held \ {p} /\ small_pages' = small_pages /\ small_page_offs' = small_page_offs
      /\ pages' = pages /\ blocks' = blocks /\ free_list' = free_list /\ next_page' = next_page
      /\ large' = large /\ destroyed' = destroyed
  BY <1>1, <1>5 DEF freeSmall, pushSmall, PushedOn
<1>7. PICK f : f = SmallSizes(small')
  OBVIOUS
<1>8. PICK g : g = SmallSizes(small)
  OBVIOUS
<1>9. /\ SmallTyped(small', free_small', small_page_offs) /\ SmallSound(small', free_small')
      /\ Pieces(small', free_small') = Pieces(small, free_small)
      /\ OneMore(SmallSizes(small'), SmallSizes(small), a, getSize(i), SmallHeader)
  <2>1. Shrunk(small, a, small') /\ PushedOn(free_small, i, a, free_small')
    BY <1>5, <1>6 DEF Shrunk
  <2> QED BY ONLY HeapAssumption, <1>3, <1>4, <1>5, <2>1, SmallFreed
<1>10. OneMore(f, g, a, getSize(i), SmallHeader)
  BY <1>7, <1>8, <1>9
<1>11. SmallOK'
  BY <1>6, <1>9 DEF Inv, SmallOK
<1>12. "small" \in Types /\ "medium" \in Types /\ "large" \in Types
  BY DEF Types
<1>13. HeldOK'
  <2>1. HeldTyped(held) /\ HeldIn(held, p.type, g, SmallHeader)
    BY <1>8 DEF Inv, HeldOK
  <2>2. held' = held \ {p} /\ OneMore(f, g, p.at, getSize(i), SmallHeader)
    BY <1>1, <1>6, <1>10
  <2>3. /\ HeldTyped(held') /\ HeldIn(held', p.type, f, SmallHeader)
        /\ \A u, e, h : HeldIn(held, u, e, h) => HeldIn(held', u, e, h)
    BY ONLY p \in held, <2>1, <2>2, HeldLess
  <2>4. HeldIn(held', "medium", UsedSizes(blocks), BlockHeader) /\ HeldIn(held', "large", large, BlockHeader)
    BY <2>3 DEF Inv, HeldOK
  <2> QED BY <1>6, <1>7, <2>3, <2>4 DEF HeldOK
<1>14. StatsOK'
  <2>1. PICK m : m = PageSize * Len(small_pages)
    OBVIOUS
  <2>2. stats["small"] = Entry(g, SmallHeader, m) /\ DOMAIN stats = Types
    BY <1>2, <1>8, <2>1 DEF Inv, StatsOK
  <2>3. registerFree(Entry(g, SmallHeader, m), getSize(i), getSize(i) - SmallHeader) = Entry(f, SmallHeader, m)
    BY ONLY <1>10, EntryMore
  <2>4. stats' = [stats EXCEPT !["small"] = Entry(f, SmallHeader, m)]
    BY ONLY <1>6, <2>2, <2>3
  <2>5. /\ stats'["small"] = Entry(f, SmallHeader, m) /\ stats'["medium"] = stats["medium"]
        /\ stats'["large"] = stats["large"] /\ DOMAIN stats' = Types
    BY ONLY <1>12, <2>2, <2>4
  <2> QED BY <1>6, <1>7, <2>1, <2>5 DEF Inv, StatsOK
<1>15. PagesOK'
  BY <1>2, <1>6 DEF Inv, PagesOK
<1>16. MediumOK' /\ ListOK' /\ LargeOK'
  BY <1>6, OthersSame DEF Inv
<1> QED BY <1>11, <1>13, <1>14, <1>15, <1>16 DEF Inv

-----------------------------------------------------------------------------
(* The steps: large blocks.                                                *)

\* The memory of a new large block is no other's.
Start(b) == <<b, 0>>

LEMMA NewLargeFresh ==
    ASSUME HeapAssumption, LargeOK, Cardinality(DOMAIN large) < MaxLarge,
           NEW b, b = Min((MaxPages + 1 .. MaxPages + MaxLarge) \ {a[1] : a \in DOMAIN large})
    PROVE  b \in Nat /\ b > MaxPages /\ <<b, 0>> \in Places /\ <<b, 0>> \notin DOMAIN large
<1>1. MaxPages \in Nat /\ MaxLarge \in Nat
  BY DEF HeapAssumption
<1>2. PICK I : I = MaxPages + 1 .. MaxPages + MaxLarge
  OBVIOUS
<1>3. PICK D : D = DOMAIN large
  OBVIOUS
<1>4. IsFiniteSet(D) /\ \A a \in D : a \in Places /\ a[2] = 0
  BY <1>3 DEF LargeOK
<1>5. PICK T : T = I \ {a[1] : a \in D}
  OBVIOUS
<1>6. T # {}
  <2>1. SUFFICES ASSUME T = {} PROVE FALSE
    OBVIOUS
  <2>2. \A i \in I : <<i, 0>> \in D
    BY <1>4, <1>5, <2>1 DEF Places
  <2>3. PICK f : f = [i \in I |-> Start(i)]
    OBVIOUS
  <2>4. f \in Injection(I, D)
    <3>1. \A i \in I : Start(i) \in D
      BY ONLY <2>2 DEF Start
    <3>2. ASSUME NEW i, NEW j, Start(i) = Start(j) PROVE i = j
      <4>1. Start(i)[1] = i /\ Start(j)[1] = j
        BY DEF Start
      <4> QED BY <3>2, <4>1
    <3>3. f \in [I -> D]
      BY ONLY <2>3, <3>1
    <3>4. \A x, y \in I : f[x] = f[y] => x = y
      BY <2>3, <3>2
    <3> QED BY ONLY <3>3, <3>4 DEF Injection, IsInjective
  <2>5. Cardinality(I) <= Cardinality(D)
    BY ONLY <1>4, <2>4, FS_Injection
  <2>6. Cardinality(I) = MaxLarge
    <3>1. PICK u \in Int : u = MaxPages + 1
      BY <1>1
    <3>2. PICK v \in Int : v = MaxPages + MaxLarge
      BY <1>1
    <3>3. Cardinality(u .. v) = IF u > v THEN 0 ELSE v - u + 1
      BY FS_Interval
    <3> QED BY <1>1, <1>2, <3>1, <3>2, <3>3
  <2>7. Cardinality(D) \in Nat
    BY ONLY <1>4, FS_CardinalityType
  <2> QED BY <1>1, <1>3, <2>5, <2>6, <2>7
<1>7. T \in SUBSET Nat
  BY <1>1, <1>2, <1>5
<1>8. Min(T) \in T
  BY <1>6, <1>7, MinIsLeast
<1>9. b \in I /\ b \notin {a[1] : a \in D}
  BY <1>2, <1>3, <1>5, <1>8
<1>10. b \in Nat /\ b > MaxPages
  BY <1>1, <1>2, <1>9
<1>11. <<b, 0>> \notin D
  <2>1. SUFFICES ASSUME NEW a \in D, a = <<b, 0>> PROVE FALSE
    OBVIOUS
  <2>2. a[1] = b
    BY ONLY <2>1
  <2> QED BY <1>9, <2>2
<1> QED BY <1>3, <1>10, <1>11 DEF Places

\* The size of a medium or large block.
LEMMA BlockRequest ==
    ASSUME HeapAssumption, NEW n \in Sizes, NEW size, size = blockSize(n)
    PROVE  /\ n \in Nat /\ size \in Aligned /\ size \in Nat /\ size >= n + BlockHeader /\ size >= BlockHeader
           /\ n + BlockHeader \in Nat
<1>1. n \in Nat
  BY DEF HeapAssumption
<1>2. BlockHeader \in Nat
  BY AlignedHeaders
<1>3. n + BlockHeader \in Nat
  BY <1>1, <1>2
<1>4. size \in Aligned /\ size >= n + BlockHeader
  BY <1>3, RoundedUp DEF blockSize
<1>5. size \in Nat
  BY <1>4, AlignedHeaders
<1>6. size >= BlockHeader
  BY ONLY <1>1, <1>2, <1>4, <1>5
<1> QED BY <1>1, <1>3, <1>4, <1>5, <1>6

\* What a step of the large blocks leaves alone.
LEMMA RestSame ==
    ASSUME MediumOK, ListOK, SmallOK, PagesOK, ~destroyed,
           UNCHANGED <<blocks, free_list, next_page, small_pages, small_page_offs, free_small,
                       small, pages, destroyed>>
    PROVE  MediumOK' /\ ListOK' /\ SmallOK' /\ PagesOK'
<1>1. MediumOK'
  BY DEF MediumOK
<1>2. ListOK'
  BY DEF ListOK
<1>3. SmallOK'
  BY DEF SmallOK
<1>4. PagesOK'
  BY DEF PagesOK
<1> QED BY <1>1, <1>2, <1>3, <1>4

\* The system gives a large block.
LEMMA AllocLargeStep ==
    ASSUME HeapAssumption, Inv, ~destroyed, NEW n \in Sizes, allocLarge(n)
    PROVE  Inv'
<1>1. PICK size : size = blockSize(n)
  OBVIOUS
<1>2. n \in Nat /\ size \in Nat /\ size >= n + BlockHeader /\ size >= BlockHeader
  BY <1>1, BlockRequest
<1>3. PICK b : b = Min((MaxPages + 1 .. MaxPages + MaxLarge) \ {a[1] : a \in DOMAIN large})
  OBVIOUS
<1>4. PICK a : a = <<b, 0>>
  OBVIOUS
<1>5. /\ Cardinality(DOMAIN large) < MaxLarge
      /\ large' = put(large, a, size)
      /\ stats' = [stats EXCEPT !["large"] = registerAlloc(allocated(@, size), size, size - BlockHeader)]
      /\ held' = held \cup {[type |-> "large", at |-> a, size |-> n]}
      /\ UNCHANGED <<blocks, free_list, next_page, small_pages, small_page_offs, free_small,
                     small, pages, destroyed>>
  BY <1>1, <1>3, <1>4 DEF allocLarge, returned
<1>6. b > MaxPages /\ a \in Places /\ a \notin DOMAIN large /\ a[1] = b /\ a[2] = 0
  BY <1>3, <1>4, <1>5, NewLargeFresh DEF Inv
<1>7. PICK f : f = large
  OBVIOUS
<1>8. PICK g : g = large'
  OBVIOUS
<1>9. DOMAIN g = DOMAIN f \cup {a} /\ g[a] = size /\ \A x \in DOMAIN f : g[x] = f[x]
  <2>1. g = put(f, a, size)
    BY <1>5, <1>7, <1>8
  <2>2. g = [x \in DOMAIN f \cup {a} |-> IF x = a THEN size ELSE f[x]]
    BY ONLY <2>1 DEF put
  <2> QED BY ONLY <1>6, <1>7, <2>2
<1>10. /\ IsFiniteSet(DOMAIN f) /\ BlockHeader \in Nat
       /\ \A x \in DOMAIN f : x \in Places /\ x[1] > MaxPages /\ x[2] = 0
       /\ \A x \in DOMAIN f : f[x] \in Nat /\ f[x] >= BlockHeader
  BY <1>7, AlignedHeaders DEF Inv, LargeOK
<1>11. OneMore(f, g, a, size, BlockHeader)
  BY <1>2, <1>6, <1>7, <1>9, <1>10 DEF OneMore
<1>12. LargeOK'
  <2>1. IsFiniteSet(DOMAIN g)
    BY <1>9, <1>10, FS_AddElement
  <2> QED BY <1>2, <1>6, <1>8, <1>9, <1>10, <2>1 DEF LargeOK
<1>13. "small" \in Types /\ "medium" \in Types /\ "large" \in Types
  BY DEF Types
<1>14. PICK t \in Types : t = "large"
  BY <1>13
<1>15. HeldOK'
  <2>1. HeldTyped(held) /\ HeldIn(held, t, f, BlockHeader)
    BY <1>7, <1>14 DEF Inv, HeldOK
  <2>2. held' = held \cup {[type |-> t, at |-> a, size |-> n]}
    BY <1>5, <1>14
  <2>3. /\ HeldTyped(held') /\ HeldIn(held', t, g, BlockHeader)
        /\ \A u, e, h : u # t /\ HeldIn(held, u, e, h) => HeldIn(held', u, e, h)
    BY ONLY <1>2, <1>6, <1>11, <2>1, <2>2, HeldMore
  <2>4. HeldIn(held', "small", SmallSizes(small), SmallHeader)
        /\ HeldIn(held', "medium", UsedSizes(blocks), BlockHeader)
    BY <1>14, <2>3 DEF Inv, HeldOK
  <2> QED BY <1>5, <1>8, <1>14, <2>3, <2>4 DEF HeldOK
<1>16. StatsOK'
  <2>1. PICK m : m = Total(f)
    OBVIOUS
  <2>2. PICK k : k = m + size
    OBVIOUS
  <2>3. stats[t] = Entry(f, BlockHeader, m) /\ DOMAIN stats = Types
    BY <1>7, <1>14, <2>1 DEF Inv, StatsOK
  <2>4. stats' = [stats EXCEPT ![t] = registerAlloc(allocated(@, size), size, size - BlockHeader)]
    BY ONLY <1>5, <1>14
  <2>5. /\ stats'[t] = Entry(g, BlockHeader, k) /\ DOMAIN stats' = Types
        /\ \A u \in Types : u # t => stats'[u] = stats[u]
    BY ONLY <1>11, <2>2, <2>3, <2>4, StatsMore
  <2>6. /\ stats'["large"] = Entry(g, BlockHeader, k) /\ stats'["medium"] = stats["medium"]
        /\ stats'["small"] = stats["small"] /\ DOMAIN stats' = Types
    BY ONLY <1>13, <1>14, <2>5
  <2>7. k = Total(g)
    BY ONLY <1>11, <2>1, <2>2, SumsMore
  <2> QED BY <1>5, <1>8, <2>6, <2>7 DEF Inv, StatsOK
<1>17. MediumOK' /\ ListOK' /\ SmallOK' /\ PagesOK'
  BY <1>5, RestSame DEF Inv
<1> QED BY <1>12, <1>15, <1>16, <1>17 DEF Inv

\* The system has a large block back.
LEMMA FreeLargeStep ==
    ASSUME HeapAssumption, Inv, NEW p \in held, p.type = "large", freeLarge(p)
    PROVE  Inv'
<1>1. PICK a : a = p.at
  OBVIOUS
<1>2. PICK size : size = large[a]
  OBVIOUS
<1>3. ~destroyed
  BY DEF Inv, PagesOK
<1>4. PICK g : g = large
  OBVIOUS
<1>5. PICK f : f = large'
  OBVIOUS
<1>6. a \in DOMAIN g
  BY <1>1, <1>4 DEF Inv, HeldOK, HeldIn
<1>7. /\ large' = Restrict(large, DOMAIN large \ {a})
      /\ stats' = [stats EXCEPT !["large"] = registerFree(released(@, size), size, size - BlockHeader)]
      /\ held' = held \ {p}
      /\ UNCHANGED <<blocks, free_list, next_page, small_pages, small_page_offs, free_small,
                     small, pages, destroyed>>
  BY <1>1, <1>2 DEF freeLarge
<1>8. DOMAIN f = DOMAIN g \ {a} /\ \A x \in DOMAIN f : f[x] = g[x]
  BY <1>4, <1>5, <1>7 DEF Restrict
<1>9. /\ IsFiniteSet(DOMAIN g) /\ BlockHeader \in Nat
      /\ \A x \in DOMAIN g : x \in Places /\ x[1] > MaxPages /\ x[2] = 0
      /\ \A x \in DOMAIN g : g[x] \in Nat /\ g[x] >= BlockHeader
  BY <1>4, AlignedHeaders DEF Inv, LargeOK
<1>10. IsFiniteSet(DOMAIN f)
  BY <1>8, <1>9, FS_RemoveElement
<1>11. OneMore(f, g, a, size, BlockHeader)
  BY <1>2, <1>4, <1>6, <1>8, <1>9, <1>10 DEF OneMore
<1>12. LargeOK'
  BY <1>5, <1>8, <1>9, <1>10 DEF LargeOK
<1>13. "small" \in Types /\ "medium" \in Types /\ "large" \in Types
  BY DEF Types
<1>14. PICK t \in Types : t = "large"
  BY <1>13
<1>15. HeldOK'
  <2>1. HeldTyped(held) /\ HeldIn(held, p.type, g, BlockHeader)
    BY <1>4 DEF Inv, HeldOK
  <2>2. held' = held \ {p} /\ OneMore(f, g, p.at, size, BlockHeader)
    BY <1>1, <1>7, <1>11
  <2>3. /\ HeldTyped(held') /\ HeldIn(held', p.type, f, BlockHeader)
        /\ \A u, e, h : HeldIn(held, u, e, h) => HeldIn(held', u, e, h)
    BY ONLY p \in held, <2>1, <2>2, HeldLess
  <2>4. HeldIn(held', "small", SmallSizes(small), SmallHeader)
        /\ HeldIn(held', "medium", UsedSizes(blocks), BlockHeader)
    BY <2>3 DEF Inv, HeldOK
  <2> QED BY <1>5, <1>7, <2>3, <2>4 DEF HeldOK
<1>16. StatsOK'
  <2>1. PICK m : m = Total(g)
    OBVIOUS
  <2>2. PICK k : k = m - size
    OBVIOUS
  <2>3. stats[t] = Entry(g, BlockHeader, m) /\ DOMAIN stats = Types
    BY <1>3, <1>4, <1>14, <2>1 DEF Inv, StatsOK
  <2>4. stats' = [stats EXCEPT ![t] = registerFree(released(@, size), size, size - BlockHeader)]
    BY ONLY <1>7, <1>14
  <2>5. /\ stats'[t] = Entry(f, BlockHeader, k) /\ DOMAIN stats' = Types
        /\ \A u \in Types : u # t => stats'[u] = stats[u]
    BY ONLY <1>11, <2>2, <2>3, <2>4, StatsLess
  <2>6. /\ stats'["large"] = Entry(f, BlockHeader, k) /\ stats'["medium"] = stats["medium"]
        /\ stats'["small"] = stats["small"] /\ DOMAIN stats' = Types
    BY ONLY <1>13, <1>14, <2>5
  <2>7. k = Total(f)
    <3>1. Total(f) \in Nat /\ Total(g) = Total(f) + size /\ size \in Nat
      BY ONLY <1>11, SumsMore
    <3> QED BY ONLY <2>1, <2>2, <3>1
  <2> QED BY <1>3, <1>5, <1>7, <2>6, <2>7 DEF Inv, StatsOK
<1>17. MediumOK' /\ ListOK' /\ SmallOK' /\ PagesOK'
  <2>1. UNCHANGED <<blocks, free_list, next_page, small_pages, small_page_offs, free_small,
                    small, pages, destroyed>>
    BY <1>7
  <2> QED BY <1>3, <2>1, RestSame DEF Inv
<1> QED BY <1>12, <1>15, <1>16, <1>17 DEF Inv

-----------------------------------------------------------------------------
(* The steps: medium blocks taken.                                         *)

\* One more block of the list is in use.
LEMMA UsedMore ==
    ASSUME HeapAssumption, NEW bs, ChainOK(bs), NEW c, ChainOK(c),
           NEW a, a \notin Used(bs), Used(c) = Used(bs) \cup {a},
           \A x \in Used(bs) : Size(c, x) = Size(bs, x), NEW w, w = Size(c, a)
    PROVE  OneMore(UsedSizes(bs), UsedSizes(c), a, w, BlockHeader)
<1>1. PICK f : f = UsedSizes(bs)
  OBVIOUS
<1>2. PICK g : g = UsedSizes(c)
  OBVIOUS
<1>3. /\ DOMAIN f = Used(bs) /\ IsFiniteSet(Used(bs)) /\ \A x \in Used(bs) : f[x] = Size(bs, x)
      /\ \A x \in At(bs) : Size(bs, x) \in Nat /\ Size(bs, x) >= BlockHeader
  BY <1>1, Summands
<1>4. /\ DOMAIN g = Used(c) /\ \A x \in Used(c) : g[x] = Size(c, x)
      /\ \A x \in At(c) : Size(c, x) \in Nat /\ Size(c, x) >= BlockHeader
  BY <1>2, Summands
<1>5. Used(bs) \subseteq At(bs) /\ a \in At(c)
  BY DEF Used
<1>6. BlockHeader \in Nat
  BY AlignedHeaders
<1>7. OneMore(f, g, a, w, BlockHeader)
  BY <1>3, <1>4, <1>5, <1>6 DEF OneMore
<1> QED BY <1>1, <1>2, <1>7

\* The pointers and the statistics when a block of the list bs, the blocks and alloc bytes
\* of a new page, is taken.
LEMMA MediumTaken ==
    ASSUME HeapAssumption, Inv, ~destroyed, NEW n \in Nat, NEW size \in Nat, size >= n + BlockHeader,
           NEW bs, Used(bs) = Used(blocks), \A x \in Used(blocks) : Size(bs, x) = Size(blocks, x),
           NEW alloc \in Nat, Total(SizesOf(bs)) = Total(SizesOf(blocks)) + alloc,
           NEW y \in Places, NEW w \in Nat, Carved(bs, y, w, size, n, alloc),
           UNCHANGED <<small_pages, small_page_offs, free_small, small, large, destroyed>>
    PROVE  ListOK' /\ SmallOK' /\ LargeOK' /\ HeldOK' /\ StatsOK'
<1>1. /\ Taken(bs, blocks', free_list', y) /\ Size(blocks', y) = w /\ w >= size
      /\ stats' = [stats EXCEPT !["medium"] = registerAlloc(allocated(@, alloc), w, w - BlockHeader)]
      /\ held' = held \cup {[type |-> "medium", at |-> y, size |-> n]}
  BY DEF Carved, returned
<1>2. /\ ChainOK(blocks') /\ FreeOK(blocks', free_list') /\ FewPages(blocks', free_list')
      /\ y \notin Used(bs) /\ Used(blocks') = Used(bs) \cup {y}
      /\ \A x \in Used(bs) : Size(blocks', x) = Size(bs, x)
      /\ Total(SizesOf(blocks')) = Total(SizesOf(bs))
  BY <1>1 DEF Taken
<1>3. PICK f : f = UsedSizes(blocks)
  OBVIOUS
<1>4. PICK c : c = blocks'
  OBVIOUS
<1>5. PICK g : g = UsedSizes(c)
  OBVIOUS
<1>6. OneMore(f, g, y, w, BlockHeader)
  <2>1. /\ ChainOK(blocks) /\ ChainOK(c) /\ y \notin Used(blocks) /\ Used(c) = Used(blocks) \cup {y}
        /\ w = Size(c, y) /\ \A x \in Used(blocks) : Size(c, x) = Size(blocks, x)
    BY <1>1, <1>2, <1>4 DEF Inv, MediumOK
  <2> QED BY ONLY HeapAssumption, <1>3, <1>5, <2>1, UsedMore
<1>7. ListOK'
  BY <1>2 DEF ListOK
<1>8. SmallOK'
  BY DEF Inv, SmallOK
<1>9. LargeOK'
  BY DEF Inv, LargeOK
<1>10. "small" \in Types /\ "medium" \in Types /\ "large" \in Types
  BY DEF Types
<1>11. PICK t \in Types : t = "medium"
  BY <1>10
<1>12. w >= n + BlockHeader
  <2>1. BlockHeader \in Nat
    BY AlignedHeaders
  <2> QED BY <1>1, <2>1
<1>13. HeldOK'
  <2>1. HeldTyped(held) /\ HeldIn(held, t, f, BlockHeader)
    BY <1>3, <1>11 DEF Inv, HeldOK
  <2>2. held' = held \cup {[type |-> t, at |-> y, size |-> n]}
    BY <1>1, <1>11
  <2>3. /\ HeldTyped(held') /\ HeldIn(held', t, g, BlockHeader)
        /\ \A u, e, h : u # t /\ HeldIn(held, u, e, h) => HeldIn(held', u, e, h)
    BY ONLY n \in Nat, y \in Places, <1>6, <1>12, <2>1, <2>2, HeldMore
  <2>4. HeldIn(held', "small", SmallSizes(small), SmallHeader)
        /\ HeldIn(held', "large", large, BlockHeader)
    BY <1>11, <2>3 DEF Inv, HeldOK
  <2> QED BY <1>4, <1>5, <1>11, <2>3, <2>4 DEF HeldOK
<1>14. StatsOK'
  <2>1. PICK m : m = Total(SizesOf(blocks))
    OBVIOUS
  <2>2. PICK k : k = m + alloc
    OBVIOUS
  <2>3. stats[t] = Entry(f, BlockHeader, m) /\ DOMAIN stats = Types
    BY <1>3, <1>11, <2>1 DEF Inv, StatsOK
  <2>4. stats' = [stats EXCEPT ![t] = registerAlloc(allocated(@, alloc), w, w - BlockHeader)]
    BY ONLY <1>1, <1>11
  <2>5. /\ stats'[t] = Entry(g, BlockHeader, k) /\ DOMAIN stats' = Types
        /\ \A u \in Types : u # t => stats'[u] = stats[u]
    BY ONLY <1>6, <2>2, <2>3, <2>4, StatsMore
  <2>6. /\ stats'["medium"] = Entry(g, BlockHeader, k) /\ stats'["small"] = stats["small"]
        /\ stats'["large"] = stats["large"] /\ DOMAIN stats' = Types
    BY ONLY <1>10, <1>11, <2>5
  <2>7. k = Total(SizesOf(blocks'))
    BY <1>2, <2>1, <2>2
  <2> QED BY <1>4, <1>5, <2>6, <2>7 DEF Inv, StatsOK
<1> QED BY <1>7, <1>8, <1>9, <1>13, <1>14

\* The bytes of a list are a number.
LEMMA BytesNumber ==
    ASSUME HeapAssumption, NEW bs, ChainOK(bs)
    PROVE  Total(SizesOf(bs)) \in Nat
<1>1. PICK f : f = SizesOf(bs)
  OBVIOUS
<1>2. IsFiniteSet(DOMAIN f) /\ \A x \in DOMAIN f : f[x] \in Nat
  BY <1>1, Summands
<1> QED BY <1>1, <1>2, BytesFinite

\* A medium request is large enough for the links of a free block.
LEMMA MediumRequest ==
    ASSUME HeapAssumption, NEW n \in Sizes, n >= MaxSmall, NEW size, size = blockSize(n)
    PROVE  size >= FreeHeader /\ PageSize \div 2 \in Nat /\ PageSize \div 2 < PageSize
<1>1. n \in Nat /\ size \in Nat /\ size >= n + BlockHeader
  BY BlockRequest
<1>2. BlockHeader \in Nat /\ FreeHeader \in Nat /\ MaxSmall \in Nat /\ PageSize \in Nat
  BY AlignedHeaders
<1>3. MaxSmall \div 2 \in Nat /\ MaxSmall \div 2 <= MaxSmall /\ FreeHeader <= MaxSmall \div 2
  <2>1. FreeHeader <= MaxSmall \div 2
    BY DEF HeapAssumption
  <2> QED BY ONLY <1>2, <2>1
<1>4. size >= FreeHeader
  <2>1. PICK h \in Nat : h = MaxSmall \div 2
    BY <1>3
  <2> QED BY ONLY <1>1, <1>2, <1>3, <2>1, n >= MaxSmall
<1>5. PageSize # 0
  BY DEF HeapAssumption
<1>6. PageSize \div 2 \in Nat /\ PageSize \div 2 < PageSize
  BY ONLY <1>2, <1>5
<1> QED BY <1>4, <1>6

\* A free block of the list is large enough.
LEMMA FitStep ==
    ASSUME HeapAssumption, Inv, ~destroyed, NEW n \in Sizes, n >= MaxSmall,
           NEW size, size = blockSize(n), bestFit(size) # 0,
           carve(blocks, free_list, free_list[bestFit(size)], size, n, 0),
           UNCHANGED <<next_page, small_pages, small_page_offs, free_small, small, large,
                       pages, destroyed>>
    PROVE  Inv'
<1>1. n \in Nat /\ size \in Aligned /\ size \in Nat /\ size >= n + BlockHeader /\ size >= FreeHeader
  BY BlockRequest, MediumRequest
<1>2. ChainOK(blocks) /\ NoneAdjoin(blocks) /\ FreeOK(blocks, free_list) /\ FewPages(blocks, free_list)
  BY DEF Inv, MediumOK, ListOK
<1>3. \A x \in At(blocks) : Size(blocks, x) \in Nat
  BY <1>2, Summands
<1>4. PICK F : F = FreeAt(blocks)
  OBVIOUS
<1>5. ListFor(blocks, free_list, F) /\ \A x \in F : Size(blocks, x) \in Nat
  BY <1>2, <1>3, <1>4 DEF FreeOK, FreeAt, At
<1>6. PICK a \in F : a = free_list[bestFit(size)] /\ Size(blocks, a) >= size
  <2>1. free_list[bestFit(size)] \in F /\ Size(blocks, free_list[bestFit(size)]) >= size
    BY <1>1, <1>5, BestFit
  <2> QED BY <2>1
<1>7. PICK y \in Places, w \in Nat : Carved(blocks, y, w, size, n, 0)
  <2>1. a \in FreeAt(blocks) /\ size <= Size(blocks, a) /\ carve(blocks, free_list, a, size, n, 0)
    BY <1>1, <1>4, <1>5, <1>6
  <2> QED BY ONLY HeapAssumption, <1>1, <1>2, <2>1, CarveTakes
<1>8. ListOK' /\ SmallOK' /\ LargeOK' /\ HeldOK' /\ StatsOK'
  <2>1. Total(SizesOf(blocks)) = Total(SizesOf(blocks)) + 0 /\ 0 \in Nat
    <3>1. Total(SizesOf(blocks)) \in Nat
      BY <1>2, BytesNumber
    <3> QED BY <3>1
  <2>2. /\ Used(blocks) = Used(blocks) /\ (\A x \in Used(blocks) : Size(blocks, x) = Size(blocks, x))
        /\ UNCHANGED <<small_pages, small_page_offs, free_small, small, large, destroyed>>
    OBVIOUS
  <2> QED BY ONLY HeapAssumption, Inv, ~destroyed, <1>1, <1>7, <2>1, <2>2, MediumTaken
<1>9. /\ ChainOK(blocks') /\ NoneAdjoin(blocks') /\ PagesOf(blocks') = PagesOf(blocks)
      /\ NumbersOf(blocks') \subseteq NumbersOf(blocks)
  BY <1>7 DEF Carved, Taken
<1>10. MediumOK'
  BY <1>9 DEF Inv, MediumOK
<1>11. PagesOK'
  BY <1>9 DEF Inv, PagesOK
<1> QED BY <1>8, <1>10, <1>11 DEF Inv

\* A larger block comes to the head of the list.
LEMMA ListPushed ==
    ASSUME NEW bs, NEW fl, NEW F, ListFor(bs, fl, F), NEW a \in Places, a \notin F,
           \A x \in F : Size(bs, a) >= Size(bs, x), NEW gl, IsBefore(a, fl, gl)
    PROVE  /\ ListFor(bs, gl, F \cup {a}) /\ Len(gl) = Len(fl) + 1 /\ Len(fl) \in Nat
           /\ \A j \in 1 .. Len(fl) + 1 : j # 1 => j - 1 \in 1 .. Len(fl) /\ gl[j] = fl[j - 1]
<1>1. /\ fl \in Seq(Places) /\ F = {fl[i] : i \in 1 .. Len(fl)}
      /\ \A i, j \in 1 .. Len(fl) : fl[i] = fl[j] => i = j
      /\ \A i, j \in 1 .. Len(fl) : i < j => Size(bs, fl[i]) >= Size(bs, fl[j])
  BY DEF ListFor
<1>2. PICK S : S = Places
  OBVIOUS
<1>3. /\ gl \in Seq(S) /\ Len(gl) = Len(fl) + 1 /\ gl[1] = a
      /\ \A j \in 1 .. Len(fl) : j + 1 \in 1 .. Len(fl) + 1 /\ gl[j + 1] = fl[j]
      /\ \A j \in 1 .. Len(fl) + 1 : j # 1 => j - 1 \in 1 .. Len(fl) /\ gl[j] = fl[j - 1]
  <2>1. fl \in Seq(S) /\ a \in S
    BY <1>1, <1>2
  <2> QED BY ONLY <2>1, IsBefore(a, fl, gl), PagePushed
<1>4. Len(fl) \in Nat
  BY <1>1, LenProperties
<1>5. \A j \in 1 .. Len(gl) : j # 1 => j - 1 \in 1 .. Len(fl) /\ gl[j] = fl[j - 1] /\ gl[j] \in F
  BY <1>1, <1>3
<1>6. F \cup {a} = {gl[i] : i \in 1 .. Len(gl)}
  <2>1. ASSUME NEW x \in F \cup {a} PROVE x \in {gl[i] : i \in 1 .. Len(gl)}
    <3>1. CASE x = a
      BY <1>3, <1>4, <3>1
    <3>2. CASE x \in F
      <4>1. PICK i \in 1 .. Len(fl) : x = fl[i]
        BY <1>1, <3>2
      <4> QED BY <1>3, <4>1
    <3> QED BY <3>1, <3>2
  <2>2. ASSUME NEW i \in 1 .. Len(gl) PROVE gl[i] \in F \cup {a}
    BY <1>3, <1>5
  <2> QED BY <2>1, <2>2
<1>7. ASSUME NEW i \in 1 .. Len(gl), NEW j \in 1 .. Len(gl), gl[i] = gl[j] PROVE i = j
  <2>1. CASE i = 1 \/ j = 1
    BY <1>3, <1>5, <1>7, <2>1
  <2>2. CASE i # 1 /\ j # 1
    <3>1. i - 1 \in 1 .. Len(fl) /\ j - 1 \in 1 .. Len(fl) /\ fl[i - 1] = fl[j - 1]
      BY <1>5, <1>7, <2>2
    <3>2. i - 1 = j - 1
      BY <1>1, <3>1
    <3> QED BY <1>3, <1>4, <3>2
  <2> QED BY <2>1, <2>2
<1>8. ASSUME NEW i \in 1 .. Len(gl), NEW j \in 1 .. Len(gl), i < j
      PROVE  Size(bs, gl[i]) >= Size(bs, gl[j])
  <2>1. j # 1
    BY <1>3, <1>4, <1>8
  <2>2. CASE i = 1
    BY <1>3, <1>5, <2>1, <2>2
  <2>3. CASE i # 1
    <3>1. i - 1 \in 1 .. Len(fl) /\ j - 1 \in 1 .. Len(fl) /\ gl[i] = fl[i - 1] /\ gl[j] = fl[j - 1]
      BY <1>5, <2>1, <2>3
    <3>2. i - 1 < j - 1
      BY <1>3, <1>4, <1>8
    <3> QED BY <1>1, <3>1, <3>2
  <2> QED BY <2>2, <2>3
<1>9. ListFor(bs, gl, F \cup {a})
  BY <1>2, <1>3, <1>6, <1>7, <1>8 DEF ListFor
<1> QED BY <1>3, <1>4, <1>9

\* No free block is large enough and a new page is split.
LEMMA PageStep ==
    ASSUME HeapAssumption, MaxNextPage < PageIdMod, Inv, ~destroyed, NEW n \in Sizes, n >= MaxSmall,
           NEW size, size = blockSize(n), bestFit(size) = 0, size <= PageSize \div 2,
           newMediumPage(size, n)
    PROVE  Inv'
<1>1. n \in Nat /\ size \in Aligned /\ size \in Nat /\ size >= n + BlockHeader /\ size >= FreeHeader
      /\ PageSize \div 2 \in Nat /\ PageSize \div 2 < PageSize
  BY BlockRequest, MediumRequest
<1>2. PageSize \in Nat /\ size < PageSize
  <2>1. PageSize \in Nat
    BY AlignedHeaders
  <2> QED BY <1>1, <2>1
<1>3. ChainOK(blocks) /\ NoneAdjoin(blocks) /\ FreeOK(blocks, free_list) /\ FewPages(blocks, free_list)
      /\ next_page \in 1 .. MaxNextPage /\ \A m \in NumbersOf(blocks) : m < next_page
  BY DEF Inv, MediumOK, ListOK
<1>4. PICK q : q = NewPage
  OBVIOUS
<1>5. PICK a : a = <<q, 0>>
  OBVIOUS
<1>6. PICK b : b = [at |-> a, page |-> next_page, size |-> PageSize, is_free |-> TRUE]
  OBVIOUS
<1>7. PICK bs : bs = <<b>> \o blocks
  OBVIOUS
<1>8. PICK fl : fl = <<a>> \o free_list
  OBVIOUS
<1>9. /\ CanTakePage /\ next_page < MaxNextPage /\ next_page' = (next_page + 1) % PageIdMod
      /\ pages' = pages \cup {q} /\ carve(bs, fl, a, size, n, PageSize)
      /\ UNCHANGED <<small_pages, small_page_offs, free_small, small, large, destroyed>>
  BY <1>4, <1>5, <1>6, <1>7, <1>8 DEF newMediumPage
<1>10. q \in 1 .. MaxPages /\ q \notin pages /\ MaxPages \in Nat
  BY <1>4, <1>9, NewPageFresh DEF Inv, PagesOK, HeapAssumption
<1>11. q \notin PagesOf(blocks) /\ q \notin ToSet(small_pages)
  BY <1>10 DEF Inv, PagesOK
<1>12. next_page \in Nat /\ NewNumber(blocks, next_page) /\ MaxNextPage \in Nat /\ PageIdMod \in Nat
  <2>1. PageIdMod \in Nat /\ MaxNextPage \in 1 .. PageIdMod
    BY DEF HeapAssumption
  <2>2. next_page \in Nat /\ MaxNextPage \in Nat
    BY <1>3, <2>1
  <2>3. ASSUME NEW i \in 1 .. Len(blocks) PROVE Number(blocks, i) # next_page
    <3>1. Number(blocks, i) \in NumbersOf(blocks)
      BY DEF NumbersOf
    <3>2. ~(next_page < next_page)
      BY ONLY <2>2
    <3> QED BY ONLY <1>3, <3>1, <3>2
  <2> QED BY <2>1, <2>2, <2>3 DEF NewNumber
<1>13. IsPushed(blocks, bs, q, next_page)
  <2>1. blocks \in Seq(Blocks)
    BY <1>3 DEF ChainOK
  <2>2. b = [at |-> <<q, 0>>, page |-> next_page, size |-> PageSize, is_free |-> TRUE]
    BY ONLY <1>5, <1>6
  <2>3. q \in 1 .. MaxPages /\ next_page \in Nat
    BY <1>10, <1>12
  <2> QED BY ONLY HeapAssumption, <1>7, <2>1, <2>2, <2>3, Pushed
<1>14. /\ ChainOK(bs) /\ NoneAdjoin(bs) /\ PagesOf(bs) = PagesOf(blocks) \cup {q}
       /\ a \notin At(blocks) /\ At(bs) = At(blocks) \cup {a} /\ FreeAt(bs) = FreeAt(blocks) \cup {a}
       /\ Size(bs, a) = PageSize /\ \A x \in At(blocks) : Size(bs, x) = Size(blocks, x)
  <2>1. ChainOK(blocks) /\ NoneAdjoin(blocks) /\ q \notin PagesOf(blocks) /\ NewNumber(blocks, next_page)
    BY <1>3, <1>11, <1>12
  <2> QED BY ONLY HeapAssumption, <1>5, <1>13, <2>1, PushChain
<1>15. Total(SizesOf(bs)) = Total(SizesOf(blocks)) + PageSize
  BY ONLY HeapAssumption, <1>3, <1>11, <1>12, <1>13, PushBytes
<1>16. FreeAt(blocks) \subseteq At(blocks)
  BY DEF FreeAt, At
<1>17. Used(bs) = Used(blocks) /\ \A x \in Used(blocks) : Size(bs, x) = Size(blocks, x)
  BY <1>14, <1>16 DEF Used
<1>18. a \in Places
  BY <1>5, <1>10 DEF Places
<1>19. PICK F : F = FreeAt(blocks)
  OBVIOUS
<1>20. ListFor(blocks, free_list, F) /\ F \subseteq At(blocks) /\ \A x \in F : Size(blocks, x) \in Nat
  BY <1>3, <1>16, <1>19, Summands DEF FreeOK
<1>21. \A x \in F : Size(blocks, x) < PageSize /\ Size(bs, x) < PageSize
  <2>1. \A x \in F : Size(blocks, x) < size
    BY ONLY <1>1, <1>20, bestFit(size) = 0, BestFit
  <2>2. \A x \in F : Size(blocks, x) < PageSize
    BY <1>1, <1>2, <1>20, <2>1
  <2> QED BY <1>14, <1>20, <2>2
<1>22. ListFor(bs, free_list, F)
  <2>1. \A x \in F : Size(bs, x) = Size(blocks, x)
    BY <1>14, <1>20
  <2> QED BY ONLY <1>20, <2>1, ListSizes
<1>23. /\ ListFor(bs, fl, F \cup {a}) /\ Len(fl) = Len(free_list) + 1 /\ Len(free_list) \in Nat
       /\ \A j \in 1 .. Len(free_list) + 1 :
             j # 1 => j - 1 \in 1 .. Len(free_list) /\ fl[j] = free_list[j - 1]
  <2>1. a \notin F /\ \A x \in F : Size(bs, a) >= Size(bs, x)
    <3>1. \A x \in F : Size(bs, x) \in Nat
      BY <1>14, <1>20
    <3> QED BY <1>2, <1>14, <1>20, <1>21, <3>1
  <2>2. IsBefore(a, free_list, fl)
    BY <1>8 DEF IsBefore
  <2> QED BY ONLY <1>18, <1>22, <2>1, <2>2, ListPushed
<1>24. FreeOK(bs, fl)
  BY <1>14, <1>19, <1>23 DEF FreeOK
<1>25. FewPages(bs, fl)
  <2>1. KeptPages \in Nat /\ KeptPages >= 1
    BY DEF HeapAssumption
  <2>2. ASSUME NEW i \in 1 .. Len(fl), i > KeptPages PROVE Size(bs, fl[i]) < PageSize
    <3>1. i # 1 /\ i \in 1 .. Len(free_list) + 1
      BY <1>23, <2>1, <2>2
    <3>2. i - 1 \in 1 .. Len(free_list) /\ fl[i] = free_list[i - 1]
      BY <1>23, <3>1
    <3>3. fl[i] \in F
      BY <1>22, <3>2 DEF ListFor
    <3> QED BY <1>21, <3>3
  <2> QED BY <2>2 DEF FewPages
<1>26. PICK y \in Places, w \in Nat : Carved(bs, y, w, size, n, PageSize)
  <2>1. a \in FreeAt(bs) /\ size <= Size(bs, a)
    BY <1>1, <1>2, <1>14
  <2>2. ChainOK(bs) /\ NoneAdjoin(bs) /\ carve(bs, fl, a, size, n, PageSize)
    BY <1>9, <1>14
  <2> QED BY ONLY HeapAssumption, <1>1, <1>24, <1>25, <2>1, <2>2, CarveTakes
<1>27. ListOK' /\ SmallOK' /\ LargeOK' /\ HeldOK' /\ StatsOK'
  <2>1. UNCHANGED <<small_pages, small_page_offs, free_small, small, large, destroyed>>
    BY <1>9
  <2> QED BY ONLY HeapAssumption, Inv, ~destroyed, <1>1, <1>2, <1>15, <1>17, <1>26, <2>1, MediumTaken
<1>28. /\ ChainOK(blocks') /\ NoneAdjoin(blocks') /\ PagesOf(blocks') = PagesOf(bs)
       /\ NumbersOf(blocks') \subseteq NumbersOf(bs)
  BY <1>26 DEF Carved, Taken
<1>29. MediumOK'
  <2>1. next_page' = next_page + 1
    <3>1. next_page + 1 \in Nat /\ next_page + 1 < PageIdMod
      BY <1>9, <1>12
    <3>2. (next_page + 1) % PageIdMod = next_page + 1
      BY ONLY <1>12, <3>1
    <3> QED BY <1>9, <3>2
  <2>2. next_page' \in 1 .. MaxNextPage
    BY <1>9, <1>12, <2>1
  <2>3. ASSUME NEW m \in NumbersOf(bs) PROVE m < next_page'
    <3>1. PICK i \in 1 .. Len(bs) : m = Number(bs, i)
      BY DEF NumbersOf
    <3>2. Len(blocks) \in Nat /\ Len(bs) = Len(blocks) + 1 /\ Number(bs, 1) = next_page
          /\ \A j \in 1 .. Len(blocks) : Number(bs, j + 1) = Number(blocks, j)
      BY <1>3, <1>13, LenProperties DEF IsPushed, ChainOK
    <3>3. CASE i = 1
      BY <1>12, <2>1, <3>1, <3>2, <3>3
    <3>4. CASE i # 1
      <4>1. i - 1 \in 1 .. Len(blocks) /\ (i - 1) + 1 = i
        BY <3>2, <3>4
      <4>2. m = Number(blocks, i - 1)
        BY <3>1, <3>2, <4>1
      <4>3. m \in NumbersOf(blocks)
        BY <4>1, <4>2 DEF NumbersOf
      <4>4. m \in Nat
        <5>1. blocks[i - 1] \in Blocks
          BY <1>3, <4>1, ElementOfSeq DEF ChainOK
        <5> QED BY <4>2, <5>1 DEF Blocks, Number
      <4> QED BY <1>3, <1>12, <2>1, <4>3, <4>4
    <3> QED BY <3>3, <3>4
  <2> QED BY <1>28, <2>2, <2>3 DEF MediumOK
<1>30. PagesOK'
  <2>1. pages' \subseteq 1 .. MaxPages /\ small_pages' = small_pages /\ destroyed' = destroyed
    BY <1>9, <1>10 DEF Inv, PagesOK
  <2>2. PagesOf(blocks') = PagesOf(blocks) \cup {q} /\ pages' = pages \cup {q}
    BY <1>9, <1>14, <1>28
  <2> QED BY <1>11, <2>1, <2>2 DEF Inv, PagesOK
<1> QED BY <1>27, <1>29, <1>30 DEF Inv

-----------------------------------------------------------------------------
(* The steps: a medium block given back.                                   *)

\* The list c that comes from bs: the block at place m of bs is at place k now, perhaps
\* joined with free blocks, and gl has the free blocks beside it.
Kept(bs, m, c, gl, k) ==
    /\ ChainOK(c) /\ k \in 1 .. Len(c) /\ PagesOf(c) = PagesOf(bs) /\ NumbersOf(c) \subseteq NumbersOf(bs)
    /\ Total(SizesOf(c)) = Total(SizesOf(bs))
    /\ ListFor(c, gl, FreeAt(c) \ {Where(c, k)}) /\ FewPages(c, gl)
    /\ Used(c) \ {Where(c, k)} = Used(bs) \ {Where(bs, m)}
    /\ \A x \in Used(bs) \ {Where(bs, m)} : Size(c, x) = Size(bs, x)

\* Joining with the free block at place o takes that block from the free list.
LEMMA KeptJoined ==
    ASSUME HeapAssumption, NEW bs, ChainOK(bs), NEW k \in 1 .. Len(bs), k + 1 \in 1 .. Len(bs),
           Home(bs, k) = Home(bs, k + 1), NEW c, IsJoined(bs, c, k),
           NEW m \in {k, k + 1}, NEW o \in {k, k + 1}, o # m, Free(bs, o),
           NEW fl, ListFor(bs, fl, FreeAt(bs) \ {Where(bs, m)}), FewPages(bs, fl),
           NEW gl, gl = RemoveFirst(fl, Where(bs, o))
    PROVE  Kept(bs, m, c, gl, k)
<1>1. ChainOK(c) /\ PagesOf(c) = PagesOf(bs)
  BY JoinChain
<1>2. /\ Where(c, k) = Where(bs, k)
      /\ At(c) = At(bs) \ {Where(bs, k + 1)} /\ FreeAt(c) = FreeAt(bs) \ {Where(bs, k + 1)}
      /\ \A x \in At(c) : x # Where(bs, k) => Size(c, x) = Size(bs, x)
  BY JoinAddresses
<1>3. NumbersOf(c) \subseteq NumbersOf(bs)
  BY SameNumbers
<1>4. Total(SizesOf(c)) = Total(SizesOf(bs))
  BY JoinBytes
<1>5. k \in 1 .. Len(c)
  <2>1. Len(bs) \in Nat /\ Len(c) = Len(bs) - 1
    BY LenProperties DEF ChainOK, IsJoined
  <2> QED BY <2>1
<1>6. o \in 1 .. Len(bs) /\ m \in 1 .. Len(bs)
  OBVIOUS
<1>7. Where(bs, o) \in FreeAt(bs) /\ Where(bs, o) # Where(bs, m)
  <2>1. \A i, j \in 1 .. Len(bs) : Where(bs, i) = Where(bs, j) => i = j
    BY OneBlock DEF ChainOK
  <2>2. Where(bs, o) \in FreeAt(bs)
    BY <1>6, FreeBlocks
  <2> QED BY <1>6, <2>1, <2>2
<1>8. {Where(bs, k), Where(bs, k + 1)} = {Where(bs, m), Where(bs, o)}
  OBVIOUS
<1>9. PICK F : F = FreeAt(bs) \ {Where(bs, m)}
  OBVIOUS
<1>10. PICK y : y = Where(bs, o)
  OBVIOUS
<1>11. ListFor(bs, gl, F \ {y}) /\ FewPages(bs, gl)
  <2>1. ListFor(bs, fl, F) /\ y \in F
    BY <1>7, <1>9, <1>10
  <2>2. PICK j \in 1 .. Len(fl) : fl[j] = y /\ RemoveFirst(fl, y) = RemoveAt(fl, j)
    BY ONLY <2>1, ListWithout
  <2>3. gl = RemoveAt(fl, j)
    BY <1>10, <2>2
  <2>4. ListFor(bs, gl, F \ {y}) /\ Without(fl, gl, j)
    <3>1. ListFor(bs, gl, F \ {fl[j]}) /\ Without(fl, gl, j)
      BY ONLY <2>1, <2>3, ListRemoved
    <3> QED BY ONLY <2>2, <3>1
  <2>5. fl \in Seq(Places)
    BY <2>1 DEF ListFor
  <2> QED BY ONLY HeapAssumption, FewPages(bs, fl), <2>4, <2>5, FewRemoved
<1>12. F \ {y} = FreeAt(c) \ {Where(c, k)}
  BY <1>2, <1>8, <1>9, <1>10
<1>13. FreeAt(c) \subseteq At(c) /\ FreeAt(bs) \subseteq At(bs)
  BY DEF FreeAt, At
<1>14. ListFor(c, gl, F \ {y}) /\ FewPages(c, gl)
  <2>1. \A x \in F \ {y} : Size(c, x) = Size(bs, x)
    BY <1>2, <1>12, <1>13
  <2> QED BY ONLY <1>11, <2>1, ListSizes
<1>15. Used(c) \ {Where(c, k)} = Used(bs) \ {Where(bs, m)}
  BY <1>2, <1>7, <1>8 DEF Used
<1>16. \A x \in Used(bs) \ {Where(bs, m)} : Size(c, x) = Size(bs, x)
  BY <1>2, <1>7, <1>8 DEF Used
<1> QED BY <1>1, <1>3, <1>4, <1>5, <1>12, <1>14, <1>15, <1>16 DEF Kept

\* Two joins are one after the other.
LEMMA KeptTwice ==
    ASSUME NEW bs, NEW m, NEW c, NEW fl, NEW k, NEW d, NEW gl, NEW l,
           Kept(bs, m, c, fl, k), Kept(c, k, d, gl, l)
    PROVE  Kept(bs, m, d, gl, l)
BY DEF Kept

\* No two free blocks adjoin beside the one at place k, and none adjoins that one.
Loose(c, k) ==
    \A i, j \in 1 .. Len(c) :
        j = i + 1 /\ i # k /\ j # k /\ Home(c, i) = Home(c, j) => ~(Free(c, i) /\ Free(c, j))

QuietBefore(c, k) == \A i \in 1 .. Len(c) : k = i + 1 /\ Home(c, i) = Home(c, k) => ~Free(c, i)

QuietBehind(c, k) == \A j \in 1 .. Len(c) : j = k + 1 /\ Home(c, j) = Home(c, k) => ~Free(c, j)

\* What was between free neighbours is between blocks in use once it is joined with them.
LEMMA LooseJoined ==
    ASSUME HeapAssumption, NEW bs, ChainOK(bs), NEW k \in 1 .. Len(bs), k + 1 \in 1 .. Len(bs),
           Home(bs, k) = Home(bs, k + 1), NEW c, IsJoined(bs, c, k), NEW m \in {k, k + 1}, Loose(bs, m)
    PROVE  /\ Loose(c, k)
           /\ m = k + 1 /\ Free(bs, k) => QuietBefore(c, k)
           /\ m = k /\ QuietBefore(bs, k) => QuietBefore(c, k)
           /\ m = k /\ Free(bs, k + 1) => QuietBehind(c, k)
<1>1. Len(bs) \in Nat
  BY LenProperties DEF ChainOK
<1>2. PICK n \in Nat : n = Len(bs)
  BY <1>1
<1>3. Len(c) = n - 1 /\ k \in 1 .. n /\ k + 1 \in 1 .. n
  BY <1>2 DEF IsJoined
<1>4. ASSUME NEW j \in 1 .. n - 1, j <= k
      PROVE  j \in 1 .. n /\ Home(c, j) = Home(bs, j) /\ Free(c, j) = Free(bs, j)
  BY <1>2, <1>4 DEF IsJoined, After
<1>5. ASSUME NEW j \in 1 .. n - 1, j > k
      PROVE  j + 1 \in 1 .. n /\ Home(c, j) = Home(bs, j + 1) /\ Free(c, j) = Free(bs, j + 1)
  <2>1. ~(j <= k)
    BY <1>3, <1>5
  <2> QED BY <1>2, <2>1 DEF IsJoined, After
<1>6. \A i, j \in 1 .. n :
         j = i + 1 /\ i # m /\ j # m /\ Home(bs, i) = Home(bs, j) => ~(Free(bs, i) /\ Free(bs, j))
  BY <1>2 DEF Loose
<1>7. Loose(c, k)
  <2>1. SUFFICES ASSUME NEW i \in 1 .. n - 1, NEW j \in 1 .. n - 1, j = i + 1, i # k, j # k,
                        Home(c, i) = Home(c, j)
                 PROVE  ~(Free(c, i) /\ Free(c, j))
    BY <1>3 DEF Loose
  <2>2. CASE j < k
    <3>1. i <= k /\ j <= k /\ i # m /\ j # m
      BY <1>3, <2>1, <2>2
    <3> QED BY <1>4, <1>6, <2>1, <3>1
  <2>3. CASE i > k
    <3>1. j > k /\ i + 1 # m /\ j + 1 # m /\ j + 1 = (i + 1) + 1
      BY <1>3, <2>1, <2>3
    <3> QED BY <1>5, <1>6, <2>1, <2>3, <3>1
  <2> QED BY <1>3, <2>1, <2>2, <2>3
<1>8. ASSUME m = k + 1, Free(bs, k) PROVE QuietBefore(c, k)
  <2>1. SUFFICES ASSUME NEW i \in 1 .. n - 1, k = i + 1, Home(c, i) = Home(c, k) PROVE ~Free(c, i)
    BY <1>3 DEF QuietBefore
  <2>2. i <= k /\ i # m /\ k # m /\ k \in 1 .. n - 1
    BY <1>3, <1>8, <2>1
  <2> QED BY <1>3, <1>4, <1>6, <1>8, <2>1, <2>2
<1>9. ASSUME m = k, QuietBefore(bs, k) PROVE QuietBefore(c, k)
  <2>1. SUFFICES ASSUME NEW i \in 1 .. n - 1, k = i + 1, Home(c, i) = Home(c, k) PROVE ~Free(c, i)
    BY <1>3 DEF QuietBefore
  <2>2. i <= k /\ k <= k /\ k \in 1 .. n - 1
    BY <1>3, <2>1
  <2>3. i \in 1 .. n /\ Home(bs, i) = Home(bs, k)
    BY <1>4, <2>1, <2>2
  <2> QED BY <1>2, <1>4, <1>9, <2>1, <2>2, <2>3 DEF QuietBefore
<1>10. ASSUME m = k, Free(bs, k + 1) PROVE QuietBehind(c, k)
  <2>1. SUFFICES ASSUME NEW j \in 1 .. n - 1, j = k + 1, Home(c, j) = Home(c, k) PROVE ~Free(c, j)
    BY <1>3 DEF QuietBehind
  <2>2. j > k /\ k \in 1 .. n - 1 /\ k <= k /\ j + 1 = (k + 1) + 1 /\ k + 1 # m /\ j + 1 # m
    BY <1>3, <1>10, <2>1
  <2>3. Home(bs, j + 1) = Home(bs, k + 1) /\ j + 1 \in 1 .. n /\ Free(c, j) = Free(bs, j + 1)
    BY <1>4, <1>5, <2>1, <2>2
  <2> QED BY <1>3, <1>6, <1>10, <2>2, <2>3
<1> QED BY <1>7, <1>8, <1>9, <1>10

\* The block becomes free.
LEMMA LooseMarked ==
    ASSUME NEW bs, NEW k \in 1 .. Len(bs), Loose(bs, k), QuietBefore(bs, k), QuietBehind(bs, k),
           NEW c, IsMarked(bs, c, k, TRUE)
    PROVE  NoneAdjoin(c)
<1>1. SUFFICES ASSUME NEW i \in 1 .. Len(bs), NEW j \in 1 .. Len(bs), j = i + 1, Home(bs, i) = Home(bs, j)
               PROVE  ~(Free(c, i) /\ Free(c, j))
  BY DEF NoneAdjoin, IsMarked
<1>2. CASE i # k /\ j # k
  BY <1>1, <1>2 DEF Loose, IsMarked
<1>3. CASE j = k
  <2>1. i # k
    BY <1>1, <1>3
  <2> QED BY <1>1, <1>3, <2>1 DEF QuietBefore, IsMarked
<1>4. CASE i = k
  <2>1. j # k
    BY <1>1, <1>4
  <2> QED BY <1>1, <1>4, <2>1 DEF QuietBehind, IsMarked
<1> QED BY <1>2, <1>3, <1>4

\* The code tells the neighbours of one page by their page number.
LEMMA MergeTest ==
    ASSUME HeapAssumption, NEW bs, ChainOK(bs), NEW i \in 1 .. Len(bs), NEW j \in 1 .. Len(bs)
    PROVE  merges(bs, i, j) <=> Free(bs, j) /\ Home(bs, j) = Home(bs, i)
<1>1. DOMAIN bs = 1 .. Len(bs)
  BY LenProperties DEF ChainOK
<1>2. merges(bs, i, j) <=> Free(bs, j) /\ Number(bs, j) = Number(bs, i)
  BY <1>1 DEF merges, Block, Free, Number
<1>3. Number(bs, j) = Number(bs, i) <=> Home(bs, j) = Home(bs, i)
  BY DEF ChainOK, Paged
<1> QED BY <1>2, <1>3

\* The block is joined with the one before it.
LEMMA JoinedBefore ==
    ASSUME HeapAssumption, NEW bs, ChainOK(bs), NoneAdjoin(bs), NEW i \in 1 .. Len(bs), ~Free(bs, i),
           NEW fl, FreeOK(bs, fl), FewPages(bs, fl), NEW back, back = joinedBack(bs, fl, i),
           NEW c, c = back.blocks, NEW gl, gl = back.free_list, NEW k, k = back.at
    PROVE  Kept(bs, i, c, gl, k) /\ Loose(c, k) /\ QuietBefore(c, k)
<1>1. Len(bs) \in Nat
  BY LenProperties DEF ChainOK
<1>2. Loose(bs, i)
  BY DEF NoneAdjoin, Loose
<1>3. Where(bs, i) \notin FreeAt(bs)
  BY FreeBlocks
<1>4. ListFor(bs, fl, FreeAt(bs) \ {Where(bs, i)})
  <2>1. FreeAt(bs) \ {Where(bs, i)} = FreeAt(bs)
    BY <1>3
  <2> QED BY <2>1 DEF FreeOK
<1>5. CASE ~(i > 1 /\ merges(bs, i, i - 1))
  <2>1. c = bs /\ gl = fl /\ k = i
    BY <1>5 DEF joinedBack
  <2>2. Kept(bs, i, bs, fl, i)
    BY <1>4 DEF Kept
  <2>3. QuietBefore(bs, i)
    <3>1. SUFFICES ASSUME NEW j \in 1 .. Len(bs), i = j + 1, Home(bs, j) = Home(bs, i) PROVE ~Free(bs, j)
      BY DEF QuietBefore
    <3>2. i > 1 /\ j = i - 1
      BY <1>1, <3>1
    <3>3. ~merges(bs, i, j)
      BY <1>5, <3>2
    <3> QED BY <3>1, <3>3, MergeTest
  <2> QED BY <1>2, <2>1, <2>2, <2>3
<1>6. CASE i > 1 /\ merges(bs, i, i - 1)
  <2>1. k = i - 1 /\ i > 1 /\ merges(bs, i, i - 1) /\ c = joined(bs, i, i - 1)
        /\ gl = RemoveFirst(fl, bs[i - 1].at)
    BY <1>6 DEF joinedBack
  <2>2. k \in 1 .. Len(bs) /\ i = k + 1 /\ k + 1 \in 1 .. Len(bs)
    BY <1>1, <2>1
  <2>3. Free(bs, k) /\ Home(bs, k) = Home(bs, k + 1)
    <3>1. merges(bs, i, k)
      BY <2>1
    <3> QED BY <2>2, <3>1, MergeTest
  <2>4. IsJoined(bs, c, k)
    <3>1. c = joined(bs, k + 1, k)
      BY <2>1, <2>2
    <3> QED BY <2>2, <2>3, <3>1, Joined
  <2>5. gl = RemoveFirst(fl, Where(bs, k))
    <3>1. bs[k].at = Where(bs, k)
      BY <2>2, OneBlock DEF ChainOK
    <3> QED BY <2>1, <3>1
  <2>6. PICK m \in {k, k + 1} : m = i
    BY <2>2
  <2>7. PICK o \in {k, k + 1} : o = k
    OBVIOUS
  <2>8. o # m
    BY <1>1, <2>2, <2>6, <2>7
  <2>9. Kept(bs, m, c, gl, k)
    <3>1. ListFor(bs, fl, FreeAt(bs) \ {Where(bs, m)}) /\ Free(bs, o) /\ gl = RemoveFirst(fl, Where(bs, o))
      BY <1>4, <2>3, <2>5, <2>6, <2>7
    <3> QED BY ONLY HeapAssumption, ChainOK(bs), FewPages(bs, fl), <2>2, <2>3, <2>4, <2>8, <3>1, KeptJoined
  <2>10. Loose(c, k) /\ QuietBefore(c, k)
    <3>1. Loose(bs, m) /\ m = k + 1
      BY <1>2, <2>2, <2>6
    <3> QED BY ONLY HeapAssumption, ChainOK(bs), <2>2, <2>3, <2>4, <3>1, LooseJoined
  <2> QED BY <2>6, <2>9, <2>10
<1> QED BY <1>5, <1>6

\* Then with the one behind it.
LEMMA JoinedBehind ==
    ASSUME HeapAssumption, NEW bs, ChainOK(bs), NEW k \in 1 .. Len(bs), Loose(bs, k), QuietBefore(bs, k),
           NEW fl, ListFor(bs, fl, FreeAt(bs) \ {Where(bs, k)}), FewPages(bs, fl),
           NEW both, both = joinedOn(bs, fl, k), NEW c, c = both.blocks, NEW gl, gl = both.free_list
    PROVE  Kept(bs, k, c, gl, k) /\ Loose(c, k) /\ QuietBefore(c, k) /\ QuietBehind(c, k)
<1>1. Len(bs) \in Nat
  BY LenProperties DEF ChainOK
<1>2. CASE ~(k < Len(bs) /\ merges(bs, k, k + 1))
  <2>1. c = bs /\ gl = fl
    BY <1>2 DEF joinedOn
  <2>2. Kept(bs, k, bs, fl, k)
    BY DEF Kept
  <2>3. QuietBehind(bs, k)
    <3>1. SUFFICES ASSUME NEW j \in 1 .. Len(bs), j = k + 1, Home(bs, j) = Home(bs, k) PROVE ~Free(bs, j)
      BY DEF QuietBehind
    <3>2. k < Len(bs)
      BY <1>1, <3>1
    <3>3. ~merges(bs, k, j)
      BY <1>2, <3>1, <3>2
    <3> QED BY <3>1, <3>3, MergeTest
  <2> QED BY <2>1, <2>2, <2>3
<1>3. CASE k < Len(bs) /\ merges(bs, k, k + 1)
  <2>1. k < Len(bs) /\ merges(bs, k, k + 1) /\ c = joined(bs, k, k + 1)
        /\ gl = RemoveFirst(fl, bs[k + 1].at)
    BY <1>3 DEF joinedOn
  <2>2. k + 1 \in 1 .. Len(bs)
    BY <1>1, <2>1
  <2>3. Free(bs, k + 1) /\ Home(bs, k) = Home(bs, k + 1)
    BY <2>1, <2>2, MergeTest
  <2>4. IsJoined(bs, c, k)
    BY <2>1, <2>2, <2>3, Joined
  <2>5. gl = RemoveFirst(fl, Where(bs, k + 1))
    <3>1. bs[k + 1].at = Where(bs, k + 1)
      BY <2>2, OneBlock DEF ChainOK
    <3> QED BY <2>1, <3>1
  <2>6. PICK m \in {k, k + 1} : m = k
    OBVIOUS
  <2>7. PICK o \in {k, k + 1} : o = k + 1
    OBVIOUS
  <2>8. o # m
    BY <1>1, <2>2, <2>6, <2>7
  <2>9. Kept(bs, m, c, gl, k)
    <3>1. ListFor(bs, fl, FreeAt(bs) \ {Where(bs, m)}) /\ Free(bs, o) /\ gl = RemoveFirst(fl, Where(bs, o))
      BY <2>3, <2>5, <2>6, <2>7
    <3> QED BY ONLY HeapAssumption, ChainOK(bs), FewPages(bs, fl), <2>2, <2>3, <2>4, <2>8, <3>1, KeptJoined
  <2>10. Loose(c, k) /\ QuietBefore(c, k) /\ QuietBehind(c, k)
    <3>1. Loose(bs, m) /\ m = k /\ QuietBefore(bs, k)
      BY <2>6
    <3> QED BY ONLY HeapAssumption, ChainOK(bs), <2>2, <2>3, <2>4, <3>1, LooseJoined
  <2> QED BY <2>6, <2>9, <2>10
<1> QED BY <1>2, <1>3

\* What became of the list bs when the block at a was given back and the pages ps with it.
Freed(bs, a, c, gl, ps) ==
    /\ ChainOK(c) /\ NoneAdjoin(c) /\ FreeOK(c, gl) /\ FewPages(c, gl)
    /\ NumbersOf(c) \subseteq NumbersOf(bs)
    /\ ps \subseteq PagesOf(bs) /\ PagesOf(c) = PagesOf(bs) \ ps
    /\ Total(SizesOf(c)) = Total(SizesOf(bs)) - PageSize * Cardinality(ps)
    /\ Used(c) = Used(bs) \ {a} /\ \A x \in Used(bs) \ {a} : Size(c, x) = Size(bs, x)

\* The joined block becomes free and enters the free list.
LEMMA FreedBlock ==
    ASSUME HeapAssumption, NEW bs, ChainOK(bs), NEW i \in 1 .. Len(bs), ~Free(bs, i),
           \A m \in NumbersOf(bs) : m # PageIdMod - 1,
           NEW c, NEW fl, NEW k, Kept(bs, i, c, fl, k), Loose(c, k), QuietBefore(c, k), QuietBehind(c, k),
           NEW d, d = [c EXCEPT ![k].is_free = TRUE],
           NEW after, after = insertFreeBlock(d, fl, d[k].at)
    PROVE  Freed(bs, Where(bs, i), after.blocks, after.free_list, after.pages)
<1>1. /\ ChainOK(c) /\ k \in 1 .. Len(c) /\ PagesOf(c) = PagesOf(bs) /\ NumbersOf(c) \subseteq NumbersOf(bs)
      /\ Total(SizesOf(c)) = Total(SizesOf(bs))
      /\ ListFor(c, fl, FreeAt(c) \ {Where(c, k)}) /\ FewPages(c, fl)
      /\ Used(c) \ {Where(c, k)} = Used(bs) \ {Where(bs, i)}
      /\ \A x \in Used(bs) \ {Where(bs, i)} : Size(c, x) = Size(bs, x)
  BY DEF Kept
<1>2. IsMarked(c, d, k, TRUE)
  BY <1>1, Marked
<1>3. /\ ChainOK(d) /\ PagesOf(d) = PagesOf(c) /\ At(d) = At(c) /\ \A x \in At(c) : Size(d, x) = Size(c, x)
      /\ FreeAt(d) = FreeAt(c) \cup {Where(c, k)}
  <2>1. PICK f \in BOOLEAN : f = TRUE
    OBVIOUS
  <2>2. IsMarked(c, d, k, f)
    BY <1>2, <2>1
  <2>3. /\ ChainOK(d) /\ PagesOf(d) = PagesOf(c) /\ At(d) = At(c) /\ \A x \in At(c) : Size(d, x) = Size(c, x)
        /\ f => FreeAt(d) = FreeAt(c) \cup {Where(c, k)}
    BY ONLY HeapAssumption, <1>1, <2>2, MarkChain
  <2> QED BY <2>1, <2>3
<1>4. NoneAdjoin(d)
  BY ONLY <1>1, <1>2, Loose(c, k), QuietBefore(c, k), QuietBehind(c, k), LooseMarked
<1>5. NumbersOf(d) \subseteq NumbersOf(bs)
  BY <1>1, <1>2, SameNumbers
<1>6. Total(SizesOf(d)) = Total(SizesOf(bs))
  <2>1. Total(SizesOf(d)) = Total(SizesOf(c))
    BY ONLY HeapAssumption, <1>1, <1>2, MarkBytes
  <2> QED BY <1>1, <2>1
<1>7. PICK a \in FreeAt(d) : a = Where(c, k)
  BY <1>3
<1>8. d[k].at = a
  <2>1. k \in 1 .. Len(d) /\ Where(d, k) = Where(c, k)
    BY <1>1, <1>2 DEF IsMarked, Where
  <2>2. d[k].at = Where(d, k)
    BY <1>3, <2>1, OneBlock DEF ChainOK
  <2> QED BY <1>7, <2>1, <2>2
<1>9. FreeAt(c) \subseteq At(c) /\ Where(c, k) \in At(c)
  BY <1>1 DEF FreeAt, At
<1>10. ListFor(d, fl, FreeAt(d) \ {a}) /\ FewPages(d, fl)
  <2>1. PICK F : F = FreeAt(c) \ {Where(c, k)}
    OBVIOUS
  <2>2. \A x \in F : Size(d, x) = Size(c, x)
    BY <1>3, <1>9, <2>1
  <2>3. ListFor(c, fl, F) /\ FewPages(c, fl)
    BY <1>1, <2>1
  <2>4. ListFor(d, fl, F) /\ FewPages(d, fl)
    BY ONLY <2>2, <2>3, ListSizes
  <2>5. F = FreeAt(d) \ {a}
    BY <1>3, <1>7, <2>1
  <2> QED BY <2>4, <2>5
<1>11. NewNumber(d, PageIdMod - 1)
  BY <1>5 DEF NewNumber, NumbersOf
<1>12. /\ ChainOK(after.blocks) /\ NoneAdjoin(after.blocks)
       /\ FreeOK(after.blocks, after.free_list) /\ FewPages(after.blocks, after.free_list)
       /\ \/ after.pages = {} /\ after.blocks = d
          \/ \E j \in 1 .. Len(d) : /\ Wide(d, j) = PageSize /\ Free(d, j)
                                    /\ after.pages = {Home(d, j)}
                                    /\ IsDropped(d, after.blocks, j)
  <2>1. after = insertFreeBlock(d, fl, a)
    BY <1>8
  <2>2. ChainOK(d)
    BY <1>3
  <2> QED BY ONLY HeapAssumption, <1>4, <1>10, <1>11, <2>1, <2>2, FreeBlockInserted
<1>13. Used(d) = Used(bs) \ {Where(bs, i)} /\ \A x \in Used(d) : Size(d, x) = Size(bs, x)
  BY <1>1, <1>3, <1>9 DEF Used
<1>14. Total(SizesOf(bs)) \in Nat /\ PageSize \in Nat
  BY BytesNumber, AlignedHeaders
<1>15. CASE after.pages = {} /\ after.blocks = d
  <2>1. PageSize * Cardinality({}) = 0
    BY <1>14, FS_EmptySet
  <2>2. Total(SizesOf(after.blocks)) = Total(SizesOf(bs)) - PageSize * Cardinality(after.pages)
    <3>1. PICK t : t = Total(SizesOf(bs))
      OBVIOUS
    <3>2. Total(SizesOf(after.blocks)) = t
      BY <1>6, <1>15, <3>1
    <3>3. PageSize * Cardinality(after.pages) = 0
      BY <1>15, <2>1
    <3>4. t - 0 = t
      BY ONLY <1>14, <3>1
    <3> QED BY ONLY <3>1, <3>2, <3>3, <3>4
  <2> QED BY <1>1, <1>3, <1>5, <1>12, <1>13, <1>15, <2>2 DEF Freed
<1>16. ASSUME NEW j \in 1 .. Len(d), Wide(d, j) = PageSize, Free(d, j), after.pages = {Home(d, j)},
              IsDropped(d, after.blocks, j)
       PROVE  Freed(bs, Where(bs, i), after.blocks, after.free_list, after.pages)
  <2>1. PICK e : e = after.blocks
    OBVIOUS
  <2>2. /\ PagesOf(e) = PagesOf(d) \ {Home(d, j)}
        /\ At(e) = At(d) \ {Where(d, j)} /\ FreeAt(e) = FreeAt(d) \ {Where(d, j)}
        /\ \A x \in At(e) : Size(e, x) = Size(d, x)
    <3>1. Wide(d, j) = PageSize /\ IsDropped(d, e, j)
      BY <1>16, <2>1
    <3>2. ChainOK(d)
      BY <1>3
    <3> QED BY ONLY HeapAssumption, <3>1, <3>2, j \in 1 .. Len(d), DropChain
  <2>3. Where(d, j) \in FreeAt(d)
    BY <1>3, <1>16, FreeBlocks
  <2>4. Used(e) = Used(d) /\ \A x \in Used(d) : Size(e, x) = Size(d, x)
    BY <2>2, <2>3 DEF Used
  <2>5. NumbersOf(e) \subseteq NumbersOf(d)
    BY <1>3, <1>16, <2>1, SameNumbers
  <2>6. Home(d, j) \in PagesOf(d)
    BY DEF PagesOf
  <2>7. Total(SizesOf(e)) \in Nat /\ Total(SizesOf(d)) = Total(SizesOf(e)) + PageSize
    BY <1>3, <1>16, <2>1, DropBytes
  <2>8. PageSize * Cardinality(after.pages) = PageSize
    <3>1. Cardinality(after.pages) = 1
      BY <1>16, FS_Singleton
    <3> QED BY <1>14, <3>1
  <2>9. Total(SizesOf(e)) = Total(SizesOf(bs)) - PageSize * Cardinality(after.pages)
    BY <1>6, <1>14, <2>7, <2>8
  <2> QED BY <1>1, <1>3, <1>5, <1>12, <1>13, <1>16, <2>1, <2>2, <2>4, <2>5, <2>6, <2>9 DEF Freed
<1> QED BY <1>12, <1>15, <1>16

\* The pointers, the statistics and the pages when a medium block is given back.
LEMMA MediumGiven ==
    ASSUME HeapAssumption, Inv, ~destroyed, NEW p \in held, p.type = "medium",
           NEW a, a = p.at, a \in Used(blocks), NEW w, w = Size(blocks, a),
           NEW ps, Freed(blocks, a, blocks', free_list', ps), pages' = pages \ ps,
           NEW d, d = PageSize * Cardinality(ps),
           stats' = [stats EXCEPT !["medium"] = registerFree(released(@, d), w, w - BlockHeader)],
           held' = held \ {p},
           UNCHANGED <<next_page, small_pages, small_page_offs, free_small, small, large, destroyed>>
    PROVE  Inv'
<1>1. PICK c : c = blocks'
  OBVIOUS
<1>2. /\ ChainOK(c) /\ NoneAdjoin(c) /\ FreeOK(c, free_list') /\ FewPages(c, free_list')
      /\ NumbersOf(c) \subseteq NumbersOf(blocks)
      /\ ps \subseteq PagesOf(blocks) /\ PagesOf(c) = PagesOf(blocks) \ ps
      /\ Total(SizesOf(c)) = Total(SizesOf(blocks)) - d
      /\ Used(c) = Used(blocks) \ {a} /\ \A x \in Used(blocks) \ {a} : Size(c, x) = Size(blocks, x)
  BY <1>1 DEF Freed
<1>3. PICK f : f = UsedSizes(c)
  OBVIOUS
<1>4. PICK g : g = UsedSizes(blocks)
  OBVIOUS
<1>5. OneMore(f, g, a, w, BlockHeader)
  <2>1. /\ ChainOK(blocks) /\ a \notin Used(c) /\ Used(blocks) = Used(c) \cup {a}
        /\ \A x \in Used(c) : Size(blocks, x) = Size(c, x)
    BY <1>2 DEF Inv, MediumOK
  <2> QED BY ONLY HeapAssumption, w = Size(blocks, a), <1>2, <1>3, <1>4, <2>1, UsedMore
<1>6. MediumOK'
  BY <1>1, <1>2 DEF Inv, MediumOK
<1>7. ListOK'
  BY <1>1, <1>2 DEF ListOK
<1>8. SmallOK'
  BY DEF Inv, SmallOK
<1>9. LargeOK'
  BY DEF Inv, LargeOK
<1>10. PagesOK'
  <2>1. /\ pages \subseteq 1 .. MaxPages /\ small_pages \in Seq(1 .. MaxPages)
        /\ pages = ToSet(small_pages) \cup PagesOf(blocks) /\ ToSet(small_pages) \cap PagesOf(blocks) = {}
    BY DEF Inv, PagesOK
  <2>2. pages' = ToSet(small_pages) \cup PagesOf(c) /\ ToSet(small_pages) \cap PagesOf(c) = {}
    BY <1>2, <2>1
  <2>3. pages' \subseteq 1 .. MaxPages
    BY <2>1
  <2> QED BY <1>1, <2>1, <2>2, <2>3 DEF PagesOK
<1>11. "small" \in Types /\ "medium" \in Types /\ "large" \in Types
  BY DEF Types
<1>12. PICK t \in Types : t = "medium"
  BY <1>11
<1>13. HeldOK'
  <2>1. HeldTyped(held) /\ HeldIn(held, p.type, g, BlockHeader)
    BY <1>4 DEF Inv, HeldOK
  <2>2. held' = held \ {p} /\ OneMore(f, g, p.at, w, BlockHeader)
    BY <1>5
  <2>3. /\ HeldTyped(held') /\ HeldIn(held', p.type, f, BlockHeader)
        /\ \A u, e, h : HeldIn(held, u, e, h) => HeldIn(held', u, e, h)
    BY ONLY p \in held, <2>1, <2>2, HeldLess
  <2>4. HeldIn(held', "small", SmallSizes(small), SmallHeader)
        /\ HeldIn(held', "large", large, BlockHeader)
    BY <2>3 DEF Inv, HeldOK
  <2> QED BY <1>1, <1>3, <2>3, <2>4 DEF HeldOK
<1>14. StatsOK'
  <2>1. PICK m : m = Total(SizesOf(blocks))
    OBVIOUS
  <2>2. PICK k : k = m - d
    OBVIOUS
  <2>3. stats[t] = Entry(g, BlockHeader, m) /\ DOMAIN stats = Types
    BY <1>4, <1>12, <2>1 DEF Inv, StatsOK
  <2>4. stats' = [stats EXCEPT ![t] = registerFree(released(@, d), w, w - BlockHeader)]
    BY ONLY <1>12, stats' = [stats EXCEPT !["medium"] = registerFree(released(@, d), w, w - BlockHeader)]
  <2>5. /\ stats'[t] = Entry(f, BlockHeader, k) /\ DOMAIN stats' = Types
        /\ \A u \in Types : u # t => stats'[u] = stats[u]
    BY ONLY <1>5, <2>2, <2>3, <2>4, StatsLess
  <2>6. /\ stats'["medium"] = Entry(f, BlockHeader, k) /\ stats'["small"] = stats["small"]
        /\ stats'["large"] = stats["large"] /\ DOMAIN stats' = Types
    BY ONLY <1>11, <1>12, <2>5
  <2>7. k = Total(SizesOf(blocks'))
    BY <1>1, <1>2, <2>1, <2>2
  <2> QED BY <1>1, <1>3, <2>6, <2>7 DEF Inv, StatsOK
<1> QED BY <1>6, <1>7, <1>8, <1>9, <1>10, <1>13, <1>14 DEF Inv

\* The page numbers are numbers.
LEMMA NumbersTyped ==
    ASSUME NEW bs, ChainOK(bs), NEW m \in NumbersOf(bs)
    PROVE  m \in Nat
<1>1. bs \in Seq(Blocks)
  BY DEF ChainOK
<1>2. PICK i \in 1 .. Len(bs) : m = bs[i].page
  BY DEF NumbersOf, Number
<1>3. bs[i] \in Blocks
  BY <1>1, <1>2, ElementOfSeq
<1> QED BY <1>2, <1>3 DEF Blocks

\* freeMedium joins the block with the one before and the one behind it.
LEMMA FreeMediumStep ==
    ASSUME HeapAssumption, MaxNextPage < PageIdMod, Inv, NEW p \in held, p.type = "medium", freeMedium(p)
    PROVE  Inv'
<1>1. ~destroyed
  BY DEF Inv, PagesOK
<1>2. ChainOK(blocks) /\ NoneAdjoin(blocks) /\ FreeOK(blocks, free_list) /\ FewPages(blocks, free_list)
      /\ next_page \in 1 .. MaxNextPage /\ \A m \in NumbersOf(blocks) : m < next_page
  BY <1>1 DEF Inv, MediumOK, ListOK
<1>3. PICK a : a = p.at
  OBVIOUS
<1>4. a \in Used(blocks)
  <2>1. a \in DOMAIN UsedSizes(blocks)
    BY <1>3 DEF Inv, HeldOK, HeldIn
  <2>2. DOMAIN UsedSizes(blocks) = Used(blocks)
    BY <1>2, Summands
  <2> QED BY <2>1, <2>2
<1>5. PICK i : i = Index(blocks, a)
  OBVIOUS
<1>6. i \in 1 .. Len(blocks) /\ Where(blocks, i) = a /\ Size(blocks, a) = blocks[i].size
  <2>1. a \in At(blocks)
    BY <1>4 DEF Used
  <2>2. blocks \in Seq(Blocks) /\ Sized(blocks) /\ Ordered(blocks)
    BY <1>2 DEF ChainOK
  <2> QED BY <1>5, <2>1, <2>2, OneBlock DEF Wide
<1>7. ~Free(blocks, i)
  <2>1. a \notin FreeAt(blocks)
    BY <1>4 DEF Used
  <2> QED BY <1>2, <1>6, <2>1, FreeBlocks
<1>8. PICK back : back = joinedBack(blocks, free_list, i)
  OBVIOUS
<1>9. PICK bs1 : bs1 = back.blocks
  OBVIOUS
<1>10. PICK fl1 : fl1 = back.free_list
  OBVIOUS
<1>11. PICK k : k = back.at
  OBVIOUS
<1>12. PICK both : both = joinedOn(bs1, fl1, k)
  OBVIOUS
<1>13. PICK bs2 : bs2 = both.blocks
  OBVIOUS
<1>14. PICK fl2 : fl2 = both.free_list
  OBVIOUS
<1>15. PICK bs : bs = [bs2 EXCEPT ![k].is_free = TRUE]
  OBVIOUS
<1>16. PICK after : after = insertFreeBlock(bs, fl2, bs[k].at)
  OBVIOUS
<1>17. PICK w : w = blocks[i].size
  OBVIOUS
<1>18. PICK d : d = PageSize * Cardinality(after.pages)
  OBVIOUS
<1>19. /\ blocks' = after.blocks /\ free_list' = after.free_list /\ pages' = pages \ after.pages
       /\ stats' = [stats EXCEPT !["medium"] = registerFree(released(@, d), w, w - BlockHeader)]
       /\ held' = held \ {p}
       /\ UNCHANGED <<next_page, small_pages, small_page_offs, free_small, small, large, destroyed>>
  BY ONLY freeMedium(p), <1>3, <1>5, <1>8, <1>9, <1>10, <1>11, <1>12, <1>13, <1>14, <1>15, <1>16,
          <1>17, <1>18 DEF freeMedium
<1>20. Kept(blocks, i, bs1, fl1, k) /\ Loose(bs1, k) /\ QuietBefore(bs1, k)
  <2>1. back = joinedBack(blocks, free_list, i)
    BY <1>8
  <2> QED BY ONLY HeapAssumption, <1>2, <1>6, <1>7, <1>9, <1>10, <1>11, <2>1, JoinedBefore
<1>21. Kept(bs1, k, bs2, fl2, k) /\ Loose(bs2, k) /\ QuietBefore(bs2, k) /\ QuietBehind(bs2, k)
  <2>1. ChainOK(bs1) /\ k \in 1 .. Len(bs1) /\ ListFor(bs1, fl1, FreeAt(bs1) \ {Where(bs1, k)})
        /\ FewPages(bs1, fl1)
    BY <1>20 DEF Kept
  <2> QED BY ONLY HeapAssumption, <1>12, <1>13, <1>14, <1>20, <2>1, JoinedBehind
<1>22. Kept(blocks, i, bs2, fl2, k)
  BY ONLY <1>20, <1>21, KeptTwice
<1>23. \A m \in NumbersOf(blocks) : m # PageIdMod - 1
  <2>1. PageIdMod \in Nat /\ MaxNextPage \in 1 .. PageIdMod
    BY DEF HeapAssumption
  <2>2. \A m \in NumbersOf(blocks) : m \in Nat
    BY <1>2, NumbersTyped
  <2>3. next_page <= PageIdMod - 1
    BY <1>2, <2>1
  <2> QED BY ONLY <1>2, <2>1, <2>2, <2>3
<1>24. Freed(blocks, a, after.blocks, after.free_list, after.pages)
  <2>1. Freed(blocks, Where(blocks, i), after.blocks, after.free_list, after.pages)
    BY ONLY HeapAssumption, <1>2, <1>6, <1>7, <1>15, <1>16, <1>21, <1>22, <1>23, FreedBlock
  <2> QED BY <1>6, <2>1
<1>25. PICK ps : ps = after.pages
  OBVIOUS
<1>26. /\ Freed(blocks, a, blocks', free_list', ps) /\ pages' = pages \ ps
       /\ d = PageSize * Cardinality(ps) /\ w = Size(blocks, a)
  BY <1>6, <1>17, <1>18, <1>19, <1>24, <1>25
<1> QED BY ONLY HeapAssumption, Inv, p \in held, p.type = "medium", <1>1, <1>3, <1>4, <1>19, <1>26, MediumGiven

-----------------------------------------------------------------------------
(* The invariant holds.                                                    *)

\* The list without a block.
LEMMA EmptyChain ==
    /\ ChainOK(<< >>) /\ NoneAdjoin(<< >>) /\ At(<< >>) = {} /\ FreeAt(<< >>) = {}
    /\ PagesOf(<< >>) = {} /\ NumbersOf(<< >>) = {} /\ Used(<< >>) = {}
<1>1. << >> \in Seq(Blocks) /\ Len(<< >>) = 0
  OBVIOUS
<1>2. 1 .. Len(<< >>) = {}
  BY <1>1
<1> QED BY <1>1, <1>2 DEF ChainOK, Sized, Ordered, Paged, TiledBefore, TiledBehind, NoneAdjoin, At,
                          FreeAt, PagesOf, NumbersOf, Used

\* A page that has blocks has one at its beginning.
LEMMA FirstBlock ==
    ASSUME HeapAssumption, NEW bs, ChainOK(bs), NEW q \in PagesOf(bs)
    PROVE  \E i \in 1 .. Len(bs) : Home(bs, i) = q /\ From(bs, i) = 0
<1>1. Len(bs) \in Nat
  BY ChainFacts DEF ChainOK
<1>2. PICK T : T = {i \in 1 .. Len(bs) : Home(bs, i) = q}
  OBVIOUS
<1>3. T \in SUBSET Nat /\ T # {}
  BY <1>1, <1>2 DEF PagesOf
<1>4. PICK i \in T : \A j \in T : i <= j
  BY <1>3, LeastElement
<1>5. CASE From(bs, i) # 0
  <2>1. i > 1 /\ Home(bs, i - 1) = Home(bs, i)
    BY <1>2, <1>4, <1>5 DEF ChainOK, TiledBefore
  <2>2. i - 1 \in T /\ ~(i <= i - 1)
    BY <1>1, <1>2, <1>4, <2>1
  <2> QED BY <1>4, <2>2
<1> QED BY <1>2, <1>4, <1>5

\* The destructor gives back every small page and every page a block is the start of.
LEMMA DestroyStep ==
    ASSUME HeapAssumption, Inv, destroy
    PROVE  Inv'
<1>1. /\ ~destroyed /\ held = {} /\ destroyed' = TRUE
      /\ pages' = (pages \ ToSet(small_pages)) \ {b.at[1] : b \in {c \in ToSet(blocks) : c.at[2] = 0}}
      /\ small_pages' = << >> /\ blocks' = << >>
      /\ UNCHANGED <<free_list, next_page, small_page_offs, free_small, small, large, stats, held>>
  BY DEF destroy
<1>2. ChainOK(blocks) /\ pages = ToSet(small_pages) \cup PagesOf(blocks)
  BY <1>1 DEF Inv, MediumOK, PagesOK
<1>3. PICK S : S = {b.at[1] : b \in {c \in ToSet(blocks) : c.at[2] = 0}}
  OBVIOUS
<1>4. ASSUME NEW q \in PagesOf(blocks) PROVE q \in S
  <2>1. PICK i \in 1 .. Len(blocks) : Home(blocks, i) = q /\ From(blocks, i) = 0
    BY <1>2, FirstBlock
  <2>2. blocks[i] \in ToSet(blocks)
    <3>1. DOMAIN blocks = 1 .. Len(blocks)
      BY <1>2, ChainFacts DEF ChainOK
    <3> QED BY <3>1 DEF ToSet
  <2>3. PICK b \in ToSet(blocks) : b = blocks[i]
    BY <2>2
  <2>4. b.at[2] = 0 /\ b.at[1] = q
    BY <2>1, <2>3 DEF Home, From
  <2> QED BY <1>3, <2>4
<1>5. pages' = {}
  BY <1>1, <1>2, <1>3, <1>4
<1>6. MediumOK'
  BY <1>1, EmptyChain DEF Inv, MediumOK
<1>7. ListOK'
  BY <1>1 DEF ListOK
<1>8. SmallOK'
  BY <1>1 DEF Inv, SmallOK
<1>9. LargeOK'
  BY <1>1 DEF Inv, LargeOK
<1>10. PagesOK'
  <2>1. << >> \in Seq(1 .. MaxPages)
    OBVIOUS
  <2> QED BY <1>1, <1>5, <2>1 DEF PagesOK
<1>11. HeldOK'
  BY <1>1 DEF HeldOK, HeldTyped, HeldIn
<1>12. StatsOK'
  BY <1>1 DEF Inv, StatsOK
<1> QED BY <1>6, <1>7, <1>8, <1>9, <1>10, <1>11, <1>12 DEF Inv

\* A new heap has no block and no page.
LEMMA InitInv ==
    ASSUME HeapAssumption, Init
    PROVE  Inv
<1>1. /\ blocks = << >> /\ free_list = << >> /\ next_page = 1 /\ small_pages = << >> /\ small_page_offs = 0
      /\ free_small = [i \in Slots |-> << >>] /\ small = << >> /\ large = << >>
      /\ stats = [t \in Types |-> [alloc |-> 0, used |-> 0, data |-> 0]]
      /\ pages = {} /\ held = {} /\ destroyed = FALSE
  BY DEF Init
<1>2. PICK e : e = << >>
  OBVIOUS
<1>3. Len(e) = 0 /\ 1 .. Len(e) = {} /\ DOMAIN e = {} /\ \A S : e \in Seq(S)
  BY <1>2
<1>4. MediumOK
  <2>1. 1 \in 1 .. MaxNextPage
    BY DEF HeapAssumption
  <2> QED BY <1>1, <2>1, EmptyChain DEF MediumOK
<1>5. ListOK
  <2>1. free_list = e /\ blocks = e /\ FreeAt(e) = {}
    BY <1>1, <1>2, EmptyChain
  <2>2. FreeOK(e, e) /\ FewPages(e, e)
    BY ONLY <1>3, <2>1 DEF FreeOK, ListFor, FewPages
  <2> QED BY <2>1, <2>2 DEF ListOK
<1>6. \A i \in Slots : free_small[i] = e
  BY <1>1, <1>2
<1>7. UsedPieces(small) = {} /\ FreePieces(free_small) = {}
  <2>1. UsedPieces(e) = {}
    BY ONLY <1>3 DEF UsedPieces
  <2>2. ASSUME NEW x \in Places \X Slots PROVE ~(\E j \in 1 .. Len(free_small[x[2]]) : free_small[x[2]][j] = x[1])
    BY ONLY <1>3, <1>6, <2>2
  <2> QED BY <1>1, <1>2, <2>1, <2>2 DEF FreePieces
<1>8. Pieces(small, free_small) = {}
  BY <1>7 DEF Pieces
<1>9. SmallOK
  <2>1. 0 \in Aligned /\ 0 <= PageSize
    <3>1. 0 \in Aligned /\ PageSize \in Nat
      BY AlignedHeaders
    <3> QED BY <3>1
  <2>2. IsFiniteSet(DOMAIN e)
    BY <1>3, FS_EmptySet
  <2>3. free_small \in [Slots -> Seq(Places)]
    BY <1>1
  <2>4. small = e /\ small_page_offs = 0
    BY <1>1, <1>2
  <2>5. SmallTyped(small, free_small, small_page_offs)
    BY ONLY <1>3, <2>1, <2>2, <2>3, <2>4 DEF SmallTyped
  <2>6. Once(free_small)
    BY ONLY <1>3, <1>6 DEF Once
  <2>7. SmallSound(small, free_small)
    BY <1>7, <1>8, <2>6 DEF SmallSound, AllApart
  <2> QED BY <1>1, <1>8, <2>5, <2>7 DEF SmallOK
<1>10. LargeOK
  <2>1. IsFiniteSet(DOMAIN e)
    BY <1>3, FS_EmptySet
  <2>2. large = e
    BY <1>1, <1>2
  <2> QED BY ONLY <1>3, <2>1, <2>2 DEF LargeOK
<1>11. PagesOK
  <2>1. small_pages = e /\ ToSet(e) = {}
    BY <1>1, <1>2, <1>3 DEF ToSet
  <2> QED BY <1>1, <1>3, <2>1, EmptyChain DEF PagesOK
<1>12. HeldOK
  BY <1>1 DEF HeldOK, HeldTyped, HeldIn
<1>13. StatsOK
  <2>1. ASSUME NEW f, NEW h, DOMAIN f = {} PROVE Entry(f, h, 0) = [alloc |-> 0, used |-> 0, data |-> 0]
    <3>1. DOMAIN Less(f, h) = {}
      BY <2>1 DEF Less
    <3>2. Total(f) = 0 /\ Total(Less(f, h)) = 0
      BY <2>1, <3>1, TotalEmpty
    <3> QED BY <3>2 DEF Entry
  <2>2. DOMAIN SmallSizes(small) = {} /\ DOMAIN large = {}
    BY <1>1, <1>2, <1>3 DEF SmallSizes
  <2>3. DOMAIN UsedSizes(blocks) = {} /\ DOMAIN SizesOf(blocks) = {}
    BY <1>1, EmptyChain, Summands
  <2>4. Total(SizesOf(blocks)) = 0 /\ Total(large) = 0
    BY <2>2, <2>3, TotalEmpty
  <2>5. PageSize * Len(small_pages) = 0
    <3>1. PageSize \in Nat /\ Len(small_pages) = 0
      BY <1>1, AlignedHeaders
    <3> QED BY <3>1
  <2>6. "small" \in Types /\ "medium" \in Types /\ "large" \in Types
    BY DEF Types
  <2>7. DOMAIN stats = Types /\ \A t \in Types : stats[t] = [alloc |-> 0, used |-> 0, data |-> 0]
    BY <1>1
  <2> QED BY <2>1, <2>2, <2>3, <2>4, <2>5, <2>6, <2>7 DEF StatsOK
<1> QED BY <1>4, <1>5, <1>9, <1>10, <1>11, <1>12, <1>13 DEF Inv

\* Every step preserves the invariant.
LEMMA NextInv ==
    ASSUME Quiet, Inv, [Next]_vars
    PROVE  Inv'
<1>1. HeapAssumption /\ MallocFails = FALSE /\ MaxNextPage < PageIdMod
  BY DEF Quiet
<1>2. ASSUME NEW n \in Sizes, malloc(n) PROVE Inv'
  <2>1. ~destroyed
    BY <1>2 DEF malloc
  <2>2. n \in Nat /\ MaxSmall \in Nat
    BY <1>1, BlockRequest, AlignedHeaders
  <2>3. CASE n < MaxSmall /\ allocSmall(n)
    <3>1. UNCHANGED <<blocks, free_list, next_page, large, destroyed>>
      BY <2>3 DEF allocSmall
    <3>2. CASE reuseSmall(n)
      BY ONLY Inv, n \in Sizes, <1>1, <2>1, <2>3, <3>1, <3>2, ReuseStep
    <3>3. CASE carveSmall(n)
      BY ONLY Inv, n \in Sizes, <1>1, <2>1, <2>3, <3>1, <3>3, CarveStep
    <3>4. CASE newSmallPage(n)
      BY ONLY Inv, n \in Sizes, <1>1, <2>1, <2>3, <3>1, <3>4, NewSmallStep
    <3> QED BY <2>3, <3>2, <3>3, <3>4 DEF allocSmall
  <2>4. CASE n >= MaxSmall /\ allocMedium(n)
    <3>1. PICK size : size = blockSize(n)
      OBVIOUS
    <3>2. CASE bestFit(size) # 0 /\ carve(blocks, free_list, free_list[bestFit(size)], size, n, 0)
               /\ UNCHANGED <<next_page, small_pages, small_page_offs, free_small, small, large,
                              pages, destroyed>>
      BY ONLY Inv, n \in Sizes, <1>1, <2>1, <2>4, <3>1, <3>2, FitStep
    <3>3. CASE allocLarge(n)
      BY ONLY Inv, n \in Sizes, <1>1, <2>1, <3>3, AllocLargeStep
    <3>4. CASE bestFit(size) = 0 /\ size <= PageSize \div 2 /\ newMediumPage(size, n)
      BY ONLY Inv, n \in Sizes, <1>1, <2>1, <2>4, <3>1, <3>4, PageStep
    <3> QED BY <2>4, <3>1, <3>2, <3>3, <3>4 DEF allocMedium
  <2>5. CASE allocLarge(n)
    BY ONLY Inv, n \in Sizes, <1>1, <2>1, <2>5, AllocLargeStep
  <2> QED BY <1>2, <2>3, <2>4, <2>5 DEF malloc
<1>3. ASSUME NEW p \in held, free(p) PROVE Inv'
  <2>1. CASE p.type = "small" /\ freeSmall(p)
    BY ONLY Inv, p \in held, <1>1, <2>1, FreeSmallStep
  <2>2. CASE p.type = "medium" /\ freeMedium(p)
    BY ONLY Inv, p \in held, <1>1, <2>2, FreeMediumStep
  <2>3. CASE p.type = "large" /\ freeLarge(p)
    BY ONLY Inv, p \in held, <1>1, <2>3, FreeLargeStep
  <2> QED BY <1>3, <2>1, <2>2, <2>3 DEF free
<1>4. CASE destroy
  BY ONLY Inv, <1>1, <1>4, DestroyStep
<1>5. CASE UNCHANGED vars
  BY <1>5 DEF vars, Inv, MediumOK, ListOK, SmallOK, LargeOK, PagesOK, HeldOK, StatsOK
<1> QED BY <1>2, <1>3, <1>4, <1>5 DEF Next

\* The invariant holds in every reachable state.
LEMMA SpecInv ==
    ASSUME Quiet
    PROVE  Spec => []Inv
<1>1. Init => Inv
  BY InitInv DEF Quiet
<1>2. Inv /\ [Next]_vars => Inv'
  BY NextInv
<1> QED BY <1>1, <1>2, PTL DEF Spec

-----------------------------------------------------------------------------
(* What the program has.                                                   *)

\* A small pointer is a piece of a small page.
LEMMA HeldSmall ==
    ASSUME HeapAssumption, Inv, NEW p \in held, p.type = "small"
    PROVE  /\ <<p.at, small[p.at]>> \in UsedPieces(small)
           /\ ExtentOf(p) = <<p.at, getSize(small[p.at])>> /\ HeaderOf(p) = SmallHeader
           /\ getSize(small[p.at]) \in Nat /\ getSize(small[p.at]) >= p.size + SmallHeader
           /\ p.at \in Places /\ p.at[1] \in ToSet(small_pages)
           /\ p.at[2] + getSize(small[p.at]) <= PageSize
<1>1. ~destroyed
  BY DEF Inv, PagesOK
<1>2. PICK a : a = p.at
  OBVIOUS
<1>3. a \in DOMAIN SmallSizes(small) /\ SmallSizes(small)[a] >= p.size + SmallHeader
  BY <1>2 DEF Inv, HeldOK, HeldIn
<1>4. a \in DOMAIN small /\ getSize(small[a]) >= p.size + SmallHeader
  BY <1>3 DEF SmallSizes
<1>5. a \in Places /\ small[a] \in Slots
  BY <1>4 DEF Inv, SmallOK, SmallTyped
<1>6. PICK x : x = <<a, small[a]>>
  OBVIOUS
<1>7. x \in UsedPieces(small) /\ x[1] = a /\ x[2] = small[a]
  BY <1>4, <1>5, <1>6 DEF UsedPieces
<1>8. Within(x, small_pages, small_page_offs)
  BY <1>1, <1>7 DEF Inv, SmallOK, Pieces
<1>9. a[1] \in ToSet(small_pages) /\ a[2] + getSize(small[a]) <= PageSize
  BY <1>7, <1>8 DEF Within
<1>10. getSize(small[a]) \in Nat
  BY <1>5, PieceSizes
<1>11. ExtentOf(p) = <<p.at, getSize(small[p.at])>> /\ HeaderOf(p) = SmallHeader
  BY DEF ExtentOf, HeaderOf
<1> QED BY <1>2, <1>4, <1>5, <1>6, <1>7, <1>9, <1>10, <1>11

\* A medium pointer is a block of the list.
LEMMA HeldMedium ==
    ASSUME HeapAssumption, Inv, NEW p \in held, p.type = "medium"
    PROVE  \E i \in 1 .. Len(blocks) :
              /\ p.at = Where(blocks, i) /\ ExtentOf(p) = <<p.at, Wide(blocks, i)>>
              /\ HeaderOf(p) = BlockHeader /\ Wide(blocks, i) >= p.size + BlockHeader
<1>1. ChainOK(blocks)
  BY DEF Inv, MediumOK
<1>2. PICK a : a = p.at
  OBVIOUS
<1>3. a \in DOMAIN UsedSizes(blocks) /\ UsedSizes(blocks)[a] >= p.size + BlockHeader
  BY <1>2 DEF Inv, HeldOK, HeldIn
<1>4. a \in Used(blocks) /\ Size(blocks, a) >= p.size + BlockHeader
  BY <1>1, <1>3, Summands
<1>5. PICK i \in 1 .. Len(blocks) : a = Where(blocks, i)
  BY <1>4 DEF Used, At
<1>6. Size(blocks, a) = Wide(blocks, i)
  BY <1>1, <1>5, OneBlock DEF ChainOK
<1>7. ExtentOf(p) = <<p.at, Size(blocks, p.at)>> /\ HeaderOf(p) = BlockHeader
  BY DEF ExtentOf, HeaderOf
<1> QED BY <1>2, <1>4, <1>5, <1>6, <1>7

\* A large pointer is a memory of its own.
LEMMA HeldLarge ==
    ASSUME HeapAssumption, Inv, NEW p \in held, p.type = "large"
    PROVE  /\ p.at \in Places /\ p.at[1] > MaxPages /\ p.at[2] = 0
           /\ ExtentOf(p) = <<p.at, large[p.at]>> /\ HeaderOf(p) = BlockHeader
           /\ large[p.at] >= p.size + BlockHeader
<1>1. p.at \in DOMAIN large /\ large[p.at] >= p.size + BlockHeader
  BY DEF Inv, HeldOK, HeldIn
<1>2. p.at \in Places /\ p.at[1] > MaxPages /\ p.at[2] = 0
  BY <1>1 DEF Inv, LargeOK
<1>3. ExtentOf(p) = <<p.at, large[p.at]>> /\ HeaderOf(p) = BlockHeader
  BY DEF ExtentOf, HeaderOf
<1> QED BY <1>1, <1>2, <1>3

\* The three kinds of memory are apart: small pages, pages of blocks, large blocks.
LEMMA KindsApart ==
    ASSUME HeapAssumption, Inv, ~destroyed
    PROVE  /\ ToSet(small_pages) \cap PagesOf(blocks) = {}
           /\ pages = ToSet(small_pages) \cup PagesOf(blocks)
           /\ \A q \in pages : q \in Nat /\ MaxPages \in Nat /\ ~(q > MaxPages)
<1>1. pages \subseteq 1 .. MaxPages /\ MaxPages \in Nat
  BY DEF Inv, PagesOK, HeapAssumption
<1> QED BY <1>1 DEF Inv, PagesOK

\* Two pointers to different pages do not overlap.
LEMMA PagesApart ==
    ASSUME NEW p, NEW q, NEW m, NEW n, ExtentOf(p) = <<p.at, m>>, ExtentOf(q) = <<q.at, n>>,
           p.at[1] # q.at[1]
    PROVE  ~Overlap(ExtentOf(p), ExtentOf(q))
BY DEF Overlap

\* The page of a pointer, unless it has a memory of its own.
LEMMA HeldPage ==
    ASSUME HeapAssumption, Inv, NEW p \in held
    PROVE  /\ \E m : ExtentOf(p) = <<p.at, m>>
           /\ p.type \in Types
           /\ p.type = "small" => p.at[1] \in ToSet(small_pages)
           /\ p.type = "medium" => p.at[1] \in PagesOf(blocks)
           /\ p.type = "large" => p.at[1] > MaxPages
<1>1. p.type \in Types
  BY DEF Inv, HeldOK, HeldTyped, Pointers
<1>2. CASE p.type = "small"
  BY <1>1, <1>2, HeldSmall
<1>3. CASE p.type = "medium"
  <2>1. PICK i \in 1 .. Len(blocks) : p.at = Where(blocks, i) /\ ExtentOf(p) = <<p.at, Wide(blocks, i)>>
    BY <1>3, HeldMedium
  <2>2. p.at[1] = Home(blocks, i)
    BY <2>1 DEF Where
  <2> QED BY <1>1, <1>3, <2>1, <2>2 DEF PagesOf
<1>4. CASE p.type = "large"
  BY <1>1, <1>4, HeldLarge
<1> QED BY <1>1, <1>2, <1>3, <1>4 DEF Types

\* Two pointers have no byte in common.
LEMMA TwoApart ==
    ASSUME HeapAssumption, Inv, NEW p \in held, NEW q \in held, p # q
    PROVE  ~Overlap(ExtentOf(p), ExtentOf(q))
<1>1. ~destroyed
  BY DEF Inv, PagesOK
<1>2. PICK m : ExtentOf(p) = <<p.at, m>>
  BY HeldPage
<1>3. PICK n : ExtentOf(q) = <<q.at, n>>
  BY HeldPage
<1>4. p.type \in Types /\ q.type \in Types
  BY HeldPage
<1>5. p.type = q.type => p.at # q.at
  BY DEF Inv, HeldOK, HeldTyped
<1>6. CASE p.type # q.type
  <2>1. p.at[1] # q.at[1]
    <3>1. \A x \in ToSet(small_pages) : x \notin PagesOf(blocks) /\ ~(x > MaxPages)
      BY <1>1, KindsApart
    <3>2. \A x \in PagesOf(blocks) : ~(x > MaxPages)
      BY <1>1, KindsApart
    <3> QED BY <1>4, <1>6, <3>1, <3>2, HeldPage DEF Types
  <2> QED BY <1>2, <1>3, <2>1, PagesApart
<1>7. CASE p.type = "small" /\ q.type = "small"
  <2>1. PICK x : x = <<p.at, small[p.at]>>
    OBVIOUS
  <2>2. PICK y : y = <<q.at, small[q.at]>>
    OBVIOUS
  <2>3. x \in UsedPieces(small) /\ y \in UsedPieces(small) /\ x # y
    BY <1>5, <1>7, <2>1, <2>2, HeldSmall
  <2>4. Apart(x[1], getSize(x[2]), y[1], getSize(y[2]))
    BY <1>1, <2>3 DEF Inv, SmallOK, SmallSound, AllApart, Pieces
  <2>5. PICK k \in Nat : k = getSize(small[p.at])
    BY <1>7, HeldSmall
  <2>6. PICK l \in Nat : l = getSize(small[q.at])
    BY <1>7, HeldSmall
  <2>7. Apart(p.at, k, q.at, l)
    BY <2>1, <2>2, <2>4, <2>5, <2>6
  <2>8. ExtentOf(p) = <<p.at, k>> /\ ExtentOf(q) = <<q.at, l>> /\ p.at \in Places /\ q.at \in Places
    BY <1>7, <2>5, <2>6, HeldSmall
  <2> QED BY <2>7, <2>8 DEF Apart, Overlap, Places
<1>8. CASE p.type = "medium" /\ q.type = "medium"
  <2>1. PICK i \in 1 .. Len(blocks) : p.at = Where(blocks, i) /\ ExtentOf(p) = <<p.at, Wide(blocks, i)>>
    BY <1>8, HeldMedium
  <2>2. PICK j \in 1 .. Len(blocks) : q.at = Where(blocks, j) /\ ExtentOf(q) = <<q.at, Wide(blocks, j)>>
    BY <1>8, HeldMedium
  <2>3. i # j
    BY <1>5, <1>8, <2>1, <2>2
  <2>4. ChainOK(blocks)
    BY DEF Inv, MediumOK
  <2>5. /\ From(blocks, i) \in Nat /\ Wide(blocks, i) \in Nat
        /\ Until(blocks, i) = From(blocks, i) + Wide(blocks, i)
        /\ From(blocks, j) \in Nat /\ Wide(blocks, j) \in Nat
        /\ Until(blocks, j) = From(blocks, j) + Wide(blocks, j) /\ Len(blocks) \in Nat
    BY <2>4, ChainFacts DEF ChainOK
  <2>6. Home(blocks, i) = Home(blocks, j) =>
           Until(blocks, i) <= From(blocks, j) \/ Until(blocks, j) <= From(blocks, i)
    <3>1. i < j \/ j < i
      BY <2>3, <2>5
    <3> QED BY <2>4, <3>1 DEF ChainOK, Ordered
  <2>7. /\ p.at[1] = Home(blocks, i) /\ p.at[2] = From(blocks, i)
        /\ q.at[1] = Home(blocks, j) /\ q.at[2] = From(blocks, j)
    BY <2>1, <2>2 DEF Where
  <2> QED BY <2>1, <2>2, <2>5, <2>6, <2>7 DEF Overlap
<1>9. CASE p.type = "large" /\ q.type = "large"
  <2>1. /\ p.at \in Nat \X Nat /\ q.at \in Nat \X Nat /\ p.at[2] = 0 /\ q.at[2] = 0
    BY <1>9, HeldLarge DEF Places
  <2>2. p.at[1] # q.at[1]
    BY <1>5, <1>9, <2>1
  <2> QED BY <1>2, <1>3, <2>2, PagesApart
<1> QED BY <1>4, <1>6, <1>7, <1>8, <1>9 DEF Types

\* A free small block is apart from everything that is in use.
LEMMA FreeApart ==
    ASSUME HeapAssumption, Inv, NEW i \in Slots, NEW j \in DOMAIN free_small[i], NEW p \in held
    PROVE  ~Overlap(<<free_small[i][j], getSize(i)>>, ExtentOf(p))
<1>1. ~destroyed
  BY DEF Inv, PagesOK
<1>2. PICK a : a = free_small[i][j]
  OBVIOUS
<1>3. PICK x : x = <<a, i>>
  OBVIOUS
<1>4. x \in FreePieces(free_small) /\ x[1] = a /\ x[2] = i /\ a \in Places
  <2>1. free_small[i] \in Seq(Places)
    BY DEF Inv, SmallOK, SmallTyped
  <2>2. j \in 1 .. Len(free_small[i])
    BY <2>1, LenProperties
  <2>3. a \in Places
    BY <1>2, <2>1, <2>2, ElementOfSeq
  <2> QED BY <1>2, <1>3, <2>2, <2>3 DEF FreePieces
<1>5. Within(x, small_pages, small_page_offs)
  BY <1>1, <1>4 DEF Inv, SmallOK, Pieces
<1>6. a[1] \in ToSet(small_pages)
  BY <1>4, <1>5 DEF Within
<1>7. a[1] \notin PagesOf(blocks) /\ ~(a[1] > MaxPages)
  BY <1>1, <1>6, KindsApart
<1>8. p.type \in Types
  BY HeldPage
<1>9. CASE p.type # "small"
  <2>1. PICK m : ExtentOf(p) = <<p.at, m>>
    BY HeldPage
  <2>2. p.at[1] # a[1]
    BY <1>7, <1>8, <1>9, HeldPage DEF Types
  <2> QED BY <1>2, <2>1, <2>2 DEF Overlap
<1>10. CASE p.type = "small"
  <2>1. PICK y : y = <<p.at, small[p.at]>>
    OBVIOUS
  <2>2. y \in UsedPieces(small)
    BY <1>10, <2>1, HeldSmall
  <2>3. x # y
    BY <1>1, <1>4, <2>2 DEF Inv, SmallOK, SmallSound
  <2>4. Apart(x[1], getSize(x[2]), y[1], getSize(y[2]))
    BY <1>1, <1>4, <2>2, <2>3 DEF Inv, SmallOK, SmallSound, AllApart, Pieces
  <2>5. PICK k \in Nat : k = getSize(small[p.at])
    BY <1>10, HeldSmall
  <2>6. PICK l \in Nat : l = getSize(i)
    BY PieceSizes
  <2>7. Apart(a, l, p.at, k)
    BY <1>4, <2>1, <2>4, <2>5, <2>6
  <2>8. ExtentOf(p) = <<p.at, k>> /\ p.at \in Places
    BY <1>10, <2>5, HeldSmall
  <2> QED BY <1>2, <1>4, <2>6, <2>7, <2>8 DEF Apart, Overlap, Places
<1> QED BY <1>9, <1>10

\* Nobody else has the memory of a pointer, and the destructor gives every page back.
LEMMA InvApart ==
    ASSUME HeapAssumption, Inv
    PROVE  MemoryApart
<1>1. \A p, q \in held : p # q => ~Overlap(ExtentOf(p), ExtentOf(q))
  BY TwoApart
<1>2. ASSUME NEW p \in held
      PROVE  /\ ExtentOf(p)[2] >= p.size + HeaderOf(p)
             /\ p.type # "large" => p.at[1] \in pages /\ p.at[2] + ExtentOf(p)[2] <= PageSize
  <2>1. ~destroyed
    BY DEF Inv, PagesOK
  <2>2. pages = ToSet(small_pages) \cup PagesOf(blocks)
    BY <2>1, KindsApart
  <2>3. CASE p.type = "small"
    <3>1. PICK m \in Nat : m = getSize(small[p.at])
      BY <2>3, HeldSmall
    <3>2. /\ ExtentOf(p) = <<p.at, m>> /\ HeaderOf(p) = SmallHeader /\ m >= p.size + SmallHeader
          /\ p.at[1] \in ToSet(small_pages) /\ p.at[2] + m <= PageSize
      BY <2>3, <3>1, HeldSmall
    <3> QED BY <2>2, <3>2
  <2>4. CASE p.type = "medium"
    <3>1. PICK i \in 1 .. Len(blocks) :
             /\ p.at = Where(blocks, i) /\ ExtentOf(p) = <<p.at, Wide(blocks, i)>>
             /\ HeaderOf(p) = BlockHeader /\ Wide(blocks, i) >= p.size + BlockHeader
      BY <2>4, HeldMedium
    <3>2. p.at[1] = Home(blocks, i) /\ p.at[2] = From(blocks, i)
      BY <3>1 DEF Where
    <3>3. From(blocks, i) + Wide(blocks, i) <= PageSize
      BY DEF Inv, MediumOK, ChainOK, Sized, Until
    <3>4. p.at[1] \in pages
      BY <2>2, <3>2 DEF PagesOf
    <3> QED BY <3>1, <3>2, <3>3, <3>4
  <2>5. CASE p.type = "large"
    BY <2>5, HeldLarge
  <2> QED BY <2>3, <2>4, <2>5, HeldPage DEF Types
<1>3. LiveDisjoint
  BY <1>1, <1>2 DEF LiveDisjoint
<1>4. FreeSmallUnused
  BY FreeApart DEF FreeSmallUnused
<1>5. DestroyReturnsAll
  BY DEF Inv, PagesOK, DestroyReturnsAll
<1> QED BY <1>3, <1>4, <1>5 DEF MemoryApart

\* No byte is in two blocks in use or in a block in use and a free small one, every block is
\* large enough and inside memory of the heap, and the destructor returns every page,
\* through all of OSHeapManager::malloc and free.
THEOREM MemoryIsApart == Quiet => (Spec => []MemoryApart)
<1>1. ASSUME Quiet PROVE Spec => []MemoryApart
  <2>1. Inv => MemoryApart
    BY <1>1, InvApart DEF Quiet
  <2> QED BY <1>1, <2>1, SpecInv, PTL
<1> QED BY <1>1

-----------------------------------------------------------------------------
(* The lists and the statistics.                                           *)

\* What the merging code takes from the neighbours of a block in the list.
LEMMA InvTile ==
    ASSUME HeapAssumption, Inv
    PROVE  BlocksTile /\ Coalesced
<1>1. PICK bs : bs = blocks
  OBVIOUS
<1>2. ChainOK(bs) /\ NoneAdjoin(bs)
  BY <1>1 DEF Inv, MediumOK
<1>3. /\ Len(bs) \in Nat /\ DOMAIN bs = 1 .. Len(bs) /\ PageSize \in Nat
      /\ \A i \in 1 .. Len(bs) :
            /\ bs[i].at = <<Home(bs, i), From(bs, i)>> /\ From(bs, i) \in Nat /\ Wide(bs, i) \in Nat
            /\ Until(bs, i) = From(bs, i) + Wide(bs, i)
  BY <1>2, ChainFacts DEF ChainOK
<1>4. \A i, j \in 1 .. Len(bs) : Home(bs, i) = Home(bs, j) => bs[i].page = bs[j].page
  BY <1>2 DEF ChainOK, Paged, Number
<1>5. ASSUME NEW i \in 1 .. Len(bs), bs[i].at[2] # 0
      PROVE  /\ i > 1 /\ bs[i - 1].page = bs[i].page
             /\ bs[i - 1].at = <<bs[i].at[1], bs[i].at[2] - bs[i - 1].size>>
  <2>1. From(bs, i) # 0
    BY <1>5 DEF From
  <2>2. i > 1 /\ Home(bs, i - 1) = Home(bs, i) /\ Until(bs, i - 1) = From(bs, i)
    BY <1>2, <2>1 DEF ChainOK, TiledBefore
  <2>3. i - 1 \in 1 .. Len(bs)
    BY <1>3, <2>2
  <2>4. From(bs, i - 1) = From(bs, i) - Wide(bs, i - 1)
    BY <1>3, <2>2, <2>3
  <2> QED BY <1>3, <1>4, <2>2, <2>3, <2>4 DEF Home, From, Wide
<1>6. ASSUME NEW i \in 1 .. Len(bs), bs[i].at[2] + bs[i].size # PageSize
      PROVE  /\ i < Len(bs) /\ bs[i + 1].page = bs[i].page
             /\ bs[i + 1].at = <<bs[i].at[1], bs[i].at[2] + bs[i].size>>
  <2>1. Until(bs, i) # PageSize
    BY <1>6 DEF Until, From, Wide
  <2>2. i < Len(bs) /\ Home(bs, i + 1) = Home(bs, i) /\ Until(bs, i) = From(bs, i + 1)
    BY <1>2, <2>1 DEF ChainOK, TiledBehind
  <2>3. i + 1 \in 1 .. Len(bs)
    BY <1>3, <2>2
  <2> QED BY <1>3, <1>4, <2>2, <2>3 DEF Home, From, Wide
<1>7. BlocksTile
  <2>1. DOMAIN blocks = 1 .. Len(bs)
    BY <1>1, <1>3
  <2> QED BY <1>1, <1>5, <1>6, <2>1 DEF BlocksTile
<1>8. ASSUME NEW i \in 1 .. Len(bs) - 1, bs[i].at[1] = bs[i + 1].at[1]
      PROVE  ~(bs[i].is_free /\ bs[i + 1].is_free)
  <2>1. i \in 1 .. Len(bs) /\ i + 1 \in 1 .. Len(bs)
    BY <1>3
  <2> QED BY <1>2, <1>8, <2>1 DEF NoneAdjoin, Home, Free
<1>9. Coalesced
  BY <1>1, <1>8 DEF Coalesced
<1> QED BY <1>7, <1>9

\* The free list, as FreeListExact says it.
LEMMA InvFreeList ==
    ASSUME HeapAssumption, Inv
    PROVE  FreeListExact
<1>1. SUFFICES ASSUME ~destroyed
               PROVE  /\ \A i \in 1 .. Len(free_list) - 1 :
                            Size(blocks, free_list[i]) >= Size(blocks, free_list[i + 1])
                      /\ IsInjective(free_list)
                      /\ ToSet(free_list) = {b.at : b \in {c \in ToSet(blocks) : c.is_free}}
  BY DEF FreeListExact
<1>2. PICK fl : fl = free_list
  OBVIOUS
<1>3. ListFor(blocks, fl, FreeAt(blocks)) /\ ChainOK(blocks)
  BY <1>1, <1>2 DEF Inv, ListOK, FreeOK, MediumOK
<1>4. /\ fl \in Seq(Places) /\ FreeAt(blocks) = {fl[i] : i \in 1 .. Len(fl)}
      /\ \A i, j \in 1 .. Len(fl) : fl[i] = fl[j] => i = j
      /\ \A i, j \in 1 .. Len(fl) : i < j => Size(blocks, fl[i]) >= Size(blocks, fl[j])
  BY <1>3 DEF ListFor
<1>5. Len(fl) \in Nat /\ DOMAIN fl = 1 .. Len(fl)
  BY <1>4, LenProperties
<1>6. ASSUME NEW i \in 1 .. Len(fl) - 1 PROVE Size(blocks, fl[i]) >= Size(blocks, fl[i + 1])
  <2>1. i \in 1 .. Len(fl) /\ i + 1 \in 1 .. Len(fl) /\ i < i + 1
    BY <1>5
  <2> QED BY <1>4, <2>1
<1>7. IsInjective(fl)
  BY <1>4, <1>5 DEF IsInjective
<1>8. ToSet(fl) = FreeAt(blocks)
  BY <1>4, <1>5 DEF ToSet
<1>9. FreeAt(blocks) = {b.at : b \in {c \in ToSet(blocks) : c.is_free}}
  BY <1>3, Addresses DEF ChainOK
<1> QED BY <1>2, <1>6, <1>7, <1>8, <1>9

\* The free pages are among the first KeptPages of the free list.
LEMMA InvFewPages ==
    ASSUME HeapAssumption, Inv
    PROVE  FreePagesBounded
<1>1. PICK S : S = {b \in ToSet(blocks) : b.is_free /\ b.size = PageSize}
  OBVIOUS
<1>2. KeptPages \in Nat
  BY DEF HeapAssumption
<1>3. CASE destroyed
  <2>1. S = {}
    BY <1>1, <1>3 DEF Inv, PagesOK, ToSet
  <2>2. Cardinality(S) = 0
    BY <2>1, FS_EmptySet
  <2> QED BY <1>1, <1>2, <2>2 DEF FreePagesBounded
<1>4. CASE ~destroyed
  <2>1. ChainOK(blocks) /\ FreeOK(blocks, free_list) /\ FewPages(blocks, free_list)
    BY <1>4 DEF Inv, MediumOK, ListOK
  <2>2. PICK T : T = {i \in 1 .. KeptPages : i <= Len(free_list) /\ blocks[Index(blocks, free_list[i])] \in S}
    OBVIOUS
  <2>3. IsFiniteSet(T) /\ Cardinality(T) <= KeptPages /\ Cardinality(T) \in Nat
    <3>1. IsFiniteSet(1 .. KeptPages) /\ Cardinality(1 .. KeptPages) = KeptPages
      BY <1>2, FS_Interval
    <3>2. T \subseteq 1 .. KeptPages
      BY <2>2
    <3> QED BY <3>1, <3>2, FS_Subset, FS_CardinalityType
  <2>4. PICK f : f = [i \in T |-> blocks[Index(blocks, free_list[i])]]
    OBVIOUS
  <2>5. ASSUME NEW b \in S PROVE \E i \in T : f[i] = b
    <3>1. Len(blocks) \in Nat /\ DOMAIN blocks = 1 .. Len(blocks)
      BY <2>1, ChainFacts DEF ChainOK
    <3>2. PICK k \in 1 .. Len(blocks) : b = blocks[k]
      BY <1>1, <3>1 DEF ToSet
    <3>3. Free(blocks, k) /\ Wide(blocks, k) = PageSize
      BY <1>1, <3>2 DEF Free, Wide
    <3>4. Where(blocks, k) \in FreeAt(blocks)
      BY <2>1, <3>3, FreeBlocks
    <3>5. PICK i \in 1 .. Len(free_list) : free_list[i] = Where(blocks, k)
      BY <2>1, <3>4 DEF FreeOK, ListFor
    <3>6. Size(blocks, free_list[i]) = PageSize /\ Index(blocks, free_list[i]) = k
      BY <2>1, <3>3, <3>5, OneBlock DEF ChainOK
    <3>7. Len(free_list) \in Nat /\ PageSize \in Nat
      BY <2>1, LenProperties, AlignedHeaders DEF FreeOK, ListFor
    <3>8. i <= KeptPages
      BY <1>2, <2>1, <3>6, <3>7 DEF FewPages
    <3>9. i \in T
      BY <1>2, <2>2, <3>2, <3>6, <3>7, <3>8
    <3> QED BY <2>4, <3>2, <3>6, <3>9
  <2>6. f \in Surjection(T, S)
    <3>1. f \in [T -> S]
      BY <2>2, <2>4
    <3> QED BY <2>5, <3>1 DEF Surjection
  <2>7. IsFiniteSet(S) /\ Cardinality(S) <= Cardinality(T)
    BY <2>3, <2>6, FS_Surjection
  <2>8. Cardinality(S) \in Nat
    BY <2>7, FS_CardinalityType
  <2> QED BY <1>1, <1>2, <2>3, <2>7, <2>8 DEF FreePagesBounded
<1> QED BY <1>3, <1>4

\* The three lists and the statistics are right.
LEMMA InvExact ==
    ASSUME Quiet, Inv
    PROVE  BlocksExact
<1>1. HeapAssumption /\ MaxNextPage < PageIdMod
  BY DEF Quiet
<1>2. TypeOK
  <2>1. next_page \in 0 .. PageIdMod - 1
    <3>1. next_page \in 1 .. MaxNextPage /\ MaxNextPage \in 1 .. PageIdMod /\ PageIdMod \in Nat
      BY <1>1 DEF Inv, MediumOK, HeapAssumption
    <3> QED BY <1>1, <3>1
  <2>2. small_page_offs \in 0 .. PageSize /\ small_page_offs % Align = 0
    <3>1. small_page_offs \in Aligned /\ small_page_offs <= PageSize
      BY DEF Inv, SmallOK, SmallTyped
    <3>2. PageSize \in Nat
      BY <1>1, AlignedHeaders
    <3> QED BY <3>1, <3>2 DEF Aligned
  <2>3. DOMAIN free_small = Slots /\ \A a \in DOMAIN small : small[a] \in Slots
    BY DEF Inv, SmallOK, SmallTyped
  <2>4. ASSUME NEW i \in DOMAIN blocks
        PROVE  /\ blocks[i].size \in FreeHeader .. PageSize
               /\ blocks[i].size % Align = 0 /\ blocks[i].at[2] % Align = 0
    <3>1. i \in 1 .. Len(blocks) /\ PageSize \in Nat /\ FreeHeader \in Nat
          /\ From(blocks, i) \in Nat /\ Wide(blocks, i) \in Nat
          /\ Wide(blocks, i) \in Aligned /\ From(blocks, i) \in Aligned
          /\ Until(blocks, i) = From(blocks, i) + Wide(blocks, i)
          /\ Until(blocks, i) <= PageSize /\ Wide(blocks, i) >= FreeHeader
      BY <1>1, ChainFacts DEF Inv, MediumOK, ChainOK
    <3>2. Wide(blocks, i) <= PageSize
      BY <3>1
    <3> QED BY <3>1, <3>2 DEF Aligned, Wide, From
  <2>5. pages \subseteq 1 .. MaxPages
    BY DEF Inv, PagesOK
  <2> QED BY <2>1, <2>2, <2>3, <2>4, <2>5 DEF TypeOK
<1>3. StatsExact
  BY DEF Inv, StatsOK, StatsExact, Entry, SmallSizes
<1> QED BY <1>1, <1>2, <1>3, InvTile, InvFreeList, InvFewPages DEF BlocksExact

\* The list of blocks, the free list, the small lists and the statistics stay right whatever
\* is allocated, split, merged and given back, and at most KeptPages free pages stay.
THEOREM BlocksAreExact == Quiet => (Spec => []BlocksExact)
<1>1. ASSUME Quiet PROVE Spec => []BlocksExact
  <2>1. Inv => BlocksExact
    BY <1>1, InvExact
  <2> QED BY <1>1, <2>1, SpecInv, PTL
<1> QED BY <1>1
=============================================================================
