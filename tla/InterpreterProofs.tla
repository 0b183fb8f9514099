------------------------- MODULE InterpreterProofs -------------------------
(***************************************************************************)
(* Proofs about the interpreter.  PropAccess, for any objects, prototypes  *)
(* and handlers, any names and any limit: the guards are exact, nesting is *)
(* bounded, valueOf is active once, and read only properties stay so.      *)
(* Execute, for buffers of any size and any depth: the stack and the       *)
(* frames agree, and results reach the frame that asked for them.          *)
(*                                                                         *)
(* AccessSound alone is not inductive: it does not say that a counter that *)
(* is there is positive, nor that an entry of a guard is never empty, so   *)
(* that popRecursion could delete a counter that is still needed or keep   *)
(* an entry that is not.  Inv adds both.                                   *)
(***************************************************************************)
EXTENDS PropAccess, Execute, FiniteSetTheorems, SequenceTheorems, TLAPS

-----------------------------------------------------------------------------
(* How often a value is in a sequence.                                     *)

Places(s, e) == {k \in DOMAIN s : s[k] = e}

\* The places of a value are finitely many.
LEMMA PlacesFinite ==
  ASSUME NEW S, NEW s \in Seq(S), NEW e
  PROVE  IsFiniteSet(Places(s, e)) /\ Cardinality(Places(s, e)) \in Nat
<1>1. IsFiniteSet(1 .. Len(s))
  BY FS_Interval
<1>2. Places(s, e) \subseteq 1 .. Len(s)
  BY DEF Places
<1> QED BY <1>1, <1>2, FS_Subset, FS_CardinalityType

\* Appending a value makes one more of it, and changes no other number.
LEMMA PlacesAppend ==
  ASSUME NEW S, NEW s \in Seq(S), NEW d \in S, NEW e
  PROVE  Cardinality(Places(Append(s, d), e)) =
             Cardinality(Places(s, e)) + (IF d = e THEN 1 ELSE 0)
<1> DEFINE t == Append(s, d)
           n == Len(s) + 1
<1>1. /\ t \in Seq(S) /\ Len(t) = n /\ t[n] = d
      /\ \A k \in 1 .. Len(s) : t[k] = s[k]
  BY AppendProperties
<1>2. n \notin Places(s, e) /\ Len(s) \in Nat
  BY DEF Places
<1>3. DOMAIN t = 1 .. n /\ DOMAIN s = 1 .. Len(s)
  BY <1>1
<1>4. CASE d = e
  <2>1. Places(t, e) = Places(s, e) \cup {n}
    <3> HIDE DEF t
    <3> QED BY <1>1, <1>2, <1>3, <1>4 DEF Places
  <2> QED BY <2>1, <1>2, <1>4, PlacesFinite, FS_AddElement
<1>5. CASE d # e
  <2>1. Places(t, e) = Places(s, e)
    <3> HIDE DEF t
    <3> QED BY <1>1, <1>2, <1>3, <1>5 DEF Places
  <2> QED BY <2>1, <1>5, PlacesFinite
<1> QED BY <1>4, <1>5

\* Removing the last value is the inverse.
LEMMA PlacesFront ==
  ASSUME NEW S, NEW s \in Seq(S), s # << >>, NEW e
  PROVE  /\ Front(s) \in Seq(S) /\ Last(s) \in S /\ Len(Front(s)) = Len(s) - 1
         /\ Cardinality(Places(s, e)) =
                Cardinality(Places(Front(s), e)) + (IF Last(s) = e THEN 1 ELSE 0)
<1>1. Len(s) \in Nat /\ Len(s) # 0
  BY EmptySeq
<1>2. Last(s) \in S
  BY <1>1 DEF Last
<1>3. /\ Front(s) \in Seq(S) /\ Len(Front(s)) = Len(s) - 1
      /\ \A k \in 1 .. Len(s) - 1 : Front(s)[k] = s[k]
  <2> DEFINE n == Len(s) - 1
  <2>1. \A i \in 1 .. n : s[i] \in S
    BY <1>1
  <2>2. n \in Nat /\ 1 \in Int /\ n \in Int
    BY <1>1
  <2>3. Front(s) = SubSeq(s, 1, n)
    BY DEF Front
  <2> HIDE DEF n
  <2>4. /\ SubSeq(s, 1, n) \in Seq(S)
        /\ Len(SubSeq(s, 1, n)) = IF 1 <= n THEN n - 1 + 1 ELSE 0
        /\ \A i \in 1 .. n - 1 + 1 : SubSeq(s, 1, n)[i] = s[1 + i - 1]
    BY <2>1, <2>2, SubSeqProperties
  <2>5. Front(s) \in Seq(S) /\ Len(Front(s)) = n /\ \A k \in 1 .. n : Front(s)[k] = s[k]
    BY <2>2, <2>3, <2>4
  <2> QED BY <2>5 DEF n
<1>4. s = Append(Front(s), Last(s))
  <2> DEFINE f == Front(s)  l == Last(s)  t == Append(f, l)
  <2>1. t \in Seq(S) /\ Len(t) = Len(s) /\ t[Len(s)] = l /\ \A k \in 1 .. Len(s) - 1 : t[k] = f[k]
    BY <1>1, <1>2, <1>3, AppendProperties
  <2>2. l = s[Len(s)]
    BY DEF Last
  <2>3. \A k \in 1 .. Len(s) : t[k] = s[k]
    <3> HIDE DEF t, f, l
    <3>1. \A k \in 1 .. Len(s) : k = Len(s) \/ k \in 1 .. Len(s) - 1
      BY <1>1
    <3>2. \A k \in 1 .. Len(s) - 1 : f[k] = s[k]
      BY <1>3 DEF f
    <3> QED BY <2>1, <2>2, <3>1, <3>2
  <2> HIDE DEF t
  <2>4. t = s
    BY <2>1, <2>3, SeqEqual
  <2> QED BY <2>4 DEF t
<1>5. PICK f, l : f = Front(s) /\ l = Last(s)
  OBVIOUS
<1>6. s = Append(f, l) /\ f \in Seq(S) /\ l \in S
  BY <1>2, <1>3, <1>4, <1>5
<1>7. Cardinality(Places(s, e)) = Cardinality(Places(f, e)) + (IF l = e THEN 1 ELSE 0)
  BY <1>6, PlacesAppend
<1> QED BY <1>2, <1>3, <1>5, <1>7

-----------------------------------------------------------------------------
(* The table of a guard.                                                   *)

\* The entry of an object: positive counters, and something in it.
Entry(e) ==
    /\ e = [count |-> e.count, nan |-> e.nan] /\ e.nan \in BOOLEAN
    /\ e.count = [n \in DOMAIN e.count |-> e.count[n]] /\ DOMAIN e.count \subseteq Counted
    /\ \A n \in DOMAIN e.count : e.count[n] \in Nat \ {0}
    /\ DOMAIN e.count # {} \/ e.nan

Table(t) ==
    /\ t = [o \in DOMAIN t |-> t[o]] /\ DOMAIN t \subseteq Objs
    /\ \A o \in DOMAIN t : Entry(t[o])

Count(t, o, n) ==
    IF o \in DOMAIN t /\ n \in DOMAIN t[o].count THEN t[o].count[n] ELSE 0

LEMMA CounterIsCount ==
  ASSUME NEW g \in Guarded, NEW o, NEW n
  PROVE  Counter(g, o, n) = Count(guard[g], o, n)
<1>1. DOMAIN NoCounters.count = {}
  BY DEF NoCounters
<1> QED BY <1>1 DEF Counter, SubTable, Count

LEMMA CountIsNatural ==
  ASSUME NEW t, Table(t), NEW o, NEW n
  PROVE  Count(t, o, n) \in Nat
BY DEF Table, Entry, Count

\* A count moves by d at one name of one object.
Moved(t, u, o, n, d) ==
    \A p \in Objs, m \in Counted :
        Count(u, p, m) = Count(t, p, m) + (IF p = o /\ m = n THEN d ELSE 0)

\* pushRecursion adds one to one counter, or an entry of the name NaN.
LEMMA PushCounts ==
  ASSUME NEW g \in Guarded, NEW o \in Objs, NEW n \in Names,
         DOMAIN guard = Guarded, Table(guard[g]), pushRecursion(g, o, n)
  PROVE  /\ DOMAIN guard' = Guarded
         /\ \A h \in Guarded \ {g} : guard'[h] = guard[h]
         /\ Table(guard'[g]) /\ Moved(guard[g], guard'[g], o, n, 1)
<1> DEFINE t == guard[g]
           sub == SubTable(g, o)
           c == Counter(g, o, n) + 1
           pushed == IF n = NaN THEN [sub EXCEPT !.nan = TRUE]
                     ELSE [sub EXCEPT !.count = Put(sub.count, n, c)]
           u == Put(t, o, pushed)
<1>1. guard' = [guard EXCEPT ![g] = u]
  BY DEF pushRecursion
<1>2. c = Count(t, o, n) + 1 /\ c \in Nat \ {0}
  <2>1. Count(t, o, n) \in Nat
    BY CountIsNatural
  <2> HIDE DEF t
  <2> QED BY <2>1, CounterIsCount DEF t
<1>3. /\ sub = [count |-> sub.count, nan |-> sub.nan] /\ sub.nan \in BOOLEAN
      /\ sub.count = [m \in DOMAIN sub.count |-> sub.count[m]]
      /\ DOMAIN sub.count \subseteq Counted
      /\ \A m \in DOMAIN sub.count : sub.count[m] \in Nat \ {0}
      /\ \A m : Count(t, o, m) = IF m \in DOMAIN sub.count THEN sub.count[m] ELSE 0
  <2>1. CASE o \in DOMAIN t
    <3>1. sub = t[o] /\ Entry(t[o])
      BY <2>1 DEF SubTable, Table
    <3> HIDE DEF t
    <3> QED BY <2>1, <3>1 DEF Entry, Count
  <2>2. CASE o \notin DOMAIN t
    <3>1. sub = NoCounters
      BY <2>2 DEF SubTable
    <3>2. /\ NoCounters.nan = FALSE /\ NoCounters.count = << >>
          /\ NoCounters = [count |-> NoCounters.count, nan |-> NoCounters.nan]
      BY DEF NoCounters
    <3>3. DOMAIN << >> = {} /\ << >> = [m \in {} |-> << >>[m]]
      OBVIOUS
    <3> HIDE DEF t, sub
    <3> QED BY <2>2, <3>1, <3>2, <3>3 DEF Count
  <2> QED BY <2>1, <2>2
<1>4. Table(t)
  OBVIOUS
<1>5. /\ Entry(pushed)
      /\ \A m \in Counted : (IF m \in DOMAIN pushed.count THEN pushed.count[m] ELSE 0)
             = Count(t, o, m) + (IF m = n THEN 1 ELSE 0)
  <2> HIDE DEF t, sub, c
  <2>0. \A m : Count(t, o, m) \in Nat
    BY <1>4, CountIsNatural
  <2>1. CASE n = NaN
    <3>1. pushed.count = sub.count /\ pushed.nan = TRUE
          /\ pushed = [count |-> sub.count, nan |-> TRUE]
      BY <2>1, <1>3
    <3>2. n \notin Counted
      BY <2>1 DEF Counted
    <3> HIDE DEF pushed
    <3> QED BY <3>1, <3>2, <1>3, <2>0 DEF Entry
  <2>2. CASE n # NaN
    <3> DEFINE f == Put(sub.count, n, c)
    <3>1. /\ pushed.count = f /\ pushed.nan = sub.nan
          /\ pushed = [count |-> f, nan |-> sub.nan]
      BY <2>2, <1>3
    <3>2. /\ f = [m \in DOMAIN f |-> f[m]] /\ DOMAIN f = DOMAIN sub.count \cup {n}
          /\ \A m \in DOMAIN f : f[m] = IF m = n THEN c ELSE sub.count[m]
      BY DEF Put
    <3>3. n \in Counted
      BY <2>2 DEF Counted
    <3> HIDE DEF pushed, f
    <3>4. Entry(pushed)
      BY <3>1, <3>2, <3>3, <1>2, <1>3 DEF Entry
    <3>5. ASSUME NEW m \in Counted
          PROVE  (IF m \in DOMAIN f THEN f[m] ELSE 0) = Count(t, o, m) + (IF m = n THEN 1 ELSE 0)
      BY <3>2, <1>2, <1>3, <2>0
    <3> QED BY <3>1, <3>4, <3>5
  <2> QED BY <2>1, <2>2
<1>6. /\ u = [p \in DOMAIN u |-> u[p]] /\ DOMAIN u = DOMAIN t \cup {o}
      /\ \A p \in DOMAIN u : u[p] = IF p = o THEN pushed ELSE t[p]
  <2> HIDE DEF t, pushed
  <2> QED BY DEF Put
<1>7. Table(u)
  <2> HIDE DEF u, t, pushed
  <2> QED BY <1>4, <1>5, <1>6 DEF Table
<1>8. Moved(t, u, o, n, 1)
  <2> HIDE DEF u, t, pushed
  <2> SUFFICES ASSUME NEW p \in Objs, NEW m \in Counted
               PROVE  Count(u, p, m) = Count(t, p, m) + (IF p = o /\ m = n THEN 1 ELSE 0)
    BY DEF Moved
  <2>1. CASE p = o
    BY <2>1, <1>5, <1>6 DEF Count
  <2>2. CASE p # o
    <3>1. Count(u, p, m) = Count(t, p, m)
      BY <2>2, <1>6 DEF Count
    <3> QED BY <2>2, <3>1, <1>4, CountIsNatural
  <2> QED BY <2>1, <2>2
<1> HIDE DEF u
<1>9. guard'[g] = u /\ DOMAIN guard' = Guarded /\ \A h \in Guarded \ {g} : guard'[h] = guard[h]
  BY <1>1
<1> QED BY <1>7, <1>8, <1>9

\* popRecursion takes one from a counter that is positive.
LEMMA PopCounts ==
  ASSUME NEW g \in Guarded, NEW o \in Objs, NEW n \in Names,
         DOMAIN guard = Guarded, \A h \in Guarded : Table(guard[h]),
         n \in Counted => Count(guard[g], o, n) > 0, popRecursion(g, o, n)
  PROVE  /\ DOMAIN guard' = Guarded
         /\ \A h \in Guarded \ {g} : guard'[h] = guard[h]
         /\ Table(guard'[g]) /\ Moved(guard'[g], guard[g], o, n, 1)
<1> DEFINE t == guard[g]
           sub == SubTable(g, o)
           c == Counter(g, o, n)
<1>1. Table(t) /\ c = Count(t, o, n) /\ \A p, m : Count(t, p, m) \in Nat
  <2>1. Table(t)
    OBVIOUS
  <2>2. c = Count(t, o, n)
    BY CounterIsCount
  <2> HIDE DEF t, c
  <2> QED BY <2>1, <2>2, CountIsNatural
<1>2. CASE c = 0
  <2>1. n \notin Counted
    <3> HIDE DEF c
    <3> QED BY <1>1, <1>2
  <2>2. guard' = guard
    BY <1>2 DEF popRecursion
  <2>3. Moved(t, t, o, n, 1)
    <3> HIDE DEF t
    <3> QED BY <1>1, <2>1 DEF Moved
  <2> QED BY <2>2, <2>3
<1>3. CASE c # 0
  <2>1. /\ o \in DOMAIN t /\ sub = t[o] /\ Entry(t[o])
        /\ n \in DOMAIN t[o].count /\ t[o].count[n] = c /\ n \in Counted
    <3>1. o \in DOMAIN t /\ n \in DOMAIN t[o].count /\ c = t[o].count[n]
      <4> HIDE DEF t, c
      <4> QED BY <1>1, <1>3 DEF Count
    <3>2. sub = t[o]
      BY <3>1 DEF SubTable
    <3> HIDE DEF t, c, sub
    <3> QED BY <1>1, <3>1, <3>2 DEF Table, Entry
  <2> DEFINE e == t[o]
             f == IF c > 1 THEN [e.count EXCEPT ![n] = c - 1]
                  ELSE [m \in DOMAIN e.count \ {n} |-> e.count[m]]
             d == [count |-> f, nan |-> e.nan]
             gone == c = 1 /\ DOMAIN e.count = {n} /\ ~e.nan
             u == IF gone THEN [p \in DOMAIN t \ {o} |-> t[p]] ELSE [t EXCEPT ![o] = d]
  <2>2. c \in Nat \ {0} /\ (c > 1 \/ c = 1)
    <3> HIDE DEF t, c
    <3> QED BY <1>1, <1>3
  <2>3. guard' = [guard EXCEPT ![g] = u]
    <3>1. e = [count |-> e.count, nan |-> e.nan]
      BY <2>1 DEF Entry
    <3>2. CASE c > 1
      <4>1. guard' = [guard EXCEPT ![g][o].count[n] = guard[g][o].count[n] - 1]
        BY <1>3, <3>2 DEF popRecursion
      <4>2. [e EXCEPT !.count = [e.count EXCEPT ![n] = c - 1]] = d
        <5> HIDE DEF c, e
        <5> QED BY <3>1, <3>2
      <4>3. guard[g][o].count[n] = c
        BY <2>1
      <4>4. ~gone
        <5> HIDE DEF c
        <5> QED BY <3>2
      <4>5. [guard EXCEPT ![g][o].count[n] = c - 1] =
            [guard EXCEPT ![g] = [t EXCEPT ![o] = [e EXCEPT !.count = [e.count EXCEPT ![n] = c - 1]]]]
        <5> HIDE DEF c
        <5> QED OBVIOUS
      <4> HIDE DEF c, d, e, gone, t
      <4> QED BY <4>1, <4>2, <4>3, <4>4, <4>5 DEF e, t
    <3>3. CASE c = 1 /\ gone
      <4>1. guard' = [guard EXCEPT ![g] = Restrict(guard[g], DOMAIN guard[g] \ {o})]
        BY <1>3, <2>1, <3>3 DEF popRecursion
      <4>2. Restrict(t, DOMAIN t \ {o}) = [p \in DOMAIN t \ {o} |-> t[p]]
        BY DEF Restrict
      <4> HIDE DEF c, d, e, gone
      <4> QED BY <3>3, <4>1, <4>2
    <3>4. CASE c = 1 /\ ~gone
      <4>0. ~(c > 1)
        <5> HIDE DEF c
        <5> QED BY <3>4
      <4>1. guard' = [guard EXCEPT ![g][o].count =
                        Restrict(guard[g][o].count, DOMAIN guard[g][o].count \ {n})]
        BY <1>3, <2>1, <3>4, <4>0 DEF popRecursion
      <4>2. f = Restrict(e.count, DOMAIN e.count \ {n})
        BY <4>0 DEF Restrict
      <4> DEFINE r == Restrict(guard[g][o].count, DOMAIN guard[g][o].count \ {n})
      <4>3. r = f
        BY <4>2
      <4>4. guard' = [guard EXCEPT ![g][o].count = r]
        BY <4>1
      <4>5. [e EXCEPT !.count = r] = d
        <5>1. [e EXCEPT !.count = r] = [count |-> r, nan |-> e.nan]
          <6> HIDE DEF r, e
          <6> QED BY <3>1
        <5> HIDE DEF r, f
        <5> QED BY <4>3, <5>1
      <4>6. [guard EXCEPT ![g][o].count = r] = [guard EXCEPT ![g] = [t EXCEPT ![o] = [e EXCEPT !.count = r]]]
        <5> HIDE DEF r
        <5> QED OBVIOUS
      <4> HIDE DEF c, d, e, gone, r, t
      <4> QED BY <3>4, <4>4, <4>5, <4>6 DEF e, t
    <3> HIDE DEF c, gone, u
    <3> QED BY <2>2, <3>2, <3>3, <3>4
  <2>4. /\ f = [m \in DOMAIN f |-> f[m]] /\ DOMAIN f \subseteq DOMAIN e.count
        /\ \A m \in DOMAIN e.count : IF m \in DOMAIN f THEN f[m] = e.count[m] - (IF m = n THEN 1 ELSE 0)
                                     ELSE m = n /\ c = 1
        /\ \A m \in DOMAIN f : f[m] \in Nat \ {0}
        /\ c > 1 => DOMAIN f = DOMAIN e.count
        /\ c = 1 => DOMAIN f = DOMAIN e.count \ {n}
    <3>1. \A m \in DOMAIN e.count : e.count[m] \in Nat \ {0}
      BY <2>1 DEF Entry
    <3>2. e.count = [m \in DOMAIN e.count |-> e.count[m]] /\ n \in DOMAIN e.count /\ e.count[n] = c
      BY <2>1 DEF Entry
    <3>3. PICK q : q = e.count
      OBVIOUS
    <3>4. CASE c > 1
      <4>1. f = [q EXCEPT ![n] = c - 1]
        BY <3>3, <3>4
      <4> HIDE DEF c, e, f, d, u, gone
      <4>2. DOMAIN f = DOMAIN q /\ \A m \in DOMAIN q : f[m] = IF m = n THEN c - 1 ELSE q[m]
        BY <3>2, <3>3, <4>1
      <4>3. f = [m \in DOMAIN f |-> f[m]]
        BY <4>1
      <4> QED BY <2>2, <3>1, <3>2, <3>3, <3>4, <4>2, <4>3
    <3>5. CASE c = 1
      <4>0. ~(c > 1)
        <5> HIDE DEF c
        <5> QED BY <3>5
      <4>1. f = [m \in DOMAIN q \ {n} |-> q[m]]
        BY <3>3, <4>0
      <4> HIDE DEF c, e, f, d, u, gone
      <4> QED BY <2>2, <3>1, <3>2, <3>3, <3>5, <4>0, <4>1
    <3> HIDE DEF c, e, f, d, u, gone
    <3> QED BY <2>2, <3>4, <3>5
  <2>5. ~gone => Entry(d)
    <3>1. d.count = f /\ d.nan = e.nan
      OBVIOUS
    <3>2. ~gone => DOMAIN f # {} \/ e.nan
      <4>1. n \in DOMAIN e.count
        BY <2>1
      <4> HIDE DEF f, c, e
      <4> QED BY <2>2, <2>4, <4>1
    <3>3. DOMAIN e.count \subseteq Counted /\ e.nan \in BOOLEAN
      BY <2>1 DEF Entry
    <3> HIDE DEF f, c, e, gone
    <3> QED BY <2>4, <3>1, <3>2, <3>3 DEF Entry
  <2>6. Table(u)
    <3>1. CASE gone
      <4> HIDE DEF t, gone
      <4> QED BY <1>1, <3>1 DEF Table
    <3>2. CASE ~gone
      <4>1. u = [t EXCEPT ![o] = d]
        BY <3>2
      <4> HIDE DEF t, gone, d, u
      <4> QED BY <1>1, <2>5, <3>2, <4>1 DEF Table
    <3> QED BY <3>1, <3>2
  <2>7. ASSUME NEW p \in Objs, NEW m \in Counted
        PROVE  Count(t, p, m) = Count(u, p, m) + (IF p = o /\ m = n THEN 1 ELSE 0)
    <3>0. \A v : v \in DOMAIN t /\ v # o => v \in DOMAIN u /\ u[v] = t[v]
      <4> HIDE DEF t, gone, d
      <4> QED OBVIOUS
    <3>00. DOMAIN u \subseteq DOMAIN t
      <4> HIDE DEF t, gone, d
      <4> QED OBVIOUS
    <3>1. CASE p # o
      <4>1. Count(t, p, m) = Count(u, p, m)
        <5> HIDE DEF t, u
        <5> QED BY <3>1, <3>0, <3>00 DEF Count
      <4> HIDE DEF t, u
      <4> QED BY <1>1, <3>1, <4>1
    <3>2. CASE p = o /\ gone
      <4>1. o \notin DOMAIN u
        <5> HIDE DEF t, gone
        <5> QED BY <3>2
      <4>2. m # n => m \notin DOMAIN t[o].count
        BY <3>2
      <4>3. c = 1
        BY <3>2
      <4> HIDE DEF t, u, c, gone
      <4> QED BY <2>1, <3>2, <4>1, <4>2, <4>3 DEF Count
    <3>3. CASE p = o /\ ~gone
      <4>1. o \in DOMAIN u /\ u[o].count = f
        <5>1. u = [t EXCEPT ![o] = d]
          BY <3>3
        <5>2. d.count = f
          OBVIOUS
        <5> HIDE DEF t, d, u, f
        <5> QED BY <2>1, <5>1, <5>2
      <4>2. t[o].count = e.count
        OBVIOUS
      <4>3. \A k \in DOMAIN e.count : e.count[k] \in Nat
        BY <2>1 DEF Entry
      <4>4. Count(u, o, m) = IF m \in DOMAIN f THEN f[m] ELSE 0
        <5> HIDE DEF u, f
        <5> QED BY <4>1 DEF Count
      <4>5. Count(t, o, m) = IF m \in DOMAIN e.count THEN e.count[m] ELSE 0
        <5> HIDE DEF t, e
        <5> QED BY <2>1, <4>2 DEF Count
      <4>6. n \in DOMAIN e.count /\ e.count[n] = c
        BY <2>1
      <4> HIDE DEF t, u, c, gone, f, e
      <4> QED BY <2>4, <3>3, <4>3, <4>4, <4>5, <4>6
    <3> QED BY <3>1, <3>2, <3>3
  <2>8. Moved(u, t, o, n, 1)
    <3> HIDE DEF t, u
    <3> QED BY <2>7 DEF Moved
  <2> HIDE DEF u
  <2>9. guard'[g] = u /\ DOMAIN guard' = Guarded /\ \A h \in Guarded \ {g} : guard'[h] = guard[h]
    BY <2>3
  <2> QED BY <2>6, <2>8, <2>9
<1> QED BY <1>2, <1>3

-----------------------------------------------------------------------------
(* The guards and the handlers that are active.                            *)

Frame == [kind : Kinds, obj : Objs, name : Names \cup {Nil}]

\* The name with which each kind of handler is called
Serves(f) ==
    /\ f.kind \in Guarded => f.name \in Names
    /\ f.kind = "valueOf" => f.name = Nil

GuardsInv ==
    /\ frames \in Seq(Frame) /\ Len(frames) <= MaxDepth
    /\ \A k \in DOMAIN frames : Serves(frames[k])
    /\ DOMAIN guard = Guarded /\ \A g \in Guarded : Table(guard[g])
    /\ \A g \in Guarded, o \in Objs, n \in Counted : Count(guard[g], o, n) = Active(g, o, n)
    /\ BoundedNesting
    /\ valueof_guard \subseteq Objs /\ ValueOfOnce

\* Active counts the frames.
LEMMA ActiveIsPlaces ==
  ASSUME NEW kind, NEW o, NEW n
  PROVE  Active(kind, o, n) = Cardinality(Places(frames, [kind |-> kind, obj |-> o, name |-> n]))
BY DEF Active, Places

LEMMA ActiveIsNatural ==
  ASSUME NEW S, frames \in Seq(S), NEW kind, NEW o, NEW n
  PROVE  Active(kind, o, n) \in Nat
BY ActiveIsPlaces, PlacesFinite

\* A call of a handler adds one active handler.
LEMMA CallIsActive ==
  ASSUME frames \in Seq(Frame), NEW kind \in Kinds, NEW o \in Objs, NEW n \in Names \cup {Nil},
         call(kind, o, n)
  PROVE  /\ frames' \in Seq(Frame) /\ Len(frames') <= MaxDepth
         /\ \A k \in DOMAIN frames' :
                frames'[k] = [kind |-> kind, obj |-> o, name |-> n]
                \/ (k \in DOMAIN frames /\ frames'[k] = frames[k])
         /\ \A h, p, m : Active(h, p, m)' = Active(h, p, m) +
                (IF kind = h /\ o = p /\ n = m THEN 1 ELSE 0)
<1> DEFINE d == [kind |-> kind, obj |-> o, name |-> n]
<1>1. d \in Frame
  BY DEF Frame
<1>2. frames' = Append(frames, d) /\ Len(frames) < MaxDepth
  BY DEF call
<1>3. /\ frames' \in Seq(Frame) /\ Len(frames') = Len(frames) + 1
      /\ frames'[Len(frames) + 1] = d
      /\ \A k \in 1 .. Len(frames) : frames'[k] = frames[k]
  <2> HIDE DEF d
  <2> QED BY <1>1, <1>2, AppendProperties
<1>4. Len(frames') <= MaxDepth
  BY <1>2, <1>3, PropAccessAssumption DEF PropAccessAssumption
<1>5. \A k \in DOMAIN frames' : frames'[k] = d \/ (k \in DOMAIN frames /\ frames'[k] = frames[k])
  <2>1. DOMAIN frames' = 1 .. Len(frames) + 1 /\ DOMAIN frames = 1 .. Len(frames)
    BY <1>3
  <2>2. Len(frames) \in Nat
    BY <1>3
  <2> HIDE DEF d
  <2> SUFFICES ASSUME NEW k \in 1 .. Len(frames) + 1, k # Len(frames) + 1
               PROVE  k \in 1 .. Len(frames)
    BY <1>3, <2>1
  <2> QED BY <2>2
<1>6. ASSUME NEW h, NEW p, NEW m
      PROVE  Active(h, p, m)' = Active(h, p, m) + (IF kind = h /\ o = p /\ n = m THEN 1 ELSE 0)
  <2> DEFINE e == [kind |-> h, obj |-> p, name |-> m]
  <2>1. Active(h, p, m) = Cardinality(Places(frames, e))
    BY ActiveIsPlaces
  <2>2. Active(h, p, m)' = Cardinality(Places(frames', e))
    BY DEF Active, Places
  <2>3. d = e <=> kind = h /\ o = p /\ n = m
    OBVIOUS
  <2> HIDE DEF d, e
  <2>4. Cardinality(Places(frames', e)) = Cardinality(Places(frames, e)) + (IF d = e THEN 1 ELSE 0)
    BY <1>1, <1>2, PlacesAppend
  <2> QED BY <2>1, <2>2, <2>3, <2>4
<1> QED BY <1>3, <1>4, <1>5, <1>6

\* What a call does to the guards, by the kind of the handler
Enters(kind, o, n) ==
    /\ call(kind, o, n)
    /\ IF kind \in Guarded THEN n \in Names /\ CanPush(kind, o, n) /\ pushRecursion(kind, o, n)
       ELSE UNCHANGED guard
    /\ IF kind = "valueOf"
       THEN n = Nil /\ o \notin valueof_guard /\ valueof_guard' = valueof_guard \cup {o}
       ELSE UNCHANGED valueof_guard

\* A call keeps the guards exact and the nesting bounded.
LEMMA CallKeepsGuards ==
  ASSUME GuardsInv, NEW kind \in Kinds, NEW o \in Objs, NEW n \in Names \cup {Nil},
         Enters(kind, o, n)
  PROVE  GuardsInv'
<1>1. /\ frames \in Seq(Frame) /\ call(kind, o, n)
      /\ \A k \in DOMAIN frames : Serves(frames[k])
      /\ DOMAIN guard = Guarded /\ \A g \in Guarded : Table(guard[g])
      /\ \A g \in Guarded, p \in Objs, m \in Counted : Count(guard[g], p, m) = Active(g, p, m)
  BY DEF GuardsInv, Enters
<1>2. /\ frames' \in Seq(Frame) /\ Len(frames') <= MaxDepth
      /\ \A k \in DOMAIN frames' :
             frames'[k] = [kind |-> kind, obj |-> o, name |-> n]
             \/ (k \in DOMAIN frames /\ frames'[k] = frames[k])
      /\ \A h, p, m : Active(h, p, m)' = Active(h, p, m) +
             (IF kind = h /\ o = p /\ n = m THEN 1 ELSE 0)
  BY <1>1, CallIsActive
<1>3. \A h, p, m : Active(h, p, m) \in Nat
  BY <1>1, ActiveIsNatural
<1>4. \A k \in DOMAIN frames' : Serves(frames'[k])
  <2>1. Serves([kind |-> kind, obj |-> o, name |-> n])
    BY DEF Serves, Enters
  <2> QED BY <1>1, <1>2, <2>1
<1>5. /\ DOMAIN guard' = Guarded /\ \A g \in Guarded : Table(guard'[g])
      /\ \A g \in Guarded, p \in Objs, m \in Counted :
             Count(guard'[g], p, m) = Count(guard[g], p, m) +
                 (IF kind = g /\ o = p /\ n = m THEN 1 ELSE 0)
  <2>1. CASE kind \in Guarded
    <3>1. /\ DOMAIN guard' = Guarded
          /\ \A h \in Guarded \ {kind} : guard'[h] = guard[h]
          /\ Table(guard'[kind]) /\ Moved(guard[kind], guard'[kind], o, n, 1)
      BY <1>1, <2>1, PushCounts DEF Enters
    <3>2. \A g \in Guarded : Table(guard'[g])
      BY <1>1, <3>1
    <3>3. ASSUME NEW g \in Guarded, NEW p \in Objs, NEW m \in Counted
          PROVE  Count(guard'[g], p, m) = Count(guard[g], p, m) +
                     (IF kind = g /\ o = p /\ n = m THEN 1 ELSE 0)
      <4>1. CASE g = kind
        BY <3>1, <4>1 DEF Moved
      <4>2. CASE g # kind
        <5>1. guard'[g] = guard[g] /\ Count(guard[g], p, m) \in Nat
          BY <1>1, <3>1, <4>2, CountIsNatural
        <5> QED BY <4>2, <5>1
      <4> QED BY <4>1, <4>2
    <3> QED BY <3>1, <3>2, <3>3
  <2>2. CASE kind \notin Guarded
    <3>1. guard' = guard
      BY <2>2 DEF Enters
    <3>2. \A g \in Guarded : \A p, m : Count(guard[g], p, m) \in Nat
      BY <1>1, CountIsNatural
    <3> QED BY <1>1, <2>2, <3>1, <3>2
  <2> QED BY <2>1, <2>2
<1>6. \A g \in Guarded, p \in Objs, m \in Counted : Count(guard'[g], p, m) = Active(g, p, m)'
  BY <1>1, <1>2, <1>5
<1>7. BoundedNesting'
  <2> SUFFICES ASSUME NEW g \in Guarded, NEW p \in Objs, NEW m \in Counted
               PROVE  Active(g, p, m)' < Limit
    BY DEF BoundedNesting
  <2>1. Active(g, p, m) < Limit /\ Limit \in Nat
    BY PropAccessAssumption DEF PropAccessAssumption, GuardsInv, BoundedNesting
  <2>2. CASE kind = g /\ o = p /\ n = m
    <3>1. Counter(g, p, m) + 1 < Limit
      BY <2>2 DEF Enters, CanPush
    <3>2. Counter(g, p, m) = Active(g, p, m)
      BY <1>1, CounterIsCount
    <3> QED BY <1>2, <2>2, <3>1, <3>2
  <2>3. CASE ~(kind = g /\ o = p /\ n = m)
    BY <1>2, <1>3, <2>1, <2>3
  <2> QED BY <2>2, <2>3
<1>8. valueof_guard' \subseteq Objs /\ ValueOfOnce'
  <2>1. valueof_guard \subseteq Objs /\ ValueOfOnce
    BY DEF GuardsInv
  <2>2. CASE kind = "valueOf"
    <3>1. n = Nil /\ o \notin valueof_guard /\ valueof_guard' = valueof_guard \cup {o}
      BY <2>2 DEF Enters
    <3>2. ASSUME NEW p \in Objs
          PROVE  Active("valueOf", p, Nil)' = IF p \in valueof_guard' THEN 1 ELSE 0
      <4>1. Active("valueOf", p, Nil) = IF p \in valueof_guard THEN 1 ELSE 0
        BY <2>1 DEF ValueOfOnce
      <4>2. Active("valueOf", p, Nil)' = Active("valueOf", p, Nil) + (IF o = p THEN 1 ELSE 0)
        BY <1>2, <2>2, <3>1
      <4> QED BY <3>1, <4>1, <4>2
    <3> QED BY <2>1, <3>1, <3>2 DEF ValueOfOnce
  <2>3. CASE kind # "valueOf"
    <3>1. valueof_guard' = valueof_guard
      BY <2>3 DEF Enters
    <3>2. ASSUME NEW p \in Objs
          PROVE  Active("valueOf", p, Nil)' = Active("valueOf", p, Nil)
      BY <1>2, <1>3, <2>3
    <3> QED BY <2>1, <3>1, <3>2 DEF ValueOfOnce
  <2> QED BY <2>2, <2>3
<1> QED BY <1>2, <1>4, <1>5, <1>6, <1>7, <1>8 DEF GuardsInv

\* So does the end of a handler, by return or by an exception.
LEMMA ReturnKeepsGuards ==
  ASSUME GuardsInv, return
  PROVE  GuardsInv'
<1>1. /\ frames \in Seq(Frame) /\ Len(frames) <= MaxDepth /\ frames # << >>
      /\ \A k \in DOMAIN frames : Serves(frames[k])
      /\ DOMAIN guard = Guarded /\ \A g \in Guarded : Table(guard[g])
      /\ \A g \in Guarded, p \in Objs, m \in Counted : Count(guard[g], p, m) = Active(g, p, m)
  BY DEF GuardsInv, return
<1>2. PICK f : f = Last(frames)
  OBVIOUS
<1>3. f \in Frame /\ Serves(f)
  <2>1. f \in Frame
    BY <1>1, <1>2, PlacesFront
  <2>2. Len(frames) \in DOMAIN frames
    BY <1>1, EmptySeq
  <2> QED BY <1>1, <1>2, <2>1, <2>2 DEF Last
<1>4. PICK kind \in Kinds, o \in Objs, n \in Names \cup {Nil} :
          f = [kind |-> kind, obj |-> o, name |-> n]
  BY <1>3 DEF Frame
<1>5. /\ f.kind = kind /\ f.obj = o /\ f.name = n
      /\ kind \in Guarded => n \in Names
      /\ kind = "valueOf" => n = Nil
  BY <1>3, <1>4 DEF Serves
<1>6. /\ frames' = Front(frames)
      /\ IF kind \in Guarded THEN popRecursion(kind, o, n) ELSE UNCHANGED guard
      /\ valueof_guard' = IF kind = "valueOf" THEN valueof_guard \ {o} ELSE valueof_guard
  BY <1>2, <1>5 DEF return
<1>7. /\ frames' \in Seq(Frame) /\ Len(frames') = Len(frames) - 1 /\ Len(frames') <= MaxDepth
      /\ \A k \in DOMAIN frames' : k \in DOMAIN frames /\ frames'[k] = frames[k]
  <2>1. frames' \in Seq(Frame) /\ Len(frames') = Len(frames) - 1
    BY <1>1, <1>6, PlacesFront
  <2>2. \A k \in 1 .. Len(frames) - 1 : frames'[k] = frames[k]
    BY <1>6, <2>1 DEF Front
  <2>3. Len(frames) \in Nat /\ MaxDepth \in Nat
    BY <1>1, PropAccessAssumption DEF PropAccessAssumption
  <2>4. DOMAIN frames = 1 .. Len(frames) /\ DOMAIN frames' = 1 .. Len(frames) - 1
    BY <1>1, <2>1
  <2> QED BY <1>1, <2>1, <2>2, <2>3, <2>4
<1>8. \A h, p, m : /\ Active(h, p, m) \in Nat /\ Active(h, p, m)' \in Nat
                   /\ Active(h, p, m) = Active(h, p, m)' +
                          (IF kind = h /\ o = p /\ n = m THEN 1 ELSE 0)
  <2> SUFFICES ASSUME NEW h, NEW p, NEW m
               PROVE  /\ Active(h, p, m) \in Nat /\ Active(h, p, m)' \in Nat
                      /\ Active(h, p, m) = Active(h, p, m)' +
                             (IF kind = h /\ o = p /\ n = m THEN 1 ELSE 0)
    OBVIOUS
  <2> DEFINE e == [kind |-> h, obj |-> p, name |-> m]
  <2>1. Active(h, p, m) = Cardinality(Places(frames, e)) /\ Active(h, p, m)' = Cardinality(Places(frames', e))
    BY DEF Active, Places
  <2>2. f = e <=> kind = h /\ o = p /\ n = m
    BY <1>4
  <2> HIDE DEF e
  <2>3. Cardinality(Places(frames, e)) = Cardinality(Places(frames', e)) + (IF f = e THEN 1 ELSE 0)
    BY <1>1, <1>2, <1>6, PlacesFront
  <2>4. Cardinality(Places(frames, e)) \in Nat /\ Cardinality(Places(frames', e)) \in Nat
    BY <1>1, <1>7, PlacesFinite
  <2> QED BY <2>1, <2>2, <2>3, <2>4
<1>9. /\ DOMAIN guard' = Guarded /\ \A g \in Guarded : Table(guard'[g])
      /\ \A g \in Guarded, p \in Objs, m \in Counted :
             /\ Count(guard'[g], p, m) \in Nat
             /\ Count(guard[g], p, m) = Count(guard'[g], p, m) +
                    (IF kind = g /\ o = p /\ n = m THEN 1 ELSE 0)
  <2>1. CASE kind \in Guarded
    <3>0. n \in Counted => Count(guard[kind], o, n) > 0
      <4> SUFFICES ASSUME n \in Counted PROVE Count(guard[kind], o, n) > 0
        OBVIOUS
      <4>1. Count(guard[kind], o, n) = Active(kind, o, n)
        BY <1>1, <2>1
      <4>2. Active(kind, o, n) = Active(kind, o, n)' + 1 /\ Active(kind, o, n)' \in Nat
        BY <1>8
      <4> QED BY <4>1, <4>2
    <3>1. /\ DOMAIN guard' = Guarded
          /\ \A h \in Guarded \ {kind} : guard'[h] = guard[h]
          /\ Table(guard'[kind]) /\ Moved(guard'[kind], guard[kind], o, n, 1)
      BY <1>1, <1>5, <1>6, <2>1, <3>0, PopCounts
    <3>2. \A g \in Guarded : Table(guard'[g])
      BY <1>1, <3>1
    <3>3. ASSUME NEW g \in Guarded, NEW p \in Objs, NEW m \in Counted
          PROVE  /\ Count(guard'[g], p, m) \in Nat
                 /\ Count(guard[g], p, m) = Count(guard'[g], p, m) +
                     (IF kind = g /\ o = p /\ n = m THEN 1 ELSE 0)
      <4>0. Count(guard'[g], p, m) \in Nat
        BY <3>2, CountIsNatural
      <4>1. CASE g = kind
        BY <3>1, <4>0, <4>1 DEF Moved
      <4>2. CASE g # kind
        <5>1. guard'[g] = guard[g]
          BY <1>1, <3>1, <4>2
        <5> QED BY <4>0, <4>2, <5>1
      <4> QED BY <4>1, <4>2
    <3> QED BY <3>1, <3>2, <3>3
  <2>2. CASE kind \notin Guarded
    <3>1. guard' = guard
      BY <1>6, <2>2
    <3>2. \A g \in Guarded : \A p, m : Count(guard[g], p, m) \in Nat
      BY <1>1, CountIsNatural
    <3> QED BY <1>1, <2>2, <3>1, <3>2
  <2> QED BY <2>1, <2>2
<1>10. \A g \in Guarded, p \in Objs, m \in Counted : Count(guard'[g], p, m) = Active(g, p, m)'
  <2> SUFFICES ASSUME NEW g \in Guarded, NEW p \in Objs, NEW m \in Counted
               PROVE  Count(guard'[g], p, m) = Active(g, p, m)'
    OBVIOUS
  <2>1. Count(guard[g], p, m) = Active(g, p, m)
    BY <1>1
  <2>2. /\ Active(g, p, m)' \in Nat
        /\ Active(g, p, m) = Active(g, p, m)' + (IF kind = g /\ o = p /\ n = m THEN 1 ELSE 0)
    BY <1>8
  <2>3. /\ Count(guard'[g], p, m) \in Nat
        /\ Count(guard[g], p, m) = Count(guard'[g], p, m) + (IF kind = g /\ o = p /\ n = m THEN 1 ELSE 0)
    BY <1>9
  <2> QED BY <2>1, <2>2, <2>3
<1>11. BoundedNesting'
  <2> SUFFICES ASSUME NEW g \in Guarded, NEW p \in Objs, NEW m \in Counted
               PROVE  Active(g, p, m)' < Limit
    BY DEF BoundedNesting
  <2>1. Active(g, p, m) < Limit /\ Limit \in Nat
    BY PropAccessAssumption DEF PropAccessAssumption, GuardsInv, BoundedNesting
  <2> QED BY <1>8, <2>1
<1>12. valueof_guard' \subseteq Objs /\ ValueOfOnce'
  <2>1. valueof_guard \subseteq Objs /\ ValueOfOnce
    BY DEF GuardsInv
  <2>2. ASSUME NEW p \in Objs
        PROVE  Active("valueOf", p, Nil)' = IF p \in valueof_guard' THEN 1 ELSE 0
    <3>1. Active("valueOf", p, Nil) = IF p \in valueof_guard THEN 1 ELSE 0
      BY <2>1 DEF ValueOfOnce
    <3>2. /\ Active("valueOf", p, Nil)' \in Nat
          /\ Active("valueOf", p, Nil) = Active("valueOf", p, Nil)' +
                 (IF kind = "valueOf" /\ o = p /\ n = Nil THEN 1 ELSE 0)
      BY <1>8
    <3> QED BY <1>5, <1>6, <3>1, <3>2
  <2> QED BY <1>6, <2>1, <2>2 DEF ValueOfOnce
<1> QED BY <1>1, <1>7, <1>9, <1>10, <1>11, <1>12 DEF GuardsInv

-----------------------------------------------------------------------------
(* The properties and the handlers of the objects.                         *)

TablesInv ==
    /\ handlers \in Handlers /\ table \in [Objs -> SUBSET Names] /\ terminated \in BOOLEAN
    /\ ReadonlyNeverSet

\* An access that calls a handler, and one that does not.
Calls == \E kind \in Kinds, o \in Objs, n \in Names \cup {Nil} : Enters(kind, o, n)
Stays == UNCHANGED <<frames, guard, valueof_guard>>

\* What each access does to the guards.
LEMMA AccessEnters ==
  ASSUME NEW o \in Objs, NEW n \in Names, access(o, n)
  PROVE  Calls \/ Stays
<1>1. ASSUME NEW kind \in Kinds \ (Guarded \cup {"valueOf"}), callUnguarded(kind, o, n),
             UNCHANGED valueof_guard
      PROVE  Calls
  <2>1. kind \in Kinds /\ n \in Names \cup {Nil} /\ Enters(kind, o, n)
    BY <1>1 DEF Enters, callUnguarded
  <2> QED BY <2>1 DEF Calls
<1>2. ASSUME NEW g \in Guarded, callGuarded(g, o, n), UNCHANGED valueof_guard
      PROVE  Calls
  <2>1. g \in Kinds /\ n \in Names \cup {Nil} /\ Enters(g, o, n)
    BY <1>2 DEF Enters, callGuarded, Guarded, Kinds, General
  <2> QED BY <2>1 DEF Calls
<1>3. /\ {"get@", "set@", "del@", "isset@", "del", "isset"} \subseteq Kinds \ (Guarded \cup {"valueOf"})
      /\ "get" \in Guarded /\ "set" \in Guarded
  BY DEF Kinds, Guarded, General, Named
<1>4. CASE getProperty(o, n)
  BY <1>1, <1>2, <1>3, <1>4 DEF getProperty, setException, Stays
<1>5. CASE setProperty(o, n)
  BY <1>1, <1>2, <1>3, <1>5 DEF setProperty, setException, Stays
<1>6. CASE deleteProperty(o, n)
  BY <1>1, <1>2, <1>3, <1>6 DEF deleteProperty, setException, Stays
<1>7. CASE hasProperty(o, n)
  BY <1>1, <1>2, <1>3, <1>7 DEF hasProperty, Stays
<1> QED BY <1>4, <1>5, <1>6, <1>7 DEF access

\* No access adds a name to an object whose property is read only, except NaN.
LEMMA AccessKeepsTables ==
  ASSUME TablesInv, NEW o \in Objs, NEW n \in Names, access(o, n)
  PROVE  TablesInv'
<1>1. /\ handlers' = handlers
      /\ \/ table' = table
         \/ addProperty(o, n) /\ (n # NaN => HasHandler(o, "set@") \/ ~HasHandler(o, "get@"))
         \/ table' = [table EXCEPT ![o] = table[o] \ {n}]
      /\ terminated' \in BOOLEAN
  <2>0. terminated \in BOOLEAN
    BY DEF TablesInv
  <2>1. CASE getProperty(o, n)
    BY <2>0, <2>1 DEF getProperty, callUnguarded, callGuarded, setException
  <2>2. CASE setProperty(o, n)
    BY <2>0, <2>2 DEF setProperty, callUnguarded, callGuarded, setException, IsReadonly
  <2>3. CASE deleteProperty(o, n)
    BY <2>0, <2>3 DEF deleteProperty, callUnguarded, setException
  <2>4. CASE hasProperty(o, n)
    BY <2>0, <2>4 DEF hasProperty, callUnguarded
  <2> QED BY <2>1, <2>2, <2>3, <2>4 DEF access
<1>2. table \in [Objs -> SUBSET Names] /\ handlers \in Handlers /\ ReadonlyNeverSet
  BY DEF TablesInv
<1>3. \A p, kind : HasHandler(p, kind)' <=> HasHandler(p, kind)
  BY <1>1 DEF HasHandler
<1>4. /\ table' \in [Objs -> SUBSET Names]
      /\ \A p \in Objs : table'[p] \subseteq table[p] \/
             (p = o /\ table'[p] = table[p] \cup {n}
              /\ (n # NaN => HasHandler(o, "set@") \/ ~HasHandler(o, "get@")))
  BY <1>1, <1>2 DEF addProperty
<1>5. ASSUME NEW p \in Objs, HasHandler(p, "get@")', ~HasHandler(p, "set@")'
      PROVE  table'[p] \subseteq {NaN}
  <2>1. HasHandler(p, "get@") /\ ~HasHandler(p, "set@")
    BY <1>3, <1>5
  <2>2. table[p] \subseteq {NaN}
    BY <1>2, <2>1 DEF ReadonlyNeverSet
  <2> QED BY <1>4, <2>1, <2>2
<1>6. ReadonlyNeverSet'
  BY <1>5 DEF ReadonlyNeverSet
<1> QED BY <1>1, <1>2, <1>4, <1>6 DEF TablesInv

-----------------------------------------------------------------------------
(* The theorem.                                                            *)

Inv == TablesInv /\ GuardsInv

LEMMA InvInit == Init => Inv
<1> SUFFICES ASSUME Init PROVE Inv
  OBVIOUS
<1>1. TablesInv
  BY DEF Init, TablesInv, ReadonlyNeverSet
<1>2. frames = << >> /\ guard = [g \in Guarded |-> << >>] /\ valueof_guard = {}
  BY DEF Init
<1>3. frames \in Seq(Frame) /\ Len(frames) = 0 /\ DOMAIN frames = {}
  BY <1>2
<1>4. \A kind, o, n : Active(kind, o, n) = 0
  <2>1. \A e : Places(frames, e) = {}
    BY <1>3 DEF Places
  <2> QED BY <2>1, ActiveIsPlaces, FS_EmptySet
<1>5. Table(<< >>) /\ \A o, n : Count(<< >>, o, n) = 0
  <2>1. DOMAIN << >> = {} /\ << >> = [o \in {} |-> << >>[o]]
    OBVIOUS
  <2> QED BY <2>1 DEF Table, Count
<1>6. Limit \in Nat /\ 0 < Limit /\ MaxDepth \in Nat
  BY PropAccessAssumption DEF PropAccessAssumption
<1>7. Len(frames) <= MaxDepth
  BY <1>3, <1>6
<1>8. BoundedNesting /\ ValueOfOnce
  BY <1>2, <1>4, <1>6 DEF BoundedNesting, ValueOfOnce
<1> QED BY <1>1, <1>2, <1>3, <1>4, <1>5, <1>7, <1>8 DEF Inv, GuardsInv

LEMMA InvNext == Inv /\ [Next]_vars => Inv'
<1> SUFFICES ASSUME Inv, [Next]_vars PROVE Inv'
  OBVIOUS
<1>1. TablesInv /\ GuardsInv
  BY DEF Inv
<1>2. ASSUME Stays PROVE GuardsInv'
  BY <1>1, <1>2 DEF Stays, GuardsInv, Active, BoundedNesting, ValueOfOnce
<1>3. ASSUME Calls PROVE GuardsInv'
  BY <1>1, <1>3, CallKeepsGuards DEF Calls
<1>4. ASSUME UNCHANGED <<handlers, table>>, terminated' \in BOOLEAN
      PROVE  TablesInv'
  BY <1>1, <1>4 DEF TablesInv, ReadonlyNeverSet, HasHandler
<1>5. ASSUME NEW o \in Objs, NEW n \in Names, access(o, n)
      PROVE  Inv'
  BY <1>1, <1>2, <1>3, <1>5, AccessEnters, AccessKeepsTables DEF Inv
<1>6. ASSUME NEW o \in Objs, pushValueOf(o)
      PROVE  Inv'
  <2>1. "valueOf" \in Kinds \ Guarded /\ Nil \in Names \cup {Nil}
    BY DEF Kinds, Guarded
  <2>2. Enters("valueOf", o, Nil)
    BY <1>6, <2>1 DEF pushValueOf, Enters
  <2>3. Calls
    BY <2>1, <2>2 DEF Calls
  <2>4. UNCHANGED <<handlers, table>> /\ terminated' \in BOOLEAN
    BY <1>1, <1>6 DEF pushValueOf, TablesInv
  <2> QED BY <1>3, <1>4, <2>3, <2>4 DEF Inv
<1>7. CASE throw \/ catch
  BY <1>2, <1>4, <1>7 DEF throw, catch, setException, Stays, Inv
<1>8. CASE return
  <2>1. UNCHANGED <<handlers, table>> /\ terminated' \in BOOLEAN
    BY <1>1, <1>8 DEF return, TablesInv
  <2> QED BY <1>1, <1>4, <1>8, <2>1, ReturnKeepsGuards DEF Inv
<1>9. CASE UNCHANGED vars
  BY <1>1, <1>2, <1>4, <1>9 DEF vars, Stays, Inv, TablesInv
<1> QED BY <1>5, <1>6, <1>7, <1>8, <1>9 DEF Next

\* Inv says more than AccessSound.
LEMMA InvIsSound == Inv => AccessSound
<1> SUFFICES ASSUME Inv PROVE AccessSound
  OBVIOUS
<1>1. TablesInv /\ GuardsInv
  BY DEF Inv
<1>2. TypeOK
  <2>1. \A g \in Guarded : DOMAIN guard[g] \subseteq Objs
    BY <1>1 DEF GuardsInv, Table
  <2> QED BY <1>1, <2>1 DEF TypeOK, TablesInv, GuardsInv, Frame
<1>3. GuardsExact
  <2>1. ASSUME NEW g \in Guarded, NEW o \in Objs, NEW n \in Counted
        PROVE  Counter(g, o, n) = Active(g, o, n)
    BY <1>1, CounterIsCount DEF GuardsInv
  <2>2. ASSUME NEW g \in Guarded, NEW o \in DOMAIN guard[g], ~guard[g][o].nan
        PROVE  \E n \in Counted : Active(g, o, n) > 0
    <3>1. o \in Objs /\ Entry(guard[g][o])
      BY <1>1, <2>2 DEF GuardsInv, Table
    <3>2. PICK n \in DOMAIN guard[g][o].count : n \in Counted /\ guard[g][o].count[n] \in Nat \ {0}
      BY <2>2, <3>1 DEF Entry
    <3>3. Count(guard[g], o, n) = guard[g][o].count[n]
      BY <2>2, <3>2 DEF Count
    <3>4. Count(guard[g], o, n) = Active(g, o, n)
      BY <1>1, <3>1, <3>2 DEF GuardsInv
    <3> QED BY <3>2, <3>3, <3>4
  <2> QED BY <2>1, <2>2 DEF GuardsExact
<1> QED BY <1>1, <1>2, <1>3 DEF AccessSound, GuardsInv, TablesInv

\* AccessSound: the counters of check_get_recursion and check_set_recursion are
\* the numbers of handlers __get and __set that are active, however each ended;
\* fewer than Limit are active for one name of one object; valueOf of an object
\* is active at most once; and a property with __get@name alone is never set.
THEOREM AccessIsSound == Spec => []AccessSound
<1>1. Inv => AccessSound
  BY InvIsSound
<1> QED BY <1>1, InvInit, InvNext, PTL DEF Spec
-----------------------------------------------------------------------------
(* The frames of the interpreter.  StackExact and ResultsStored are not    *)
(* inductive: what the stack is when a frame is left depends on what it    *)
(* was when the frame was entered, by the run itself or by an opcode of    *)
(* the frame below.  FramesInv adds how the runs and the frames nest.      *)

\* Where a frame ends, with the values that refused accesses left above it
End(frame) == frame.pos + frame.size + frame.left

\* The frames an opcode of which waits for a run
Waiting == {runs[j].ret : j \in DOMAIN runs}

\* The first run serves C++ code, every other one an opcode of the frame it returns
\* to, which will find the stack as it left it
RunsNested ==
    /\ runs = << >> => Depth = 0
    /\ \A j \in 1 .. Len(runs) :
            /\ runs[j].op.kind = "host" <=> j = 1
            /\ j = 1 => runs[j].ret = 0
            /\ runs[j].op.count <= stack.capacity
            /\ j > 1 => runs[j].ret \in 1 .. Depth /\ runs[j].op.count = End(call_stack_funcs[runs[j].ret])
    /\ \A i, j \in 1 .. Len(runs) : i < j => runs[i].ret < runs[j].ret

\* A frame entered by the run of the frame below it began where that one ended
FramesChained ==
    \A k \in 1 .. Depth :
        /\ call_stack_funcs[k].caller_size <= stack.capacity
        /\ k > 1 => k - 1 \in Waiting \/ call_stack_funcs[k].caller_size = End(call_stack_funcs[k - 1])

\* The cached pointer is into the buffer of the stack, at the top frame
CacheCurrent ==
    Depth > 0 => stack_func_locals = [capacity |-> stack.capacity, pos |-> call_stack_funcs[Depth].pos]

FramesInv ==
    /\ FramesTyped /\ StackExact /\ ResultsStored
    /\ RunsNested /\ FramesChained /\ CacheCurrent

\* The last element of a sequence and the rest of it.
LEMMA FrontAndLast ==
  ASSUME NEW S, NEW s \in Seq(S), s # << >>
  PROVE  /\ Len(s) \in Nat \ {0} /\ Last(s) = s[Len(s)] /\ Last(s) \in S
         /\ Front(s) \in Seq(S) /\ Len(Front(s)) = Len(s) - 1
         /\ \A k \in 1 .. Len(s) - 1 : Front(s)[k] = s[k]
<1>1. Len(s) \in Nat \ {0}
  BY EmptySeq, LenProperties
<1>2. s \in [1 .. Len(s) -> S]
  BY LenProperties
<1>3. Front(s) = [k \in 1 .. Len(s) - 1 |-> s[k]]
  BY <1>1, SubSeqProperties DEF Front
<1>4. Front(s) \in Seq(S) /\ Len(Front(s)) = Len(s) - 1
  <2> DEFINE n == Len(s) - 1
  <2>1. n \in Nat /\ \A k \in 1 .. n : s[k] \in S
    BY <1>1, <1>2
  <2>2. Front(s) = [k \in 1 .. n |-> s[k]]
    BY <1>3
  <2> HIDE DEF n
  <2>3. [k \in 1 .. n |-> s[k]] \in [1 .. n -> S]
    BY <2>1
  <2>4. Front(s) \in Seq(S) /\ Len(Front(s)) = n
    BY <2>1, <2>2, <2>3
  <2> QED BY <2>4 DEF n
<1> QED BY <1>1, <1>2, <1>3, <1>4 DEF Last

\* A grown buffer has room, and is the same buffer exactly when there was room.
LEMMA GrownHasRoom ==
  ASSUME ExecuteAssumption, NEW c \in Nat, NEW n \in Nat
  PROVE  /\ GrownFrom(c, n) \in Nat /\ GrownFrom(c, n) >= c /\ GrownFrom(c, n) >= n
         /\ GrownFrom(c, n) = c \/ GrownFrom(c, n) > c
<1>1. \A m \in Nat : Floor(m + Align) \in Nat /\ Floor(m + Align) > m
  <2>1. \A m \in Nat : (m + Align) % Align \in 0 .. Align - 1
    BY DEF ExecuteAssumption
  <2>2. Align \in Nat \ {0}
    BY DEF ExecuteAssumption
  <2>3. \A m \in Nat : Floor(m + Align) = m + Align - ((m + Align) % Align)
    BY <2>1, <2>2 DEF Floor
  <2> QED BY ONLY <2>1, <2>2, <2>3
<1>2. Floor(2 * c + Align) \in Nat /\ Floor(n + Align) \in Nat /\ Floor(n + Align) > n
  <2>1. 2 * c \in Nat
    OBVIOUS
  <2> QED BY ONLY <1>1, <2>1, n \in Nat
<1> DEFINE double == Floor(2 * c + Align)
           wide == Floor(n + Align)
<1>3. GrownFrom(c, n) = IF n <= c THEN c ELSE IF n <= double THEN double ELSE wide
  BY DEF GrownFrom
<1>4. double \in Nat /\ wide \in Nat /\ wide > n
  BY <1>2
<1> HIDE DEF double, wide
<1> QED BY <1>3, <1>4

\* What the frames, the buffers and the cached pointer are after a call.
Entered(pos, size, count, capacity, at) ==
    /\ Depth < MaxFrames
    /\ call_stack_funcs' \in Seq(FrameType) /\ Depth' = Depth + 1
    /\ call_stack_funcs'[Depth + 1] =
           [pos |-> pos, size |-> size, left |-> 0, caller_size |-> count, at |-> "any", res |-> FALSE]
    /\ \A k \in 1 .. Depth :
            call_stack_funcs'[k] = IF k = Depth THEN [call_stack_funcs[k] EXCEPT !.at = at]
                                   ELSE call_stack_funcs[k]
    /\ funcs_capacity' \in Nat /\ Depth' <= funcs_capacity'
    /\ sub_funcs' \in [1 .. MaxFrames -> {"empty", "used", "dangling"}]
    /\ stack' = [capacity |-> capacity, count |-> pos + size]
    /\ stack_func_locals' = [capacity |-> capacity, pos |-> pos]
    /\ raised' = raised

LEMMA CallEnters ==
  ASSUME ExecuteAssumption, FramesTyped,
         NEW pos \in Nat, NEW size \in {LeafSize, FrameSize}, NEW count \in Nat,
         NEW capacity \in Nat, NEW at \in Code,
         callFT(pos, size, count, capacity, at)
  PROVE  Entered(pos, size, count, capacity, at)
<1> DEFINE frame == [pos |-> pos, size |-> size, left |-> 0, caller_size |-> count,
                     at |-> "any", res |-> FALSE]
           below == IF Depth = 0 THEN << >> ELSE [call_stack_funcs EXCEPT ![Depth].at = at]
           calls == below \o <<frame>>
<1>1. /\ call_stack_funcs \in Seq(FrameType) /\ Depth \in Nat
      /\ DOMAIN call_stack_funcs = 1 .. Depth /\ \A k \in 1 .. Depth : call_stack_funcs[k] \in FrameType
  BY LenProperties DEF FramesTyped, Depth
<1>2. /\ Depth < MaxFrames /\ call_stack_funcs' = calls /\ funcs_capacity' = GrownCalls
      /\ stack' = [capacity |-> capacity, count |-> pos + size] /\ raised' = raised
      /\ sub_funcs' = [k \in DOMAIN sub_funcs |->
                            IF k > Depth /\ GrownCalls # funcs_capacity THEN "empty" ELSE sub_funcs[k]]
  BY DEF callFT
<1>3. frame \in FrameType
  BY DEF FrameType, Code
<1>4. /\ below \in Seq(FrameType) /\ Len(below) = Depth
      /\ \A k \in 1 .. Depth :
            below[k] = IF k = Depth THEN [call_stack_funcs[k] EXCEPT !.at = at] ELSE call_stack_funcs[k]
  <2>1. CASE Depth = 0
    BY <1>1, <2>1
  <2>2. CASE Depth # 0
    <3>1. \A k \in 1 .. Depth : [call_stack_funcs[k] EXCEPT !.at = at] \in FrameType
      BY <1>1 DEF FrameType
    <3>2. below \in [1 .. Depth -> FrameType]
      BY <1>1, <2>2, <3>1
    <3>3. below \in Seq(FrameType) /\ Len(below) = Depth
      <4> HIDE DEF below
      <4> QED BY <1>1, <3>2
    <3> QED BY <1>1, <2>2, <3>3
  <2> QED BY <2>1, <2>2
<1>5. /\ calls \in Seq(FrameType) /\ Len(calls) = Depth + 1 /\ calls[Depth + 1] = frame
      /\ \A k \in 1 .. Depth : calls[k] = below[k]
  <2> HIDE DEF below, frame
  <2> QED BY <1>1, <1>3, <1>4
<1>6. Last(calls).pos = pos /\ calls # << >>
  <2>1. Last(calls) = frame /\ calls # << >>
    <3> HIDE DEF calls, frame
    <3> QED BY <1>1, <1>5 DEF Last
  <2> QED BY <2>1
<1>7. stack_func_locals' = [capacity |-> capacity, pos |-> pos]
  <2>1. reloadStackFunctionCache(calls, capacity)
    BY DEF callFT
  <2> HIDE DEF calls
  <2> QED BY <1>6, <2>1 DEF reloadStackFunctionCache
<1>8. GrownCalls \in Nat /\ Depth + 1 <= GrownCalls
  <2>1. funcs_capacity \in Nat /\ Depth <= funcs_capacity /\ InitCalls \in Nat \ {0}
    BY DEF FramesTyped, ExecuteAssumption
  <2> QED BY <1>1, <2>1 DEF GrownCalls
<1>9. sub_funcs' \in [1 .. MaxFrames -> {"empty", "used", "dangling"}]
  BY <1>2 DEF FramesTyped
<1>10. /\ Depth' = Depth + 1
       /\ \A k \in 1 .. Depth : calls[k] =
            IF k = Depth THEN [call_stack_funcs[k] EXCEPT !.at = at] ELSE call_stack_funcs[k]
  <2> HIDE DEF calls, below
  <2> QED BY <1>2, <1>4, <1>5 DEF Depth
<1> HIDE DEF calls, below
<1> QED BY <1>1, <1>2, <1>5, <1>7, <1>8, <1>9, <1>10 DEF Entered

Served == [kind : Callers, stack_func : Nat, count : Nat]

\* The numbers of a state, and the fields of its frames and runs.
LEMMA FrameFacts ==
  ASSUME ExecuteAssumption, FramesTyped
  PROVE  /\ Depth \in Nat /\ call_stack_funcs \in Seq(FrameType) /\ DOMAIN call_stack_funcs = 1 .. Depth
         /\ \A k \in 1 .. Depth :
                /\ call_stack_funcs[k] \in FrameType
                /\ call_stack_funcs[k].pos \in Nat /\ call_stack_funcs[k].size \in Nat
                /\ call_stack_funcs[k].left \in Nat
                /\ call_stack_funcs[k].caller_size \in Nat /\ call_stack_funcs[k].at \in Code
                /\ call_stack_funcs[k].res \in BOOLEAN /\ End(call_stack_funcs[k]) \in Nat
         /\ Len(runs) \in Nat /\ DOMAIN runs = 1 .. Len(runs)
         /\ \A j \in 1 .. Len(runs) :
                /\ runs[j].ret \in Nat /\ runs[j].op \in Served /\ runs[j].op.kind \in Callers
                /\ runs[j].op.stack_func \in Nat /\ runs[j].op.count \in Nat
         /\ stack.count \in Nat /\ stack.capacity \in Nat /\ stack.count <= stack.capacity
         /\ stack = [capacity |-> stack.capacity, count |-> stack.count]
         /\ funcs_capacity \in Nat /\ LeafSize \in Nat /\ LeafSize = 2 /\ FrameSize \in Nat /\ FrameSize >= 4
<1>1. Depth \in Nat /\ call_stack_funcs \in Seq(FrameType) /\ DOMAIN call_stack_funcs = 1 .. Depth
  BY LenProperties DEF FramesTyped, Depth
<1>2. LeafSize \in Nat /\ LeafSize = 2 /\ FrameSize \in Nat /\ FrameSize >= 4
  BY DEF LeafSize, PRE_VARS, ExecuteAssumption
<1>3. \A k \in 1 .. Depth : call_stack_funcs[k] \in FrameType
  BY <1>1
<1>4. \A k \in 1 .. Depth :
        /\ call_stack_funcs[k].pos \in Nat /\ call_stack_funcs[k].size \in Nat
        /\ call_stack_funcs[k].left \in Nat
        /\ call_stack_funcs[k].caller_size \in Nat /\ call_stack_funcs[k].at \in Code
        /\ call_stack_funcs[k].res \in BOOLEAN
  BY <1>2, <1>3 DEF FrameType
<1>5. \A k \in 1 .. Depth : End(call_stack_funcs[k]) \in Nat
  BY <1>4 DEF End
<1>6. Len(runs) \in Nat /\ DOMAIN runs = 1 .. Len(runs)
  BY LenProperties DEF FramesTyped
<1>7. \A j \in 1 .. Len(runs) : runs[j] \in [ret : Nat, op : Served]
  <2> DEFINE R == [ret : Nat, op : Served]
  <2>1. runs \in Seq(R)
    BY DEF FramesTyped, Served
  <2> HIDE DEF R
  <2>2. \A j \in 1 .. Len(runs) : runs[j] \in R
    BY <1>6, <2>1
  <2> QED BY <2>2 DEF R
<1>8. \A j \in 1 .. Len(runs) :
            /\ runs[j].ret \in Nat /\ runs[j].op \in Served /\ runs[j].op.kind \in Callers
            /\ runs[j].op.stack_func \in Nat /\ runs[j].op.count \in Nat
  BY <1>7 DEF Served
<1>9. /\ stack.count \in Nat /\ stack.capacity \in Nat /\ stack.count <= stack.capacity
      /\ stack = [capacity |-> stack.capacity, count |-> stack.count] /\ funcs_capacity \in Nat
  BY DEF FramesTyped
<1> QED BY <1>1, <1>2, <1>3, <1>4, <1>5, <1>6, <1>8, <1>9

\* The run that executes, and the top frame.
LEMMA TopFacts ==
  ASSUME ExecuteAssumption, FramesTyped, RunsNested, runs # << >>
  PROVE  /\ Last(runs) = runs[Len(runs)] /\ Len(runs) >= 1
         /\ \A j \in 1 .. Len(runs) : runs[j].ret <= runs[Len(runs)].ret
         /\ Executing <=> Depth > runs[Len(runs)].ret
         /\ Returned <=> Depth = runs[Len(runs)].ret
         /\ Executing => Depth >= 1 /\ Top = call_stack_funcs[Depth] /\ call_stack_funcs # << >>
<1>1. Len(runs) \in Nat /\ Len(runs) >= 1
  BY FrameFacts, EmptySeq DEF FramesTyped
<1>2. Last(runs) = runs[Len(runs)]
  BY DEF Last
<1>3. \A j \in 1 .. Len(runs) : runs[j].ret <= runs[Len(runs)].ret
  <2>1. ASSUME NEW j \in 1 .. Len(runs) PROVE runs[j].ret <= runs[Len(runs)].ret
    <3>1. CASE j = Len(runs)
      BY <1>1, <3>1, FrameFacts
    <3>2. CASE j # Len(runs)
      <4>1. j < Len(runs) /\ Len(runs) \in 1 .. Len(runs)
        BY <1>1, <3>2
      <4>2. runs[j].ret < runs[Len(runs)].ret
        BY <4>1 DEF RunsNested
      <4>3. runs[j].ret \in Nat /\ runs[Len(runs)].ret \in Nat
        BY <4>1, FrameFacts
      <4> QED BY ONLY <4>2, <4>3
    <3> QED BY <3>1, <3>2
  <2> QED BY <2>1
<1>4. /\ Executing <=> Depth > runs[Len(runs)].ret
      /\ Returned <=> Depth = runs[Len(runs)].ret
  BY <1>2 DEF Executing, Returned
<1>5. Executing => Depth >= 1
  BY <1>1, <1>4, FrameFacts
<1>6. Depth >= 1 => Top = call_stack_funcs[Depth] /\ call_stack_funcs # << >>
  BY FrameFacts DEF Top, Depth, Last
<1> QED BY <1>1, <1>2, <1>3, <1>4, <1>5, <1>6

\* The accesses to freed memory after a step.
FreedKept ==
    /\ freed' \subseteq {"operand", "result", "frame", "cache", "sub_funcs"}
    /\ "result" \notin freed'

\* Whatever is called, the frame that starts is typed, exact and cached.
LEMMA EnterCommon ==
  ASSUME ExecuteAssumption, FramesInv, NEW pos \in Nat, NEW size \in {LeafSize, FrameSize},
         NEW count \in Nat, NEW capacity \in Nat, NEW at \in Code,
         Entered(pos, size, count, capacity, at), capacity >= pos + size, FreedKept,
         runs' \in Seq([ret : Nat, op : Served])
  PROVE  FramesTyped' /\ StackExact' /\ ResultsStored' /\ CacheCurrent'
<1>1. /\ Depth \in Nat /\ size \in Nat /\ stack' = [capacity |-> capacity, count |-> pos + size]
      /\ stack'.capacity = capacity /\ stack'.count = pos + size
      /\ call_stack_funcs' \in Seq(FrameType) /\ Depth' = Depth + 1 /\ Depth < MaxFrames
      /\ call_stack_funcs'[Depth + 1].pos = pos /\ call_stack_funcs'[Depth + 1].size = size
      /\ call_stack_funcs'[Depth + 1].left = 0
      /\ stack_func_locals' = [capacity |-> capacity, pos |-> pos]
  BY FrameFacts DEF Entered, FramesInv
<1>2. FramesTyped'
  <2>1. MaxFrames \in Nat
    BY DEF ExecuteAssumption
  <2>2. Depth' <= MaxFrames
    BY <1>1, <2>1
  <2>3. stack' \in [capacity : Nat, count : Nat] /\ stack'.count <= stack'.capacity
    BY <1>1
  <2>4. stack_func_locals' \in [capacity : Nat, pos : Nat]
    BY <1>1
  <2>5. raised' \in BOOLEAN
    BY DEF Entered, FramesInv, FramesTyped
  <2> QED BY <1>1, <2>2, <2>3, <2>4, <2>5 DEF Entered, FramesTyped, FreedKept, Served
<1>3. StackExact'
  <2>1. Top' = call_stack_funcs'[Depth + 1]
    BY <1>1 DEF Top, Last, Depth
  <2> QED BY <1>1, <2>1 DEF StackExact
<1>4. ResultsStored'
  BY DEF FreedKept, ResultsStored
<1>5. CacheCurrent'
  BY <1>1 DEF CacheCurrent
<1> QED BY <1>2, <1>3, <1>4, <1>5

\* A call by the running frame itself: the run goes on in the frame that starts.
LEMMA EnterSameRun ==
  ASSUME ExecuteAssumption, FramesInv, Executing,
         NEW pos \in Nat, NEW size \in {LeafSize, FrameSize}, NEW capacity \in Nat,
         Entered(pos, size, stack.count, capacity, "any"),
         capacity >= pos + size, capacity >= stack.capacity, FreedKept, runs' = runs
  PROVE  FramesInv'
<1>1. FramesTyped' /\ StackExact' /\ ResultsStored' /\ CacheCurrent'
  <2>1. "any" \in Code /\ stack.count \in Nat
    BY FrameFacts DEF Code, FramesInv
  <2>2. runs' \in Seq([ret : Nat, op : Served])
    BY DEF FramesInv, FramesTyped, Served
  <2> QED BY <2>1, <2>2, EnterCommon
<1>2. FramesTyped /\ RunsNested /\ FramesChained /\ StackExact
  BY DEF FramesInv
<1>3. /\ Depth \in Nat /\ Depth' = Depth + 1 /\ Depth >= 1 /\ Top = call_stack_funcs[Depth]
      /\ stack'.capacity = capacity /\ stack.capacity \in Nat /\ stack.count <= stack.capacity
      /\ stack.count \in Nat /\ runs # << >>
  BY <1>2, FrameFacts, TopFacts DEF Entered, Executing
<1>4. /\ \A k \in 1 .. Depth :
            /\ call_stack_funcs'[k].pos = call_stack_funcs[k].pos
            /\ call_stack_funcs'[k].size = call_stack_funcs[k].size
            /\ call_stack_funcs'[k].left = call_stack_funcs[k].left
            /\ call_stack_funcs'[k].caller_size = call_stack_funcs[k].caller_size
      /\ call_stack_funcs'[Depth + 1].caller_size = stack.count
  <2>1. ASSUME NEW k \in 1 .. Depth
        PROVE  /\ call_stack_funcs'[k].pos = call_stack_funcs[k].pos
               /\ call_stack_funcs'[k].size = call_stack_funcs[k].size
               /\ call_stack_funcs'[k].left = call_stack_funcs[k].left
               /\ call_stack_funcs'[k].caller_size = call_stack_funcs[k].caller_size
    <3>1. call_stack_funcs[k] \in FrameType
      BY <1>2, FrameFacts
    <3>2. call_stack_funcs'[k] = IF k = Depth THEN [call_stack_funcs[k] EXCEPT !.at = "any"]
                                 ELSE call_stack_funcs[k]
      BY DEF Entered
    <3> QED BY <3>1, <3>2 DEF FrameType
  <2>2. call_stack_funcs'[Depth + 1].caller_size = stack.count
    BY DEF Entered
  <2> QED BY <2>1, <2>2
<1>5. \A k \in 1 .. Depth : End(call_stack_funcs'[k]) = End(call_stack_funcs[k])
  BY <1>4 DEF End
<1>6. RunsNested'
  <2>1. \A j \in 1 .. Len(runs) : runs[j].op.count <= capacity
    <3>1. \A j \in 1 .. Len(runs) : runs[j].op.count <= stack.capacity /\ runs[j].op.count \in Nat
      BY <1>2, FrameFacts DEF RunsNested
    <3> QED BY <1>3, <3>1
  <2>3. \A j \in 1 .. Len(runs) : j > 1 =>
            runs[j].ret \in 1 .. Depth' /\ runs[j].op.count = End(call_stack_funcs'[runs[j].ret])
    <3>1. \A j \in 1 .. Len(runs) : j > 1 =>
            runs[j].ret \in 1 .. Depth /\ runs[j].op.count = End(call_stack_funcs[runs[j].ret])
      BY <1>2 DEF RunsNested
    <3> QED BY ONLY <1>3, <1>5, <3>1
  <2>4. /\ \A j \in 1 .. Len(runs) : /\ runs[j].op.kind = "host" <=> j = 1
                                     /\ j = 1 => runs[j].ret = 0
        /\ \A i, j \in 1 .. Len(runs) : i < j => runs[i].ret < runs[j].ret
    BY <1>2 DEF RunsNested
  <2>5. runs' = runs /\ stack'.capacity = capacity
    BY <1>3
  <2> QED BY ONLY <1>3, <2>1, <2>3, <2>4, <2>5 DEF RunsNested
<1>7. FramesChained'
  <2>1. stack.count = End(call_stack_funcs[Depth])
    BY <1>2, <1>3 DEF StackExact, End
  <2>2. ASSUME NEW k \in 1 .. Depth + 1
        PROVE  /\ call_stack_funcs'[k].caller_size <= capacity
               /\ k > 1 => k - 1 \in Waiting' \/ call_stack_funcs'[k].caller_size = End(call_stack_funcs'[k - 1])
    <3>1. CASE k = Depth + 1
      <4>1. k - 1 \in 1 .. Depth /\ k - 1 = Depth
        BY <1>3, <3>1
      <4> QED BY <1>3, <1>4, <1>5, <2>1, <3>1, <4>1
    <3>2. CASE k # Depth + 1
      <4>1. k \in 1 .. Depth /\ (k > 1 => k - 1 \in 1 .. Depth)
        BY <1>3, <3>2
      <4>2. Waiting' = Waiting
        BY DEF Waiting
      <4>3. /\ call_stack_funcs[k].caller_size <= stack.capacity
            /\ call_stack_funcs[k].caller_size \in Nat
            /\ k > 1 => k - 1 \in Waiting \/ call_stack_funcs[k].caller_size = End(call_stack_funcs[k - 1])
        BY <1>2, <4>1, FrameFacts DEF FramesChained
      <4>4. call_stack_funcs'[k].caller_size = call_stack_funcs[k].caller_size
        BY <1>4, <4>1
      <4>5. k > 1 => End(call_stack_funcs'[k - 1]) = End(call_stack_funcs[k - 1])
        BY <1>5, <4>1
      <4>6. call_stack_funcs'[k].caller_size <= capacity
        BY <1>3, <4>3, <4>4
      <4> QED BY <4>2, <4>3, <4>4, <4>5, <4>6
    <3> QED BY <3>1, <3>2
  <2> QED BY <1>3, <2>2 DEF FramesChained
<1> QED BY <1>1, <1>6, <1>7 DEF FramesInv

\* A call from C++ code or by an opcode that waits for its end: a run starts with the frame.
LEMMA EnterNewRun ==
  ASSUME ExecuteAssumption, FramesInv, NEW kind \in Callers, NEW count \in Nat,
         NEW capacity \in Nat, NEW at \in {"any", "jump"}, NEW func \in Nat,
         kind = "host" => runs = << >>,
         kind # "host" => Executing,
         Entered(stack.count, FrameSize, count, capacity, at),
         capacity >= stack.count + FrameSize, capacity >= count, capacity >= stack.capacity, FreedKept,
         runs' = Append(runs, [ret |-> Depth,
                               op |-> [kind |-> kind, stack_func |-> func, count |-> stack.count]])
  PROVE  FramesInv'
<1> DEFINE n == Len(runs) + 1
           op == [kind |-> kind, stack_func |-> func, count |-> stack.count]
           new == [ret |-> Depth, op |-> op]
<1>1. FramesTyped /\ RunsNested /\ FramesChained /\ StackExact
  BY DEF FramesInv
<1>2. /\ Depth \in Nat /\ Depth' = Depth + 1 /\ stack'.capacity = capacity /\ stack.capacity \in Nat
      /\ stack.count \in Nat /\ stack.count <= stack.capacity /\ Len(runs) \in Nat /\ FrameSize \in Nat
  BY <1>1, FrameFacts DEF Entered
<1>3. /\ Len(runs') = n /\ runs'[n] = new /\ \A j \in 1 .. Len(runs) : runs'[j] = runs[j]
      /\ runs' \in Seq([ret : Nat, op : Served]) /\ runs' # << >>
  <2>1. op \in Served
    BY <1>2 DEF Served
  <2>2. new \in [ret : Nat, op : Served]
    BY <1>2, <2>1
  <2> DEFINE R == [ret : Nat, op : Served]
  <2>3. runs \in Seq(R) /\ new \in R /\ runs' = Append(runs, new)
    BY <1>1, <2>2 DEF FramesTyped, Served
  <2> DEFINE more == Append(runs, new)
  <2> HIDE DEF R, new
  <2>4. /\ more \in Seq(R) /\ Len(more) = n /\ more[n] = new
        /\ \A j \in 1 .. Len(runs) : more[j] = runs[j]
    BY <1>2, <2>3
  <2>5. more # << >>
    BY <1>2, <2>4, EmptySeq
  <2>6. runs' = more
    BY <2>3
  <2> HIDE DEF more, n
  <2> QED BY <2>4, <2>5, <2>6 DEF R
<1>4. FramesTyped' /\ StackExact' /\ ResultsStored' /\ CacheCurrent'
  <2>1. at \in Code
    BY DEF Code
  <2> QED BY <1>2, <1>3, <2>1, EnterCommon
<1>5. runs'[n].ret = Depth /\ runs'[n].op.kind = kind /\ runs'[n].op.count = stack.count
  BY <1>3
<1> HIDE DEF op, new
<1>6. /\ \A k \in 1 .. Depth :
            /\ call_stack_funcs'[k].caller_size = call_stack_funcs[k].caller_size
            /\ End(call_stack_funcs'[k]) = End(call_stack_funcs[k])
      /\ call_stack_funcs'[Depth + 1].caller_size = count
  <2>1. ASSUME NEW k \in 1 .. Depth
        PROVE  /\ call_stack_funcs'[k].pos = call_stack_funcs[k].pos
               /\ call_stack_funcs'[k].size = call_stack_funcs[k].size
               /\ call_stack_funcs'[k].left = call_stack_funcs[k].left
               /\ call_stack_funcs'[k].caller_size = call_stack_funcs[k].caller_size
    <3>1. call_stack_funcs[k] \in FrameType
      BY <1>1, FrameFacts
    <3>2. call_stack_funcs'[k] = IF k = Depth THEN [call_stack_funcs[k] EXCEPT !.at = at]
                                 ELSE call_stack_funcs[k]
      BY DEF Entered
    <3> QED BY <3>1, <3>2 DEF FrameType
  <2>2. call_stack_funcs'[Depth + 1].caller_size = count
    BY DEF Entered
  <2> QED BY <2>1, <2>2 DEF End
<1>7. kind # "host" => /\ runs # << >> /\ Depth >= 1 /\ stack.count = End(call_stack_funcs[Depth])
                       /\ Depth > runs[Len(runs)].ret
  BY <1>1, TopFacts DEF Executing, StackExact, End
<1>8. kind = "host" <=> Len(runs) = 0
  <2>1. Len(runs) = 0 <=> runs = << >>
    BY <1>1, EmptySeq DEF FramesTyped
  <2> QED BY <1>7, <2>1
<1>9. RunsNested'
  <2>1. ASSUME NEW j \in 1 .. Len(runs)
        PROVE  /\ runs[j].op.kind = "host" <=> j = 1
               /\ j = 1 => runs[j].ret = 0
               /\ runs[j].op.count <= capacity
               /\ j > 1 => /\ runs[j].ret \in 1 .. Depth + 1
                           /\ runs[j].op.count = End(call_stack_funcs'[runs[j].ret])
    <3>1. /\ runs[j].op.kind = "host" <=> j = 1
          /\ j = 1 => runs[j].ret = 0
          /\ runs[j].op.count <= stack.capacity /\ runs[j].op.count \in Nat
          /\ j > 1 => /\ runs[j].ret \in 1 .. Depth
                      /\ runs[j].op.count = End(call_stack_funcs[runs[j].ret])
      BY <1>1, FrameFacts DEF RunsNested
    <3>2. runs[j].op.count <= capacity
      BY <1>2, <3>1
    <3>3. j > 1 => End(call_stack_funcs'[runs[j].ret]) = End(call_stack_funcs[runs[j].ret])
      BY <1>6, <3>1
    <3>4. j > 1 => runs[j].ret \in 1 .. Depth + 1
      <4>1. \A a \in 1 .. Depth : a \in 1 .. Depth + 1
        BY <1>2
      <4> QED BY ONLY <3>1, <4>1
    <3> QED BY ONLY <3>1, <3>2, <3>3, <3>4
  <2>2. /\ kind = "host" <=> n = 1
        /\ n = 1 => Depth = 0
        /\ stack.count <= capacity
        /\ n > 1 => Depth \in 1 .. Depth + 1 /\ stack.count = End(call_stack_funcs'[Depth])
    <3>1. kind = "host" <=> n = 1
      BY <1>2, <1>8
    <3>2. n = 1 => Depth = 0
      BY <1>1, <1>8, <3>1 DEF RunsNested
    <3>3. n > 1 => kind # "host"
      BY <1>2, <3>1
    <3>4. kind # "host" => stack.count = End(call_stack_funcs'[Depth])
      BY <1>2, <1>6, <1>7
    <3>5. kind # "host" => Depth >= 1
      BY <1>7
    <3> QED BY <1>2, <3>1, <3>2, <3>3, <3>4, <3>5
  <2>3. ASSUME NEW i \in 1 .. n, NEW j \in 1 .. n, i < j
        PROVE  runs'[i].ret < runs'[j].ret
    <3>1. i \in 1 .. Len(runs)
      BY <1>2, <2>3
    <3>2. CASE j = n
      <4>1. kind # "host" /\ runs[i].ret <= runs[Len(runs)].ret
        BY <1>1, <1>2, <1>8, <3>1, TopFacts
      <4>2. Len(runs) \in 1 .. Len(runs)
        BY <1>2, <3>1
      <4>3. runs[i].ret \in Nat /\ runs[Len(runs)].ret \in Nat
        BY <1>1, <3>1, <4>2, FrameFacts
      <4>4. runs'[i].ret = runs[i].ret /\ runs'[j].ret = Depth
        BY <1>3, <1>5, <3>1, <3>2
      <4>5. Depth > runs[Len(runs)].ret
        BY <1>7, <4>1
      <4> QED BY ONLY <1>2, <4>1, <4>3, <4>4, <4>5
    <3>3. CASE j # n
      <4>1. j \in 1 .. Len(runs)
        BY <1>2, <3>3
      <4>2. runs[i].ret < runs[j].ret
        BY <1>1, <2>3, <3>1, <4>1 DEF RunsNested
      <4> QED BY <1>3, <3>1, <4>1, <4>2
    <3> QED BY <3>2, <3>3
  <2>4. ASSUME NEW j \in 1 .. n
        PROVE  /\ runs'[j].op.kind = "host" <=> j = 1
               /\ j = 1 => runs'[j].ret = 0
               /\ runs'[j].op.count <= capacity
               /\ j > 1 => /\ runs'[j].ret \in 1 .. Depth + 1
                           /\ runs'[j].op.count = End(call_stack_funcs'[runs'[j].ret])
    <3>1. CASE j = n
      BY ONLY <1>5, <2>2, <3>1
    <3>2. CASE j # n
      <4>1. j \in 1 .. Len(runs)
        BY <1>2, <3>2
      <4>2. runs'[j] = runs[j]
        BY <1>3, <4>1
      <4> QED BY ONLY <2>1, <4>1, <4>2
    <3> QED BY <3>1, <3>2
  <2> QED BY ONLY <1>2, <1>3, <2>3, <2>4 DEF RunsNested
<1>10. /\ \A k \in Waiting : k \in Waiting'
       /\ Depth \in Waiting'
  <2>1. DOMAIN runs = 1 .. Len(runs) /\ DOMAIN runs' = 1 .. n
    BY <1>1, <1>3, FrameFacts
  <2>2. Waiting = {runs[j].ret : j \in 1 .. Len(runs)} /\ Waiting' = {runs'[j].ret : j \in 1 .. n}
    BY <2>1 DEF Waiting
  <2>3. n \in 1 .. n /\ \A j \in 1 .. Len(runs) : j \in 1 .. n
    BY <1>2
  <2> QED BY <1>3, <1>5, <2>2, <2>3
<1>11. FramesChained'
  <2>1. ASSUME NEW k \in 1 .. Depth + 1
        PROVE  /\ call_stack_funcs'[k].caller_size <= capacity
               /\ k > 1 => \/ k - 1 \in Waiting'
                           \/ call_stack_funcs'[k].caller_size = End(call_stack_funcs'[k - 1])
    <3>1. CASE k = Depth + 1
      BY <1>2, <1>6, <1>10, <3>1
    <3>2. CASE k # Depth + 1
      <4>1. k \in 1 .. Depth /\ (k > 1 => k - 1 \in 1 .. Depth)
        BY <1>2, <3>2
      <4>2. /\ call_stack_funcs[k].caller_size <= stack.capacity
            /\ call_stack_funcs[k].caller_size \in Nat
            /\ k > 1 => k - 1 \in Waiting \/ call_stack_funcs[k].caller_size = End(call_stack_funcs[k - 1])
        BY <1>1, <4>1, FrameFacts DEF FramesChained
      <4>3. call_stack_funcs'[k].caller_size = call_stack_funcs[k].caller_size
        BY <1>6, <4>1
      <4>4. call_stack_funcs'[k].caller_size <= capacity
        BY ONLY <1>2, <4>2, <4>3, capacity \in Nat, capacity >= stack.capacity
      <4>5. k > 1 => End(call_stack_funcs'[k - 1]) = End(call_stack_funcs[k - 1])
        BY <1>6, <4>1
      <4>6. k - 1 \in Waiting => k - 1 \in Waiting'
        BY <1>10
      <4> QED BY ONLY <4>2, <4>3, <4>4, <4>5, <4>6
    <3> QED BY <3>1, <3>2
  <2> QED BY <1>2, <2>1 DEF FramesChained
<1> QED BY <1>4, <1>9, <1>11 DEF FramesInv

\* A frame is left: the stack is what it was when the frame was entered.
LEMMA LeaveFrame ==
  ASSUME ExecuteAssumption, FramesInv, Executing, leave, UNCHANGED <<funcs_capacity, runs, raised, freed>>
  PROVE  FramesInv'
<1>1. FramesTyped /\ RunsNested /\ FramesChained
  BY DEF FramesInv
<1> DEFINE calls == Front(call_stack_funcs)
           n == Depth - 1
<1>2. /\ Depth \in Nat /\ Depth >= 1 /\ n \in Nat /\ Top = call_stack_funcs[Depth] /\ call_stack_funcs # << >>
      /\ runs # << >> /\ Depth > runs[Len(runs)].ret
      /\ stack.capacity \in Nat /\ stack.count \in Nat /\ Len(runs) \in Nat
      /\ runs[Len(runs)].ret \in Nat /\ Len(runs) >= 1
  BY <1>1, FrameFacts, TopFacts DEF Executing
<1>3. /\ call_stack_funcs' = calls /\ calls \in Seq(FrameType) /\ Len(calls) = n /\ Depth' = n
      /\ \A k \in 1 .. n : call_stack_funcs'[k] = call_stack_funcs[k]
  <2>1. call_stack_funcs \in Seq(FrameType) /\ call_stack_funcs # << >> /\ Len(call_stack_funcs) = Depth
    BY <1>1, <1>2 DEF FramesTyped, Depth
  <2>2. /\ calls \in Seq(FrameType) /\ Len(calls) = Depth - 1
        /\ \A k \in 1 .. Depth - 1 : calls[k] = call_stack_funcs[k]
    BY <2>1, FrontAndLast
  <2>3. call_stack_funcs' = calls
    BY DEF leave
  <2> HIDE DEF calls
  <2>4. Depth' = Len(calls)
    BY <2>3 DEF Depth
  <2> QED BY <2>2, <2>3, <2>4
<1>4. stack'.count = call_stack_funcs[Depth].caller_size /\ stack'.capacity = stack.capacity
      /\ stack' \in [capacity : Nat, count : Nat]
  <2>1. stack' = [stack EXCEPT !.count = call_stack_funcs[Depth].caller_size]
    BY <1>2 DEF leave, restoreStack
  <2>2. call_stack_funcs[Depth].caller_size \in Nat
    BY <1>1, <1>2, FrameFacts
  <2> QED BY <1>1, <2>1, <2>2 DEF FramesTyped
<1>5. stack_func_locals' = IF n = 0 THEN NoPointer
                           ELSE [capacity |-> stack.capacity, pos |-> call_stack_funcs[n].pos]
  <2>1. reloadStackFunctionCache(calls, stack.capacity)
    BY <1>3 DEF leave
  <2>2. calls = << >> <=> n = 0
    BY <1>3, EmptySeq
  <2>3. n # 0 => Last(calls) = call_stack_funcs[n]
    BY <1>2, <1>3 DEF Last
  <2> HIDE DEF calls, n
  <2> QED BY <2>1, <2>2, <2>3 DEF reloadStackFunctionCache
<1>6. sub_funcs' \in [1 .. MaxFrames -> {"empty", "used", "dangling"}]
  <2>1. PICK left \in {"empty", "used", "dangling"} : sub_funcs' = [sub_funcs EXCEPT ![Depth] = left]
    BY DEF leave, clearSubFuncs, ExecuteAssumption
  <2> QED BY <1>1, <2>1 DEF FramesTyped
<1> HIDE DEF calls, n
<1>7. FramesTyped'
  <2>1. Depth' <= MaxFrames /\ Depth' <= funcs_capacity'
    BY <1>1, <1>2, <1>3 DEF FramesTyped, ExecuteAssumption, n
  <2>2. stack'.count <= stack'.capacity
    BY <1>1, <1>2, <1>4 DEF FramesChained
  <2>3. stack_func_locals' \in [capacity : Nat, pos : Nat]
    <3>1. n # 0 => call_stack_funcs[n].pos \in Nat
      BY <1>1, <1>2, FrameFacts DEF n
    <3> QED BY <1>2, <1>5, <3>1 DEF NoPointer
  <2> QED BY <1>1, <1>3, <1>4, <1>6, <2>1, <2>2, <2>3 DEF FramesTyped
<1>8. StackExact'
  <2>1. SUFFICES ASSUME Executing' PROVE stack'.count = Top'.pos + Top'.size + Top'.left
    BY DEF StackExact
  <2>2. n > runs[Len(runs)].ret
    BY <1>3, <2>1 DEF Executing, Last
  <2>3. n \in 1 .. Depth /\ n = Depth - 1 /\ Depth > 1
    BY <1>2, <2>2 DEF n
  <2>4. n \notin Waiting
    <3>1. \A j \in 1 .. Len(runs) : runs[j].ret <= runs[Len(runs)].ret /\ runs[j].ret \in Nat
      BY <1>1, <1>2, TopFacts, FrameFacts
    <3> QED BY <1>1, <1>2, <2>2, <3>1, FrameFacts DEF Waiting
  <2>5. call_stack_funcs[Depth].caller_size = End(call_stack_funcs[Depth - 1])
    BY <1>1, <1>2, <2>3, <2>4 DEF FramesChained
  <2>6. Top' = call_stack_funcs[n]
    BY <1>2, <1>3, <2>3 DEF Top, Last, Depth
  <2> QED BY <1>4, <2>3, <2>5, <2>6 DEF End
<1>9. ResultsStored'
  BY DEF FramesInv, ResultsStored
<1>10. \A j \in 1 .. Len(runs) : runs[j].ret \in Nat /\ runs[j].ret <= n
  <2>1. \A j \in 1 .. Len(runs) : runs[j].ret <= runs[Len(runs)].ret /\ runs[j].ret \in Nat
    BY <1>1, <1>2, TopFacts, FrameFacts
  <2> QED BY <1>2, <2>1 DEF n
<1>11. RunsNested'
  <2>1. ASSUME NEW j \in 1 .. Len(runs)
        PROVE  /\ runs[j].op.kind = "host" <=> j = 1
               /\ j = 1 => runs[j].ret = 0
               /\ runs[j].op.count <= stack.capacity
               /\ j > 1 => /\ runs[j].ret \in 1 .. n
                           /\ runs[j].op.count = End(call_stack_funcs'[runs[j].ret])
    <3>1. /\ runs[j].op.kind = "host" <=> j = 1
          /\ j = 1 => runs[j].ret = 0
          /\ runs[j].op.count <= stack.capacity
          /\ j > 1 => /\ runs[j].ret \in 1 .. Depth
                      /\ runs[j].op.count = End(call_stack_funcs[runs[j].ret])
      BY <1>1 DEF RunsNested
    <3>2. j > 1 => runs[j].ret \in 1 .. n
      BY <1>2, <1>10, <3>1
    <3>3. j > 1 => call_stack_funcs'[runs[j].ret] = call_stack_funcs[runs[j].ret]
      BY <1>3, <3>2
    <3> QED BY ONLY <3>1, <3>2, <3>3
  <2>2. /\ runs' = runs /\ funcs_capacity' = funcs_capacity
        /\ \A i, j \in 1 .. Len(runs) : i < j => runs[i].ret < runs[j].ret
    BY <1>1 DEF RunsNested
  <2> QED BY ONLY <1>2, <1>3, <1>4, <2>1, <2>2 DEF RunsNested
<1>12. FramesChained'
  <2>1. ASSUME NEW k \in 1 .. n
        PROVE  /\ call_stack_funcs'[k].caller_size <= stack.capacity
               /\ k > 1 => \/ k - 1 \in Waiting'
                           \/ call_stack_funcs'[k].caller_size = End(call_stack_funcs'[k - 1])
    <3>1. k \in 1 .. Depth /\ (k > 1 => k - 1 \in 1 .. n)
      BY <1>2 DEF n
    <3>2. Waiting' = Waiting
      BY DEF Waiting
    <3>3. /\ call_stack_funcs'[k] = call_stack_funcs[k]
          /\ k > 1 => call_stack_funcs'[k - 1] = call_stack_funcs[k - 1]
      BY <1>3, <3>1
    <3>4. /\ call_stack_funcs[k].caller_size <= stack.capacity
          /\ k > 1 => k - 1 \in Waiting \/ call_stack_funcs[k].caller_size = End(call_stack_funcs[k - 1])
      BY <1>1, <3>1 DEF FramesChained
    <3> QED BY ONLY <3>2, <3>3, <3>4
  <2> QED BY ONLY <1>3, <1>4, <2>1 DEF FramesChained
<1>13. CacheCurrent'
  <2>1. n > 0 => call_stack_funcs'[n] = call_stack_funcs[n]
    BY <1>2, <1>3
  <2> QED BY <1>3, <1>4, <1>5, <2>1 DEF CacheCurrent
<1> QED BY <1>7, <1>8, <1>9, <1>11, <1>12, <1>13 DEF FramesInv

\* The top frame moves to another place of its code, and more values are left above
\* it; nothing else of the frames changes.
Marked(more) ==
    /\ call_stack_funcs' \in Seq(FrameType) /\ Depth' = Depth
    /\ \A k \in 1 .. Depth :
            /\ call_stack_funcs'[k].pos = call_stack_funcs[k].pos
            /\ call_stack_funcs'[k].size = call_stack_funcs[k].size
            /\ call_stack_funcs'[k].left = IF k = Depth THEN call_stack_funcs[k].left + more
                                          ELSE call_stack_funcs[k].left
            /\ call_stack_funcs'[k].caller_size = call_stack_funcs[k].caller_size

\* The ways to mark one frame, and what stays of it.
Marks(frame, marked, at, res, more) ==
    \/ marked = [frame EXCEPT !.at = at, !.res = res] /\ more = 0
    \/ marked = [frame EXCEPT !.at = at] /\ more = 0
    \/ marked = [frame EXCEPT !.left = @ + more, !.at = at]

LEMMA MarkFrame ==
  ASSUME NEW frame \in FrameType, NEW at \in Code, NEW res \in BOOLEAN, NEW more \in Nat,
         NEW marked, Marks(frame, marked, at, res, more)
  PROVE  /\ marked \in FrameType /\ marked.pos = frame.pos /\ marked.size = frame.size
         /\ marked.left = frame.left + more /\ marked.caller_size = frame.caller_size
<1>1. frame.left \in Nat /\ frame.left + 0 = frame.left
  BY DEF FrameType
<1>2. CASE marked = [frame EXCEPT !.at = at, !.res = res] /\ more = 0
  BY <1>1, <1>2 DEF FrameType
<1>3. CASE marked = [frame EXCEPT !.at = at] /\ more = 0
  BY <1>1, <1>3 DEF FrameType
<1>4. CASE marked = [frame EXCEPT !.left = @ + more, !.at = at]
  <2>1. PICK left \in Nat : left = frame.left + more
    BY <1>1
  <2>2. marked = [frame EXCEPT !.left = left, !.at = at]
    BY <1>4, <2>1
  <2> QED BY <2>1, <2>2 DEF FrameType
<1> QED BY <1>2, <1>3, <1>4 DEF Marks

LEMMA MarkTop ==
  ASSUME ExecuteAssumption, FramesTyped, Depth >= 1, NEW at \in Code, NEW res \in BOOLEAN, NEW more \in Nat,
         \/ /\ call_stack_funcs' = [call_stack_funcs EXCEPT ![Depth].at = at, ![Depth].res = res]
            /\ more = 0
         \/ call_stack_funcs' = [call_stack_funcs EXCEPT ![Depth].at = at] /\ more = 0
         \/ call_stack_funcs' = [call_stack_funcs EXCEPT ![Depth].left = @ + more, ![Depth].at = at]
  PROVE  Marked(more)
<1> DEFINE frame == call_stack_funcs[Depth]
<1>1. /\ Depth \in 1 .. Depth /\ Depth \in Nat /\ call_stack_funcs \in Seq(FrameType)
      /\ call_stack_funcs \in [1 .. Depth -> FrameType] /\ frame \in FrameType
  BY FrameFacts DEF Depth
<1>2. /\ call_stack_funcs' \in [1 .. Depth -> FrameType]
      /\ \A k \in 1 .. Depth : k # Depth => call_stack_funcs'[k] = call_stack_funcs[k]
      /\ call_stack_funcs'[Depth].pos = frame.pos /\ call_stack_funcs'[Depth].size = frame.size
      /\ call_stack_funcs'[Depth].left = frame.left + more
      /\ call_stack_funcs'[Depth].caller_size = frame.caller_size
  <2>1. PICK marked :
            /\ Marks(frame, marked, at, res, more)
            /\ call_stack_funcs' = [call_stack_funcs EXCEPT ![Depth] = marked]
    <3>1. CASE /\ call_stack_funcs' = [call_stack_funcs EXCEPT ![Depth].at = at, ![Depth].res = res]
               /\ more = 0
      <4> DEFINE m == [frame EXCEPT !.at = at, !.res = res]
      <4>1. call_stack_funcs' = [call_stack_funcs EXCEPT ![Depth] = m]
        BY <1>1, <3>1
      <4> QED BY <3>1, <4>1 DEF Marks
    <3>2. CASE call_stack_funcs' = [call_stack_funcs EXCEPT ![Depth].at = at] /\ more = 0
      <4> DEFINE m == [frame EXCEPT !.at = at]
      <4>1. call_stack_funcs' = [call_stack_funcs EXCEPT ![Depth] = m]
        BY <1>1, <3>2
      <4> QED BY <3>2, <4>1 DEF Marks
    <3>3. CASE call_stack_funcs' = [call_stack_funcs EXCEPT ![Depth].left = @ + more, ![Depth].at = at]
      <4> DEFINE m == [frame EXCEPT !.left = @ + more, !.at = at]
      <4>1. call_stack_funcs' = [call_stack_funcs EXCEPT ![Depth] = m]
        BY <1>1, <3>3
      <4> QED BY <4>1 DEF Marks
    <3> QED BY <3>1, <3>2, <3>3
  <2> HIDE DEF frame
  <2>2. /\ marked \in FrameType /\ marked.pos = frame.pos /\ marked.size = frame.size
        /\ marked.left = frame.left + more /\ marked.caller_size = frame.caller_size
    BY <1>1, <2>1, MarkFrame
  <2> QED BY <1>1, <2>1, <2>2
<1>3. call_stack_funcs' \in Seq(FrameType) /\ Len(call_stack_funcs') = Depth
  BY <1>1, <1>2
<1>4. Depth' = Depth
  BY <1>3 DEF Depth
<1>5. \A k \in 1 .. Depth : k # Depth => call_stack_funcs[k].left \in Nat
  BY FrameFacts
<1> QED BY <1>1, <1>2, <1>3, <1>4, <1>5 DEF Marked

\* A step of the running frame that calls nothing.
LEMMA MarkKeeps ==
  ASSUME ExecuteAssumption, FramesInv, Executing, NEW more \in Nat, Marked(more),
         NEW capacity \in Nat, capacity >= stack.capacity, capacity >= stack.count + more,
         stack' = [capacity |-> capacity, count |-> stack.count + more],
         stack_func_locals' = [capacity |-> capacity, pos |-> Top.pos],
         sub_funcs' \in [1 .. MaxFrames -> {"empty", "used", "dangling"}], raised' \in BOOLEAN,
         runs' = runs, funcs_capacity' = funcs_capacity, FreedKept
  PROVE  FramesInv'
<1>1. FramesTyped /\ RunsNested /\ FramesChained /\ StackExact
  BY DEF FramesInv
<1>2. /\ Depth \in Nat /\ Depth >= 1 /\ Top = call_stack_funcs[Depth] /\ runs # << >>
      /\ stack.capacity \in Nat /\ stack.count \in Nat
      /\ \A k \in 1 .. Depth : /\ call_stack_funcs[k].pos \in Nat /\ call_stack_funcs[k].size \in Nat
                               /\ call_stack_funcs[k].left \in Nat
  BY <1>1, FrameFacts, TopFacts DEF Executing
<1>3. /\ Depth' = Depth /\ stack'.capacity = capacity /\ stack'.count = stack.count + more
      /\ call_stack_funcs' \in Seq(FrameType)
  BY DEF Marked
<1>4. /\ Top' = call_stack_funcs'[Depth] /\ Top'.pos = Top.pos /\ Top'.size = Top.size
      /\ Top'.left = Top.left + more /\ Top.pos \in Nat /\ Top.size \in Nat /\ Top.left \in Nat
  <2>1. Top' = call_stack_funcs'[Depth]
    BY <1>3 DEF Top, Last, Depth
  <2> QED BY <1>2, <2>1 DEF Marked
<1>5. FramesTyped'
  <2>1. Depth <= MaxFrames /\ Depth <= funcs_capacity /\ funcs_capacity \in Nat
    BY <1>1 DEF FramesTyped
  <2>2. stack' \in [capacity : Nat, count : Nat] /\ stack'.count <= stack'.capacity
    BY <1>2, <1>3
  <2>3. stack_func_locals' \in [capacity : Nat, pos : Nat]
    BY <1>4
  <2> QED BY <1>1, <1>3, <2>1, <2>2, <2>3 DEF FramesTyped, FreedKept
<1>6. StackExact'
  <2>1. stack.count = Top.pos + Top.size + Top.left
    BY <1>1 DEF StackExact
  <2> QED BY <1>3, <1>4, <2>1 DEF StackExact
<1>7. ResultsStored' /\ CacheCurrent'
  BY <1>2, <1>3, <1>4 DEF ResultsStored, CacheCurrent, FreedKept
<1>8. \A k \in 1 .. Depth : /\ k < Depth => End(call_stack_funcs'[k]) = End(call_stack_funcs[k])
                            /\ call_stack_funcs'[k].caller_size = call_stack_funcs[k].caller_size
  BY <1>2 DEF Marked, End
<1>9. RunsNested'
  <2>1. ASSUME NEW j \in 1 .. Len(runs)
        PROVE  /\ runs[j].op.kind = "host" <=> j = 1
               /\ j = 1 => runs[j].ret = 0
               /\ runs[j].op.count <= capacity
               /\ j > 1 => /\ runs[j].ret \in 1 .. Depth
                           /\ runs[j].op.count = End(call_stack_funcs'[runs[j].ret])
    <3>1. /\ runs[j].op.kind = "host" <=> j = 1
          /\ j = 1 => runs[j].ret = 0
          /\ runs[j].op.count <= stack.capacity /\ runs[j].op.count \in Nat
          /\ j > 1 => /\ runs[j].ret \in 1 .. Depth
                      /\ runs[j].op.count = End(call_stack_funcs[runs[j].ret])
      BY <1>1, FrameFacts DEF RunsNested
    <3>2. runs[j].op.count <= capacity
      BY <1>2, <3>1
    <3>3. j > 1 => End(call_stack_funcs'[runs[j].ret]) = End(call_stack_funcs[runs[j].ret])
      <4>1. runs[j].ret <= runs[Len(runs)].ret /\ runs[Len(runs)].ret < Depth
        BY <1>1, <1>2, TopFacts
      <4>2. runs[j].ret \in Nat /\ runs[Len(runs)].ret \in Nat
        BY <1>1, <1>2, FrameFacts, TopFacts
      <4>3. runs[j].ret < Depth
        BY <1>2, <4>1, <4>2
      <4> QED BY <1>8, <3>1, <4>3
    <3> QED BY ONLY <3>1, <3>2, <3>3
  <2>2. /\ runs' = runs /\ funcs_capacity' = funcs_capacity
        /\ \A i, j \in 1 .. Len(runs) : i < j => runs[i].ret < runs[j].ret
    BY <1>1 DEF RunsNested
  <2> QED BY ONLY <1>2, <1>3, <2>1, <2>2 DEF RunsNested
<1>10. FramesChained'
  <2>1. ASSUME NEW k \in 1 .. Depth
        PROVE  /\ call_stack_funcs'[k].caller_size <= capacity
               /\ k > 1 => \/ k - 1 \in Waiting'
                           \/ call_stack_funcs'[k].caller_size = End(call_stack_funcs'[k - 1])
    <3>1. k > 1 => k - 1 \in 1 .. Depth /\ k - 1 < Depth
      BY <1>2
    <3>2. Waiting' = Waiting
      BY DEF Waiting
    <3>3. /\ call_stack_funcs'[k].caller_size = call_stack_funcs[k].caller_size
          /\ k > 1 => End(call_stack_funcs'[k - 1]) = End(call_stack_funcs[k - 1])
      BY <1>8, <3>1
    <3>4. /\ call_stack_funcs[k].caller_size <= stack.capacity /\ call_stack_funcs[k].caller_size \in Nat
          /\ k > 1 => k - 1 \in Waiting \/ call_stack_funcs[k].caller_size = End(call_stack_funcs[k - 1])
      BY <1>1, FrameFacts DEF FramesChained
    <3>5. call_stack_funcs[k].caller_size <= capacity
      BY <1>2, <3>4
    <3> QED BY ONLY <3>2, <3>3, <3>4, <3>5
  <2> QED BY ONLY <1>3, <2>1 DEF FramesChained
<1> QED BY <1>5, <1>6, <1>7, <1>9, <1>10 DEF FramesInv

\* The end of an opcode that called a method: the stack is as it was, and the
\* frame that waited runs on.
LEMMA PopRun ==
  ASSUME ExecuteAssumption, FramesInv, Returned, opOf.kind # "host", popResult,
         Marked(0),
         stack_func_locals' = stack_func_locals, sub_funcs' = sub_funcs, raised' = raised,
         funcs_capacity' = funcs_capacity, FreedKept
  PROVE  FramesInv'
<1> DEFINE n == Len(runs)
<1>1. FramesTyped /\ RunsNested /\ FramesChained /\ CacheCurrent
  BY DEF FramesInv
<1>2. runs # << >> /\ n \in Nat /\ n >= 1 /\ opOf = runs[n].op /\ Depth = runs[n].ret
  BY <1>1, FrameFacts, TopFacts DEF Returned, opOf
<1>3. /\ n > 1 /\ n \in 1 .. n /\ Depth \in 1 .. Depth
      /\ runs[n].op.count = End(call_stack_funcs[Depth]) /\ runs[n].op.count <= stack.capacity
      /\ runs[n].op.count \in Nat
  <2>1. n \in 1 .. n
    BY <1>2
  <2>2. n # 1
    BY <1>1, <1>2, <2>1 DEF RunsNested
  <2> QED BY <1>1, <1>2, <2>1, <2>2, FrameFacts DEF RunsNested
<1>4. /\ runs' = Front(runs) /\ Len(runs') = n - 1 /\ runs' \in Seq([ret : Nat, op : Served])
      /\ \A j \in 1 .. n - 1 : runs'[j] = runs[j]
  <2> DEFINE R == [ret : Nat, op : Served]
  <2>1. runs \in Seq(R) /\ runs' = Front(runs)
    BY <1>1 DEF FramesTyped, Served, popResult
  <2> HIDE DEF R
  <2>2. Front(runs) \in Seq(R) /\ Len(Front(runs)) = n - 1 /\ \A j \in 1 .. n - 1 : Front(runs)[j] = runs[j]
    BY <1>2, <2>1, FrontAndLast
  <2> QED BY <2>1, <2>2 DEF R
<1>5. /\ stack'.capacity = stack.capacity /\ stack'.count = End(call_stack_funcs[Depth])
      /\ stack' \in [capacity : Nat, count : Nat] /\ stack'.count <= stack'.capacity
  <2>1. stack' = [stack EXCEPT !.count = runs[n].op.count]
    BY <1>2 DEF popResult
  <2> QED BY <1>1, <1>3, <2>1 DEF FramesTyped
<1>6. /\ Depth' = Depth /\ call_stack_funcs' \in Seq(FrameType)
      /\ \A k \in 1 .. Depth : /\ End(call_stack_funcs'[k]) = End(call_stack_funcs[k])
                               /\ call_stack_funcs'[k].caller_size = call_stack_funcs[k].caller_size
                               /\ call_stack_funcs'[k].pos = call_stack_funcs[k].pos
  <2>1. \A k \in 1 .. Depth : call_stack_funcs[k].left \in Nat
    BY <1>1, FrameFacts
  <2> QED BY <2>1 DEF Marked, End
<1> HIDE DEF n
<1>7. FramesTyped'
  BY <1>1, <1>4, <1>5, <1>6 DEF FramesTyped, FreedKept, Served
<1>8. StackExact'
  <2>1. Top' = call_stack_funcs'[Depth]
    BY <1>6 DEF Top, Last, Depth
  <2>2. End(call_stack_funcs'[Depth]) = Top'.pos + Top'.size + Top'.left
    BY <2>1 DEF End
  <2> QED BY <1>3, <1>5, <1>6, <2>2 DEF StackExact
<1>9. ResultsStored'
  BY DEF FreedKept, ResultsStored
<1>10. CacheCurrent'
  BY <1>1, <1>3, <1>5, <1>6 DEF CacheCurrent
<1>11. \A j \in 1 .. n - 1 : j \in 1 .. n /\ j < n
  BY <1>2
<1>12. RunsNested'
  <2>1. ASSUME NEW j \in 1 .. n - 1
        PROVE  /\ runs'[j].op.kind = "host" <=> j = 1
               /\ j = 1 => runs'[j].ret = 0
               /\ runs'[j].op.count <= stack.capacity
               /\ j > 1 => /\ runs'[j].ret \in 1 .. Depth
                           /\ runs'[j].op.count = End(call_stack_funcs'[runs'[j].ret])
    <3>1. /\ runs[j].op.kind = "host" <=> j = 1
          /\ j = 1 => runs[j].ret = 0
          /\ runs[j].op.count <= stack.capacity
          /\ j > 1 => /\ runs[j].ret \in 1 .. Depth
                      /\ runs[j].op.count = End(call_stack_funcs[runs[j].ret])
      BY <1>1, <1>11 DEF RunsNested, n
    <3>2. j > 1 => End(call_stack_funcs'[runs[j].ret]) = End(call_stack_funcs[runs[j].ret])
      BY <1>6, <3>1
    <3>3. runs'[j] = runs[j]
      BY <1>4
    <3> QED BY ONLY <3>1, <3>2, <3>3
  <2>2. ASSUME NEW i \in 1 .. n - 1, NEW j \in 1 .. n - 1, i < j
        PROVE  runs'[i].ret < runs'[j].ret
    <3>1. runs[i].ret < runs[j].ret
      BY <1>1, <1>11, <2>2 DEF RunsNested, n
    <3> QED BY <1>4, <3>1
  <2>3. runs' # << >>
    BY <1>2, <1>3, <1>4
  <2>4. Len(runs') = n - 1 /\ Depth' = Depth /\ stack'.capacity = stack.capacity /\ funcs_capacity' = funcs_capacity
    BY <1>4, <1>5, <1>6
  <2> QED BY ONLY <2>1, <2>2, <2>3, <2>4 DEF RunsNested
<1>13. FramesChained'
  <2>1. ASSUME NEW k \in 1 .. Depth
        PROVE  /\ call_stack_funcs'[k].caller_size <= stack.capacity
               /\ k > 1 => \/ k - 1 \in Waiting'
                           \/ call_stack_funcs'[k].caller_size = End(call_stack_funcs'[k - 1])
    <3>1. k > 1 => k - 1 \in 1 .. Depth /\ k - 1 # Depth
      BY <1>3
    <3>2. ASSUME k > 1, k - 1 \in Waiting PROVE k - 1 \in Waiting'
      <4>1. PICK j \in 1 .. n : runs[j].ret = k - 1
        BY <1>1, <3>2, FrameFacts DEF Waiting, n
      <4>2. j \in 1 .. n - 1
        BY <1>2, <3>1, <3>2, <4>1
      <4>3. runs'[j].ret = k - 1 /\ DOMAIN runs' = 1 .. n - 1
        BY <1>4, <4>1, <4>2
      <4> QED BY <4>2, <4>3 DEF Waiting
    <3>3. /\ call_stack_funcs'[k].caller_size = call_stack_funcs[k].caller_size
          /\ k > 1 => End(call_stack_funcs'[k - 1]) = End(call_stack_funcs[k - 1])
      BY <1>6, <3>1
    <3>4. /\ call_stack_funcs[k].caller_size <= stack.capacity
          /\ k > 1 => k - 1 \in Waiting \/ call_stack_funcs[k].caller_size = End(call_stack_funcs[k - 1])
      BY <1>1 DEF FramesChained
    <3> QED BY ONLY <3>2, <3>3, <3>4
  <2> QED BY ONLY <1>5, <1>6, <2>1 DEF FramesChained
<1> QED BY <1>7, <1>8, <1>9, <1>10, <1>12, <1>13 DEF FramesInv

\* The call of C++ code returns: nothing runs.
LEMMA HostReturns ==
  ASSUME ExecuteAssumption, FramesInv, hostReturn
  PROVE  FramesInv'
<1>1. FramesTyped /\ RunsNested /\ FramesChained /\ CacheCurrent
  BY DEF FramesInv
<1>2. /\ runs # << >> /\ Len(runs) \in Nat /\ Len(runs) >= 1 /\ opOf = runs[Len(runs)].op
      /\ Depth = runs[Len(runs)].ret /\ runs[Len(runs)].op.kind = "host"
  BY <1>1, FrameFacts, TopFacts DEF hostReturn, Returned, opOf
<1>3. Len(runs) = 1 /\ Depth = 0 /\ runs[1].op.count <= stack.capacity /\ runs[1].op.count \in Nat
  BY <1>1, <1>2, FrameFacts DEF RunsNested
<1>4. runs' = << >> /\ stack' = [stack EXCEPT !.count = runs[1].op.count]
  <2> DEFINE R == [ret : Nat, op : Served]
  <2>1. runs \in Seq(R) /\ runs' = Front(runs)
    BY <1>1 DEF FramesTyped, Served, hostReturn, popResult
  <2> HIDE DEF R
  <2>2. Front(runs) \in Seq(R) /\ Len(Front(runs)) = 0
    BY <1>2, <1>3, <2>1, FrontAndLast
  <2>3. runs' = << >>
    BY <2>1, <2>2, EmptySeq
  <2> QED BY <1>2, <1>3, <2>3 DEF hostReturn, popResult
<1>5. /\ stack'.capacity = stack.capacity /\ stack' \in [capacity : Nat, count : Nat]
      /\ stack'.count <= stack'.capacity
  BY <1>1, <1>3, <1>4 DEF FramesTyped
<1>6. /\ call_stack_funcs' = call_stack_funcs /\ Depth' = Depth /\ funcs_capacity' = funcs_capacity
      /\ sub_funcs' = sub_funcs /\ stack_func_locals' = stack_func_locals /\ raised' = FALSE /\ freed' = freed
      /\ call_stack_funcs = << >>
  BY <1>1, <1>3, EmptySeq DEF hostReturn, Depth, FramesTyped
<1>7. FramesTyped'
  <2>1. runs' \in Seq([ret : Nat, op : [kind : Callers, stack_func : Nat, count : Nat]])
    BY <1>4
  <2> QED BY <1>1, <1>5, <1>6, <2>1 DEF FramesTyped
<1>8. StackExact' /\ RunsNested'
  BY <1>3, <1>4, <1>6 DEF StackExact, Executing, RunsNested
<1>9. FramesChained' /\ CacheCurrent' /\ ResultsStored'
  BY <1>3, <1>6 DEF FramesChained, CacheCurrent, ResultsStored, FramesInv
<1> QED BY <1>7, <1>8, <1>9 DEF FramesInv

\* A frame of at least pos + size values, on which count values are already.
LEMMA ReservedHasRoom ==
  ASSUME ExecuteAssumption, FramesTyped, NEW pos \in Nat, NEW size \in Nat, NEW count \in Nat
  PROVE  /\ Reserved(pos, size, count) \in Nat
         /\ Reserved(pos, size, count) >= pos + size /\ Reserved(pos, size, count) >= count
         /\ Reserved(pos, size, count) >= stack.capacity
<1> DEFINE n == IF pos + size > count THEN pos + size ELSE count
<1>1. n \in Nat /\ n >= pos + size /\ n >= count
  OBVIOUS
<1>2. stack.capacity \in Nat
  BY FrameFacts
<1>3. Reserved(pos, size, count) = GrownFrom(stack.capacity, n)
  BY DEF Reserved, Grown
<1> HIDE DEF n
<1>4. /\ GrownFrom(stack.capacity, n) \in Nat /\ GrownFrom(stack.capacity, n) >= stack.capacity
      /\ GrownFrom(stack.capacity, n) >= n
  BY <1>1, <1>2, GrownHasRoom
<1> QED BY ONLY <1>1, <1>2, <1>3, <1>4, pos \in Nat, size \in Nat, count \in Nat

\* The running frame.
LEMMA RunningFrame ==
  ASSUME ExecuteAssumption, FramesInv, Executing
  PROVE  /\ Depth \in Nat /\ Depth >= 1 /\ Top = call_stack_funcs[Depth] /\ call_stack_funcs # << >>
         /\ Top.pos \in Nat /\ Top.at \in Code /\ Top.res \in BOOLEAN /\ stack.count \in Nat
         /\ stack_func_locals = [capacity |-> stack.capacity, pos |-> Top.pos]
<1>1. FramesTyped /\ RunsNested /\ CacheCurrent
  BY DEF FramesInv
<1>2. runs # << >>
  BY DEF Executing
<1>3. Depth \in Nat /\ Depth >= 1 /\ Top = call_stack_funcs[Depth] /\ call_stack_funcs # << >>
  BY <1>1, <1>2, FrameFacts, TopFacts
<1>4. Depth \in 1 .. Depth
  BY <1>3
<1> QED BY <1>1, <1>3, <1>4, FrameFacts DEF CacheCurrent

\* What an opcode that calls a method reads before the stack grows.
LEMMA OperandsRead ==
  ASSUME FramesInv, NEW n \in Nat, readOperands(n) \/ freed' = freed
  PROVE  FreedKept
<1>1. freed \subseteq {"operand", "result", "frame", "cache", "sub_funcs"} /\ "result" \notin freed
  BY DEF FramesInv, FramesTyped, ResultsStored
<1>2. freed' = freed \/ freed' = freed \cup {"operand"}
  <2>1. CASE readOperands(n) /\ Grown(stack.count + n) = stack.capacity
    BY <2>1 DEF readOperands
  <2>2. CASE readOperands(n) /\ Grown(stack.count + n) # stack.capacity
    BY <2>2 DEF readOperands
  <2> QED BY <2>1, <2>2
<1> QED BY <1>1, <1>2 DEF FreedKept

\* The opcodes that call a method.
LEMMA MethodStep ==
  ASSUME ExecuteAssumption, FramesInv, CanFetch, NEW kind \in Callers \ {"host"},
         NEW n \in Nat, NEW m \in Nat, NEW at \in {"any", "jump"},
         readOperands(n) \/ freed' = freed, callMethod(kind, m, at)
  PROVE  FramesInv'
<1> DEFINE capacity == Reserved(stack.count, FrameSize, stack.count + m)
           count == stack.count + m
<1>1. FramesTyped /\ Executing
  BY DEF FramesInv, CanFetch
<1>2. stack.count \in Nat /\ FrameSize \in Nat /\ count \in Nat /\ funcs_capacity \in Nat
  BY <1>1, FrameFacts
<1>3. /\ capacity \in Nat /\ capacity >= stack.count + FrameSize /\ capacity >= count
      /\ capacity >= stack.capacity
  BY <1>1, <1>2, ReservedHasRoom
<1>4. callFT(stack.count, FrameSize, count, capacity, at)
  BY DEF callMethod
<1>5. runs' = Append(runs, [ret |-> Depth, op |-> [kind |-> kind, stack_func |-> funcs_capacity,
                                                   count |-> stack.count]])
  BY DEF callMethod
<1>6. FreedKept
  BY OperandsRead
<1> HIDE DEF capacity, count
<1>7. Entered(stack.count, FrameSize, count, capacity, at)
  <2>1. at \in Code /\ FrameSize \in {LeafSize, FrameSize}
    BY DEF Code
  <2> QED BY <1>1, <1>2, <1>3, <1>4, <2>1, CallEnters
<1> QED BY <1>1, <1>2, <1>3, <1>5, <1>6, <1>7, EnterNewRun

\* The calls that the same run enters.
LEMMA CallStep ==
  ASSUME ExecuteAssumption, FramesInv, opCall \/ opCallRest
  PROVE  FramesInv'
<1>1. FramesTyped /\ ResultsStored /\ Executing
  BY DEF FramesInv, CanFetch, opCall, opCallRest
<1> DEFINE pos == Top.pos + PRE_VARS
<1>2. /\ pos \in Nat /\ stack.count \in Nat /\ stack.capacity \in Nat /\ LeafSize \in Nat /\ FrameSize \in Nat
      /\ "any" \in Code
  <2>1. Top.pos \in Nat /\ stack.count \in Nat
    BY <1>1, RunningFrame
  <2>2. stack.capacity \in Nat /\ LeafSize \in Nat /\ FrameSize \in Nat
    BY <1>1, FrameFacts
  <2> QED BY <2>1, <2>2 DEF PRE_VARS, Code
<1>3. PICK size \in {LeafSize, FrameSize} : \E capacity \in Nat :
        /\ callFT(pos, size, stack.count, capacity, "any")
        /\ capacity >= pos + size /\ capacity >= stack.capacity
        /\ freed' = freed \/ freed' = freed \cup {"cache"}
        /\ runs' = runs
  <2>1. CASE opCall
    <3>1. PICK size \in {LeafSize, FrameSize} :
            callFT(pos, size, stack.count, Reserved(pos, size, stack.count), "any")
      BY <2>1 DEF opCall
    <3>2. /\ Reserved(pos, size, stack.count) \in Nat /\ Reserved(pos, size, stack.count) >= pos + size
          /\ Reserved(pos, size, stack.count) >= stack.capacity
      BY <1>1, <1>2, ReservedHasRoom
    <3> QED BY <2>1, <3>1, <3>2 DEF opCall
  <2>2. CASE opCallRest
    <3>1. PICK size \in {LeafSize, FrameSize} :
            LET reserved == Reserved(pos, size, stack.count)
                capacity == GrownFrom(reserved, stack.count + 1)
            IN  /\ callFT(pos, size, stack.count, capacity, "any")
                /\ freed' = IF capacity # reserved /\ GrownCalls # funcs_capacity
                            THEN freed \cup {"cache"} ELSE freed
      BY <2>2 DEF opCallRest
    <3> DEFINE reserved == Reserved(pos, size, stack.count)
               capacity == GrownFrom(reserved, stack.count + 1)
    <3>2. reserved \in Nat /\ reserved >= pos + size /\ reserved >= stack.capacity
      BY <1>1, <1>2, ReservedHasRoom
    <3>3. capacity \in Nat /\ capacity >= reserved
      <4> HIDE DEF reserved
      <4>1. stack.count + 1 \in Nat
        BY <1>2
      <4> QED BY <3>2, <4>1, GrownHasRoom
    <3>4. callFT(pos, size, stack.count, capacity, "any") /\ runs' = runs
          /\ (freed' = freed \/ freed' = freed \cup {"cache"})
      BY <2>2, <3>1 DEF opCallRest
    <3>5. pos + size \in Nat
      BY <1>2
    <3> HIDE DEF capacity, reserved, pos
    <3>6. capacity >= pos + size /\ capacity >= stack.capacity
      BY ONLY <1>2, <3>2, <3>3, <3>5
    <3> QED BY <3>3, <3>4, <3>6
  <2> QED BY <2>1, <2>2
<1>4. PICK capacity \in Nat :
        /\ callFT(pos, size, stack.count, capacity, "any")
        /\ capacity >= pos + size /\ capacity >= stack.capacity
        /\ freed' = freed \/ freed' = freed \cup {"cache"}
        /\ runs' = runs
  BY <1>3
<1> HIDE DEF pos
<1>5. Entered(pos, size, stack.count, capacity, "any")
  BY <1>1, <1>2, <1>4, CallEnters
<1>6. FreedKept
  BY <1>1, <1>4 DEF FreedKept, FramesTyped, ResultsStored
<1> QED BY <1>1, <1>2, <1>4, <1>5, <1>6, EnterSameRun

\* C++ code calls a function.
LEMMA HostCalls ==
  ASSUME ExecuteAssumption, FramesInv, hostCall
  PROVE  FramesInv'
<1>1. FramesTyped /\ ResultsStored /\ RunsNested /\ runs = << >>
  BY DEF FramesInv, hostCall
<1> DEFINE count == stack.count + PRE_VARS
           capacity == Reserved(stack.count, FrameSize, count)
<1>2. /\ stack.count \in Nat /\ count \in Nat /\ stack.capacity \in Nat /\ FrameSize \in Nat
      /\ Depth = 0
  BY <1>1, FrameFacts DEF PRE_VARS, RunsNested
<1>3. /\ capacity \in Nat /\ capacity >= stack.count + FrameSize /\ capacity >= count
      /\ capacity >= stack.capacity
  BY <1>1, <1>2, ReservedHasRoom
<1>4. callFT(stack.count, FrameSize, count, capacity, "any") /\ freed' = freed
  BY DEF hostCall
<1>5. runs' = Append(runs, [ret |-> Depth, op |-> [kind |-> "host", stack_func |-> 0, count |-> stack.count]])
  BY <1>1, <1>2 DEF hostCall
<1>6. FreedKept
  BY <1>1, <1>4 DEF FreedKept, FramesTyped, ResultsStored
<1> HIDE DEF capacity, count
<1>7. /\ "any" \in Code /\ FrameSize \in {LeafSize, FrameSize} /\ "any" \in {"any", "jump"}
      /\ "host" \in Callers /\ 0 \in Nat
  BY DEF Code, Callers
<1>8. Entered(stack.count, FrameSize, count, capacity, "any")
  BY <1>1, <1>2, <1>3, <1>4, <1>7, CallEnters
<1> QED BY <1>1, <1>2, <1>3, <1>5, <1>6, <1>7, <1>8, EnterNewRun

\* The opcodes that call nothing, the accesses that are refused, and a try block
\* that catches.
LEMMA FrameStep ==
  ASSUME ExecuteAssumption, FramesInv,
         \/ opCompareNumbers \/ opNewObject \/ opNewFunction \/ opJump \/ opThrow \/ catchInFrame
         \/ CanFetch /\ refuse
  PROVE  FramesInv'
<1>1. FramesTyped /\ ResultsStored /\ Executing
  BY DEF FramesInv, CanFetch, opCompareNumbers, opNewObject, opNewFunction, opJump, opThrow, catchInFrame
<1>2. /\ Depth \in Nat /\ Depth >= 1 /\ Top = call_stack_funcs[Depth] /\ call_stack_funcs # << >>
      /\ Top.pos \in Nat /\ Top.res \in BOOLEAN
      /\ stack.count \in Nat /\ stack.capacity \in Nat /\ stack.count <= stack.capacity
      /\ stack_func_locals = [capacity |-> stack.capacity, pos |-> Top.pos]
      /\ stack = [capacity |-> stack.capacity, count |-> stack.count + 0]
  BY <1>1, FrameFacts, RunningFrame
<1>3. /\ sub_funcs \in [1 .. MaxFrames -> {"empty", "used", "dangling"}] /\ raised \in BOOLEAN
      /\ freed \subseteq {"operand", "result", "frame", "cache", "sub_funcs"} /\ "result" \notin freed
      /\ {"any", "jump", "then", "else"} = Code
  BY <1>1 DEF FramesTyped, ResultsStored, Code
<1>4. \A n \in Nat : /\ Grown(stack.count + n) \in Nat /\ Grown(stack.count + n) >= stack.capacity
                     /\ Grown(stack.count + n) >= stack.count + n
  <2> SUFFICES ASSUME NEW n \in Nat
               PROVE  /\ Grown(stack.count + n) \in Nat /\ Grown(stack.count + n) >= stack.capacity
                      /\ Grown(stack.count + n) >= stack.count + n
    OBVIOUS
  <2>1. stack.count + n \in Nat
    BY <1>2
  <2> QED BY <1>2, <2>1, GrownHasRoom DEF Grown
<1>5. ASSUME NEW n \in Nat, reloadStackFunctionCache(call_stack_funcs, Grown(stack.count + n))
      PROVE  stack_func_locals' = [capacity |-> Grown(stack.count + n), pos |-> Top.pos]
  BY <1>2, <1>5 DEF reloadStackFunctionCache, Top
<1>6. ASSUME Marked(0),
             UNCHANGED <<funcs_capacity, sub_funcs, stack, stack_func_locals, runs, freed>>,
             raised' \in BOOLEAN
      PROVE  FramesInv'
  <2>1. FreedKept
    BY <1>3, <1>6 DEF FreedKept
  <2>2. /\ stack' = [capacity |-> stack.capacity, count |-> stack.count + 0]
        /\ stack_func_locals' = [capacity |-> stack.capacity, pos |-> Top.pos]
        /\ sub_funcs' \in [1 .. MaxFrames -> {"empty", "used", "dangling"}]
        /\ runs' = runs /\ funcs_capacity' = funcs_capacity
        /\ stack.capacity >= stack.count + 0 /\ stack.capacity >= stack.capacity /\ 0 \in Nat
    BY <1>2, <1>3, <1>6
  <2> QED BY <1>1, <1>2, <1>6, <2>1, <2>2, MarkKeeps
<1>7. CASE opCompareNumbers
  <2>1. PICK res \in BOOLEAN : call_stack_funcs' = [call_stack_funcs EXCEPT
            ![Depth].at = IF res THEN "then" ELSE "else", ![Depth].res = res]
    BY <1>7 DEF opCompareNumbers
  <2> DEFINE at == IF res THEN "then" ELSE "else"
  <2>2. at \in Code /\ call_stack_funcs' = [call_stack_funcs EXCEPT ![Depth].at = at, ![Depth].res = res]
    BY <1>3, <2>1
  <2> HIDE DEF at
  <2>3. Marked(0)
    BY <1>1, <1>2, <2>2, MarkTop
  <2> QED BY <1>3, <1>6, <1>7, <2>3 DEF opCompareNumbers
<1>8. CASE opNewObject \/ opNewFunction
  <2> DEFINE capacity == Grown(stack.count + 1)
  <2>1. capacity \in Nat /\ capacity >= stack.capacity /\ capacity >= stack.count + 0
    BY <1>2, <1>4
  <2>2. /\ stack' = [stack EXCEPT !.capacity = capacity] /\ reloadStackFunctionCache(call_stack_funcs, capacity)
        /\ call_stack_funcs' = [call_stack_funcs EXCEPT ![Depth].at = "any"]
        /\ UNCHANGED <<funcs_capacity, runs, raised>>
        /\ freed' = freed \/ freed' = freed \cup {"sub_funcs"}
        /\ sub_funcs' = sub_funcs \/ sub_funcs' = [sub_funcs EXCEPT ![Depth] = "used"]
    <3>1. CASE opNewObject
      BY <3>1 DEF opNewObject
    <3>2. CASE opNewFunction
      <4>1. freed' = freed \/ freed' = freed \cup {"sub_funcs"}
        BY <3>2 DEF opNewFunction
      <4> QED BY <3>2, <4>1 DEF opNewFunction
    <3> QED BY <1>8, <3>1, <3>2
  <2>3. stack_func_locals' = [capacity |-> capacity, pos |-> Top.pos]
    BY <1>5, <2>2
  <2> HIDE DEF capacity
  <2>4. stack' = [capacity |-> capacity, count |-> stack.count + 0]
    BY <1>2, <2>2
  <2>5. Marked(0)
    BY <1>1, <1>2, <1>3, <2>2, MarkTop
  <2>6. FreedKept
    BY <1>3, <2>2 DEF FreedKept
  <2>7. sub_funcs' \in [1 .. MaxFrames -> {"empty", "used", "dangling"}] /\ raised' \in BOOLEAN
    BY <1>3, <2>2
  <2> QED BY <1>1, <1>2, <2>1, <2>2, <2>3, <2>4, <2>5, <2>6, <2>7, MarkKeeps
<1>9. CASE opJump
  <2>1. Marked(0)
    BY <1>1, <1>2, <1>3, <1>9, MarkTop DEF opJump
  <2> QED BY <1>3, <1>6, <1>9, <2>1 DEF opJump
<1>10. CASE catchInFrame
  <2>1. Marked(0)
    BY <1>1, <1>2, <1>3, <1>10, MarkTop DEF catchInFrame
  <2> QED BY <1>6, <1>10, <2>1 DEF catchInFrame
<1>11. CASE CanFetch /\ refuse
  <2> DEFINE capacity == Grown(stack.count + 6)
  <2>1. capacity \in Nat /\ capacity >= stack.capacity /\ capacity >= stack.count + 2
    BY <1>2, <1>4
  <2>2. stack_func_locals' = [capacity |-> capacity, pos |-> Top.pos]
    BY <1>5, <1>11 DEF refuse
  <2>3. stack' = [capacity |-> capacity, count |-> stack.count + 2]
    BY <1>11 DEF refuse
  <2>4. Marked(2)
    <3>1. call_stack_funcs' = [call_stack_funcs EXCEPT ![Depth].left = @ + 2, ![Depth].at = "any"]
      BY <1>11 DEF refuse
    <3> QED BY <1>1, <1>2, <1>3, <3>1, MarkTop
  <2>5. /\ FreedKept /\ raised' \in BOOLEAN /\ runs' = runs /\ funcs_capacity' = funcs_capacity
        /\ sub_funcs' \in [1 .. MaxFrames -> {"empty", "used", "dangling"}]
    BY <1>3, <1>11 DEF FreedKept, refuse
  <2> HIDE DEF capacity
  <2> QED BY <1>1, <2>1, <2>2, <2>3, <2>4, <2>5, MarkKeeps
<1>12. CASE opThrow
  <2>1. /\ UNCHANGED <<call_stack_funcs, funcs_capacity, sub_funcs, stack, stack_func_locals, runs, freed>>
        /\ raised' = TRUE
    BY <1>12 DEF opThrow
  <2> QED BY <2>1 DEF FramesInv, FramesTyped, StackExact, Executing, Top, Depth, ResultsStored, RunsNested,
                     FramesChained, Waiting, CacheCurrent
<1> QED BY <1>7, <1>8, <1>9, <1>10, <1>11, <1>12

\* An opcode that called a method ends.
LEMMA FinishStep ==
  ASSUME ExecuteAssumption, FramesInv, finishCompare \/ finishValue
  PROVE  FramesInv'
<1>1. /\ FramesTyped /\ RunsNested /\ ResultsStored /\ CacheCurrent
      /\ Returned /\ opOf.kind # "host" /\ popResult
  BY DEF FramesInv, finishCompare, finishValue
<1> DEFINE n == Len(runs)
<1>2. runs # << >> /\ n \in Nat /\ n >= 1 /\ opOf = runs[n].op /\ Depth = runs[n].ret
  BY <1>1, FrameFacts, TopFacts DEF Returned, opOf
<1>3. Depth \in Nat /\ Depth >= 1 /\ Depth \in 1 .. Depth
  <2>1. n \in 1 .. n
    BY <1>2
  <2>2. n > 1
    BY <1>1, <1>2, <2>1 DEF RunsNested
  <2> QED BY <1>1, <1>2, <2>1, <2>2, FrameFacts DEF RunsNested
<1>4. /\ call_stack_funcs[Depth] \in FrameType /\ call_stack_funcs[Depth].at \in Code
      /\ call_stack_funcs[Depth].res \in BOOLEAN /\ DOMAIN call_stack_funcs = 1 .. Depth
      /\ Top = call_stack_funcs[Depth]
  BY <1>1, <1>3, FrameFacts DEF Top, Last, Depth
<1>5. freed \subseteq {"operand", "result", "frame", "cache", "sub_funcs"} /\ "result" \notin freed
  BY <1>1 DEF FramesTyped, ResultsStored
<1>6. ASSUME finishCompare PROVE FramesInv'
  <2>1. PICK res \in BOOLEAN : takeBranch(res)
    BY <1>6 DEF finishCompare
  <2> DEFINE at == IF opOf.stack_func # funcs_capacity THEN call_stack_funcs[Depth].at
                   ELSE IF res THEN "then" ELSE "else"
  <2>2. call_stack_funcs' = [call_stack_funcs EXCEPT ![Depth].at = at, ![Depth].res = res]
    BY <1>3, <1>4, <2>1 DEF takeBranch
  <2>3. at \in Code
    BY <1>4 DEF Code
  <2> HIDE DEF at
  <2>4. Marked(0)
    BY <1>1, <1>3, <2>2, <2>3, MarkTop
  <2>5. /\ UNCHANGED <<funcs_capacity, sub_funcs, stack_func_locals, raised>>
        /\ freed' = freed \/ freed' = freed \cup {"frame"}
    <3>1. freed' = IF opOf.stack_func = funcs_capacity THEN freed ELSE freed \cup {"frame"}
      BY <1>6 DEF finishCompare
    <3> QED BY <1>6, <3>1 DEF finishCompare
  <2>6. FreedKept
    BY <1>5, <2>5 DEF FreedKept
  <2> QED BY <1>1, <2>4, <2>5, <2>6, PopRun
<1>7. ASSUME finishValue PROVE FramesInv'
  <2>1. UNCHANGED <<call_stack_funcs, funcs_capacity, sub_funcs, stack_func_locals, raised>>
    BY <1>7 DEF finishValue
  <2>2. freed' = freed
    <3>1. stack_func_locals = [capacity |-> stack.capacity, pos |-> Top.pos]
      BY <1>1, <1>3, <1>4 DEF CacheCurrent
    <3> QED BY <1>7, <3>1 DEF finishValue
  <2>3. Marked(0)
    <3>1. \A k \in 1 .. Depth : call_stack_funcs[k].left \in Nat
      BY <1>1, FrameFacts
    <3> QED BY <1>1, <2>1, <3>1, FrameFacts DEF Marked, Depth
  <2>4. FreedKept
    BY <1>5, <2>2 DEF FreedKept
  <2> QED BY <1>1, <2>1, <2>3, <2>4, PopRun
<1> QED BY <1>6, <1>7

\* The program starts with no frames.
LEMMA FramesInit ==
  ASSUME ExecuteAssumption, ExecuteInit
  PROVE  FramesInv
<1>1. Depth = 0 /\ Len(runs) = 0 /\ runs = << >>
  BY DEF ExecuteInit, Depth
<1>2. FramesTyped
  <2>1. NoPointer \in [capacity : Nat, pos : Nat]
    BY DEF NoPointer
  <2>2. call_stack_funcs \in Seq(FrameType)
    BY DEF ExecuteInit
  <2>3. runs \in Seq([ret : Nat, op : [kind : Callers, stack_func : Nat, count : Nat]])
    BY DEF ExecuteInit
  <2>4. stack \in [capacity : Nat, count : Nat] /\ stack.count <= stack.capacity
    BY DEF ExecuteInit, ExecuteAssumption
  <2>5. Depth <= MaxFrames /\ funcs_capacity \in Nat /\ Depth <= funcs_capacity
    BY <1>1 DEF ExecuteInit, ExecuteAssumption
  <2>6. sub_funcs \in [1 .. MaxFrames -> {"empty", "used", "dangling"}]
    BY DEF ExecuteInit
  <2> QED BY <2>1, <2>2, <2>3, <2>4, <2>5, <2>6 DEF FramesTyped, ExecuteInit
<1>3. StackExact /\ ResultsStored /\ RunsNested /\ FramesChained /\ CacheCurrent
  BY <1>1 DEF StackExact, Executing, ResultsStored, ExecuteInit, RunsNested, FramesChained, CacheCurrent
<1> QED BY <1>2, <1>3 DEF FramesInv

\* Every step keeps FramesInv.
LEMMA FramesNext ==
  ASSUME ExecuteAssumption, FramesInv, [ExecuteNext]_executeVars
  PROVE  FramesInv'
<1>1. CASE hostCall
  BY <1>1, HostCalls
<1>2. CASE opCall \/ opCallRest
  BY <1>2, CallStep
<1>3. CASE opCompareNumbers \/ opNewObject \/ opNewFunction \/ opJump \/ opThrow \/ catchInFrame
  BY <1>3, FrameStep
<1>4. /\ {"compare", "operator", "get", "getter", "set"} = Callers \ {"host"}
      /\ "any" \in {"any", "jump"} /\ "jump" \in {"any", "jump"}
      /\ 0 \in Nat /\ 1 \in Nat /\ 2 \in Nat /\ 3 \in Nat /\ 4 \in Nat
  BY DEF Callers
<1>5. CASE opCompareObjects
  <2>1. CanFetch /\ readOperands(2) /\ callMethod("compare", 3, "jump")
    BY <1>5 DEF opCompareObjects
  <2> QED BY <1>4, <2>1, MethodStep
<1>6. CASE opOperator
  <2>1. CanFetch /\ readOperands(2) /\ callMethod("operator", 3, "any")
    BY <1>6 DEF opOperator
  <2> QED BY <1>4, <2>1, MethodStep
<1>7. CASE opGet
  <2>1. CASE CanFetch /\ callMethod("get", 3, "any") /\ freed' = freed
    BY <1>4, <2>1, MethodStep
  <2>2. CASE CanFetch /\ refuse
    BY <2>2, FrameStep
  <2> QED BY <1>7, <2>1, <2>2 DEF opGet
<1>8. CASE opGetter
  <2>1. CanFetch /\ readOperands(1) /\ callMethod("getter", 2, "any")
    BY <1>8 DEF opGetter
  <2> QED BY <1>4, <2>1, MethodStep
<1>9. CASE opSet
  <2>1. ASSUME NEW n \in {3, 4}, CanFetch, callMethod("set", n, "any"), freed' = freed
        PROVE  FramesInv'
    <3>1. n \in Nat
      BY <1>4
    <3> QED BY <1>4, <2>1, <3>1, MethodStep
  <2>2. CASE CanFetch /\ refuse
    BY <2>2, FrameStep
  <2> QED BY <1>9, <2>1, <2>2 DEF opSet
<1>10. CASE opReturn \/ unwind
  <2>1. Executing /\ leave /\ UNCHANGED <<funcs_capacity, runs, raised, freed>>
    BY <1>10 DEF opReturn, unwind, CanFetch
  <2> QED BY <2>1, LeaveFrame
<1>11. CASE hostReturn
  BY <1>11, HostReturns
<1>12. CASE finishCompare \/ finishValue
  BY <1>12, FinishStep
<1>13. CASE UNCHANGED executeVars
  BY <1>13 DEF executeVars, FramesInv, FramesTyped, StackExact, Executing, Top, Depth, ResultsStored,
               RunsNested, FramesChained, Waiting, CacheCurrent
<1> QED BY <1>1, <1>2, <1>3, <1>5, <1>6, <1>7, <1>8, <1>9, <1>10, <1>11, <1>12, <1>13
    DEF ExecuteNext, Opcode

LEMMA FramesInvariance == ExecuteAssumption => (ExecuteSpec => []FramesInv)
<1> SUFFICES ASSUME ExecuteAssumption PROVE ExecuteSpec => []FramesInv
  OBVIOUS
<1>1. ExecuteInit => FramesInv
  BY FramesInit
<1>2. FramesInv /\ [ExecuteNext]_executeVars => FramesInv'
  BY FramesNext
<1> QED BY <1>1, <1>2, PTL DEF ExecuteSpec

\* FramesExact: whatever is called, refused, returns or throws, at any depth and in
\* buffers of any size that move at any call, the stack ends where the running frame
\* ends, with two values above it for each access refused in it, and the value of an operator or of a property is stored
\* through a pointer into the stack as it is then (execute, callFT,
\* growStackValues, reloadStackFunctionCache).
THEOREM FramesAreExact == ExecuteAssumption => (ExecuteSpec => []FramesExact)
<1>1. FramesInv => FramesExact
  BY DEF FramesInv, FramesExact
<1> QED BY <1>1, FramesInvariance, PTL
=============================================================================
