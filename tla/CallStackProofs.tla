-------------------------- MODULE CallStackProofs --------------------------
(***************************************************************************)
(* Proof that CountsExact, ParentsAlive and FramesCurrent are invariants   *)
(* of CallStack, for any program, any number of functions and scopes, any  *)
(* depth of calls and any size of the stack.                               *)
(*                                                                         *)
(* None of the three is inductive alone: deleteLocals frees a scope when   *)
(* its count says so, the counts are exact because no pointer to a freed   *)
(* scope is left, and the frames' pointers are current because no scope of *)
(* a frame is freed.  Inv is their conjunction.                            *)
(***************************************************************************)
EXTENDS CallStack, FiniteSetTheorems, SequenceTheorems, WellFoundedInduction,
        NaturalsInduction, TLAPS

Inv == CountsExact /\ ParentsAlive /\ FramesCurrent

-----------------------------------------------------------------------------
(* Numbers.                                                                *)

\* A set of numbers has a least element.
LEMMA LeastElement ==
  ASSUME NEW T \in SUBSET Nat, T # {}
  PROVE  \E x \in T : \A y \in T : x <= y
<1> DEFINE R == OpToRel(<, Nat)
<1>1. IsWellFoundedOn(R, Nat)
  BY NatLessThanWellFounded
<1>2. \A x, y \in Nat : <<y, x>> \in R <=> y < x
  BY DEF OpToRel
<1> HIDE DEF R
<1>3. PICK x \in T : \A y \in T : ~(<<y, x>> \in R)
  BY <1>1, WFMin
<1>4. \A y \in T : x \in Nat /\ y \in Nat /\ ~(y < x)
  BY <1>2, <1>3
<1> QED BY <1>4

\* A finite set of numbers is bounded.
LEMMA FiniteIsBounded ==
  ASSUME NEW S \in SUBSET Nat, IsFiniteSet(S)
  PROVE  \E b \in Nat : \A y \in S : y <= b
<1> DEFINE n == Cardinality(S)
<1>1. n \in Nat /\ ExistsBijection(1 .. n, S)
  BY FS_CardinalityType
<1>2. PICK f \in Bijection(1 .. n, S) : TRUE
  BY <1>1 DEF ExistsBijection
<1>3. f \in [1 .. n -> S] /\ \A y \in S : \E i \in 1 .. n : f[i] = y
  BY <1>2 DEF Bijection, Injection, Surjection
<1> HIDE DEF n
<1> DEFINE bounded(m) == \E b \in Nat : \A i \in 1 .. m : f[i] <= b
           bad == {m \in Nat : m <= n /\ ~bounded(m)}
<1>4. bad = {}
  <2> SUFFICES ASSUME bad # {} PROVE FALSE
    OBVIOUS
  <2>1. PICK m \in bad : \A k \in bad : m <= k
    <3> HIDE DEF bounded
    <3> QED BY LeastElement
  <2>2. m \in Nat /\ m <= n /\ ~bounded(m)
    <3> HIDE DEF bounded
    <3> QED BY <2>1
  <2>3. m # 0
    BY <2>2
  <2>4. bounded(m - 1)
    <3> HIDE DEF bounded
    <3> QED BY <2>1, <2>2, <2>3, <1>1
  <2>5. PICK b \in Nat : \A i \in 1 .. m - 1 : f[i] <= b
    BY <2>4
  <2>6. \A i \in 1 .. n : f[i] \in Nat
    BY <1>3
  <2> DEFINE c == IF f[m] > b THEN f[m] ELSE b
  <2> HIDE DEF bad, bounded
  <2>7. m \in 1 .. n
    BY <2>2, <2>3, <1>1
  <2>8. c \in Nat /\ f[m] <= c /\ b <= c
    BY <2>6, <2>7
  <2>9. ASSUME NEW i \in 1 .. m PROVE f[i] <= c
    <3>1. CASE i = m
      BY <3>1, <2>8
    <3>2. CASE i # m
      <4>1. f[i] <= b /\ f[i] \in Nat
        BY <3>2, <2>5, <2>6, <2>7, <1>1
      <4> HIDE DEF c
      <4> QED BY <4>1, <2>8
    <3> QED BY <3>1, <3>2
  <2>10. bounded(m)
    <3> HIDE DEF c
    <3> QED BY <2>8, <2>9 DEF bounded
  <2> QED BY <2>2, <2>10
<1>5. bounded(n)
  <2> HIDE DEF bounded
  <2> QED BY <1>1, <1>4
<1>6. PICK b \in Nat : \A i \in 1 .. n : f[i] <= b
  BY <1>5
<1> QED BY <1>3, <1>6

\* A finite set of numbers has a greatest element.
LEMMA GreatestElement ==
  ASSUME NEW S \in SUBSET Nat, IsFiniteSet(S), S # {}
  PROVE  Max(S) \in S /\ \A y \in S : Max(S) >= y
<1> DEFINE bounds == {b \in Nat : \A y \in S : y <= b}
<1>1. PICK b \in bounds : \A c \in bounds : b <= c
  BY FiniteIsBounded, LeastElement
<1>2. b \in S
  <2> SUFFICES ASSUME b \notin S PROVE FALSE
    OBVIOUS
  <2>1. b - 1 \in bounds
    <3>1. PICK y \in S : TRUE
      OBVIOUS
    <3> QED BY <3>1
  <2> QED BY <1>1, <2>1
<1>3. \E x \in S : \A y \in S : x >= y
  BY <1>2
<1> QED BY <1>3 DEF Max

\* The sizes of a frame.
LEMMA Sizes ==
  ASSUME CallStackAssumption
  PROVE  /\ NumLocals = 3 /\ CallParams = 3 /\ PRE_VARS = 2
         /\ StackSize \in Nat /\ StackSize >= 6
         /\ \A r \in Rets : r \in Nat
<1> DEFINE S == Rets \cup {CallParams}
<1>1. NumLocals = 3 /\ CallParams = 3 /\ PRE_VARS = 2
  BY DEF NumLocals, CallParams, PRE_VARS
<1>2. S \in SUBSET Nat /\ S # {} /\ CallParams \in S
  BY <1>1 DEF CallStackAssumption
<1>3. IsFiniteSet(S)
  BY FS_AddElement DEF CallStackAssumption
<1>4. Max(S) \in S /\ Max(S) >= CallParams
  <2> HIDE DEF S
  <2> QED BY <1>2, <1>3, GreatestElement
<1>5. StackSize = NumLocals + Max(S)
  BY DEF StackSize
<1> HIDE DEF S
<1>6. Max(S) \in Nat /\ Max(S) >= 3
  BY <1>1, <1>2, <1>4
<1>7. StackSize \in Nat /\ StackSize >= 6
  BY <1>1, <1>5, <1>6
<1>8. \A r \in Rets : r \in Nat
  BY DEF CallStackAssumption
<1> QED BY <1>1, <1>7, <1>8

\* A call needs the slots of a frame, and reserveStackValues makes room for what it is asked.
LEMMA Room ==
  ASSUME CallStackAssumption, TypeOK
  PROVE  /\ \A start \in Nat, need \in Rets :
               needed(start, need) \in Nat /\ needed(start, need) >= start + StackSize
         /\ \A n \in Nat : /\ NewCapacity(n) \in Nat /\ NewCapacity(n) >= n
                           /\ NewCapacity(n) >= stack.capacity
<1>1. ASSUME NEW start \in Nat, NEW need \in Rets
      PROVE  needed(start, need) \in Nat /\ needed(start, need) >= start + StackSize
  <2> DEFINE S == {StackSize, need}
  <2>1. S \in SUBSET Nat /\ S # {} /\ StackSize \in S /\ StackSize \in Nat
    BY Sizes
  <2>2. IsFiniteSet(S)
    <3>1. IsFiniteSet({StackSize}) /\ S = {StackSize} \cup {need}
      BY FS_Singleton
    <3> QED BY <3>1, FS_AddElement
  <2>3. needed(start, need) = start + Max(S)
    BY DEF needed
  <2> HIDE DEF S
  <2>4. Max(S) \in Nat /\ Max(S) >= StackSize
    BY <2>1, <2>2, GreatestElement
  <2> QED BY <2>1, <2>3, <2>4
<1>2. ASSUME NEW n \in Nat
      PROVE  NewCapacity(n) \in Nat /\ NewCapacity(n) >= n /\ NewCapacity(n) >= stack.capacity
  <2>1. stack.capacity \in Nat
    BY DEF TypeOK
  <2> QED BY <2>1 DEF NewCapacity
<1> QED BY <1>1, <1>2

-----------------------------------------------------------------------------
(* Objects, pointers to them and their counts.                             *)

\* A function or a Locals object that is alive has the fields of its type.
LEMMA Alive ==
  ASSUME CallStackAssumption, TypeOK
  PROVE  /\ LiveFuncs \subseteq Funcs /\ LiveLocals \subseteq Scopes
         /\ \A f \in Funcs : f \in LiveFuncs <=> func[f].decl # Nil
         /\ \A f \in LiveFuncs : /\ func[f] \in Function /\ func[f].decl \in Decls
                                 /\ func[f].locals \in Scopes \cup {Nil}
         /\ \A s \in Scopes : s \in LiveLocals <=> locals[s].decl # Nil
         /\ \A s \in LiveLocals : /\ locals[s] \in Scope /\ locals[s].decl \in Decls
                                  /\ locals[s].ref_count \in Nat \ {0}
                                  /\ locals[s].parents \in Seq(Scopes)
                                  /\ locals[s].values \in Values \cup {Nil}
<1>1. NoFunc.decl = Nil /\ NoLocals.decl = Nil
  BY DEF NoFunc, NoLocals
<1>2. ASSUME NEW f \in Funcs
      PROVE  /\ f \in LiveFuncs <=> func[f].decl # Nil
             /\ f \in LiveFuncs => /\ func[f] \in Function /\ func[f].decl \in Decls
                                   /\ func[f].locals \in Scopes \cup {Nil}
  <2>1. func[f] \in Function \/ func[f] = NoFunc
    BY DEF TypeOK
  <2>2. func[f] \in Function => func[f].decl \in Decls /\ func[f].locals \in Scopes \cup {Nil}
    BY DEF Function
  <2> QED BY <2>1, <2>2, <1>1 DEF LiveFuncs, CallStackAssumption
<1>3. ASSUME NEW s \in Scopes
      PROVE  /\ s \in LiveLocals <=> locals[s].decl # Nil
             /\ s \in LiveLocals => /\ locals[s] \in Scope /\ locals[s].decl \in Decls
                                    /\ locals[s].ref_count \in Nat \ {0}
                                    /\ locals[s].parents \in Seq(Scopes)
                                    /\ locals[s].values \in Values \cup {Nil}
  <2>1. locals[s] \in Scope \/ locals[s] = NoLocals
    BY DEF TypeOK
  <2>2. locals[s] \in Scope => /\ locals[s].decl \in Decls /\ locals[s].ref_count \in Nat \ {0}
                               /\ locals[s].parents \in Seq(Scopes)
                               /\ locals[s].values \in Values \cup {Nil}
    BY DEF Scope
  <2> QED BY <2>1, <2>2, <1>1 DEF LiveLocals, CallStackAssumption
<1>4. LiveFuncs \subseteq Funcs /\ LiveLocals \subseteq Scopes
  BY DEF LiveFuncs, LiveLocals
<1> QED BY <1>2, <1>3, <1>4

\* The scopes around one, counted outward.
LEMMA Around ==
  ASSUME CallStackAssumption, TypeOK, ParentsAlive, NEW s \in LiveLocals
  PROVE  LET n == Len(locals[s].parents) IN
         /\ n \in Nat /\ DOMAIN locals[s].parents = 1 .. n
         /\ n = 0 => Parent(s) = Nil
         /\ n # 0 => Parent(s) = locals[s].parents[1]
         /\ Parent(s) # Nil => /\ Parent(s) \in LiveLocals
                               /\ n = Len(locals[Parent(s)].parents) + 1
         /\ \A i \in 1 .. n : /\ locals[s].parents[i] \in LiveLocals
                              /\ Len(locals[locals[s].parents[i]].parents) = n - i
                              /\ Parent(locals[s].parents[i]) =
                                    IF i = n THEN Nil ELSE locals[s].parents[i + 1]
<1> DEFINE p == locals[s].parents
           n == Len(p)
<1>1. p \in Seq(Scopes)
  BY Alive
<1>2. \A i \in DOMAIN p : p[i] \in LiveLocals /\ locals[p[i]].parents = SubSeq(p, i + 1, Len(p))
  BY DEF ParentsAlive
<1>3. Parent(s) = IF p = << >> THEN Nil ELSE Head(p)
  BY DEF Parent
<1>4. \A x : Parent(x) = IF locals[x].parents = << >> THEN Nil ELSE Head(locals[x].parents)
  BY DEF Parent
<1> HIDE DEF p
<1>5. n \in Nat /\ DOMAIN p = 1 .. n /\ (n = 0 <=> p = << >>)
  BY <1>1
<1>6. p # << >> => Head(p) = p[1]
  BY <1>1
<1>7. ASSUME NEW i \in 1 .. n
      PROVE  /\ p[i] \in LiveLocals /\ Len(locals[p[i]].parents) = n - i
             /\ Parent(p[i]) = IF i = n THEN Nil ELSE p[i + 1]
  <2>1. p[i] \in LiveLocals /\ locals[p[i]].parents = SubSeq(p, i + 1, n)
    BY <1>2, <1>5
  <2>2. \A j \in i + 1 .. n : p[j] \in Scopes
    BY <1>1, <1>5
  <2> DEFINE q == locals[p[i]].parents
  <2>3. /\ q \in Seq(Scopes)
        /\ Len(q) = IF i + 1 <= n THEN n - (i + 1) + 1 ELSE 0
    BY <2>1, <2>2, <1>5, SubSeqProperties
  <2>4. i < n => Head(q) = p[i + 1]
    BY <2>1, <1>1, <1>5, HeadTailOfSubSeq
  <2>5. Parent(p[i]) = IF q = << >> THEN Nil ELSE Head(q)
    BY <1>4
  <2> HIDE DEF q
  <2>6. Len(q) = n - i /\ (i = n => Len(q) = 0) /\ (i # n => Len(q) # 0 /\ i < n)
    <3>1. n \in Nat /\ i \in 1 .. n /\ Len(q) = IF i + 1 <= n THEN n - (i + 1) + 1 ELSE 0
      BY <2>3, <1>5
    <3> HIDE DEF n
    <3> QED BY <3>1
  <2>7. Len(q) = 0 <=> q = << >>
    BY <2>3
  <2>8. Parent(p[i]) = IF i = n THEN Nil ELSE p[i + 1]
    BY <2>4, <2>5, <2>6, <2>7
  <2> QED BY <2>1, <2>6, <2>8 DEF q
<1>8. /\ n = 0 => Parent(s) = Nil
      /\ n # 0 => Parent(s) = p[1]
  <2> HIDE DEF n
  <2> QED BY <1>3, <1>5, <1>6
<1>9. Parent(s) # Nil => Parent(s) \in LiveLocals /\ n = Len(locals[Parent(s)].parents) + 1
  <2>1. /\ n # 0 => 1 \in 1 .. n
        /\ \A m : m = n - 1 => n = m + 1
    BY <1>5
  <2> HIDE DEF n
  <2> QED BY <1>8, <2>1, <1>7
<1> QED BY <1>5, <1>7, <1>8, <1>9 DEF p

\* The references to a scope are finitely many.
LEMMA Refs ==
  ASSUME CallStackAssumption, TypeOK, NEW s
  PROVE  /\ IsFiniteSet(FrameRefs(s)) /\ Cardinality(FrameRefs(s)) \in Nat
         /\ IsFiniteSet(FuncRefs(s)) /\ Cardinality(FuncRefs(s)) \in Nat
         /\ IsFiniteSet(ScopeRefs(s)) /\ Cardinality(ScopeRefs(s)) \in Nat
<1>1. Frames = 1 .. Len(call_stack_funcs) /\ Len(call_stack_funcs) \in Nat
  BY DEF TypeOK, Frames
<1>2. IsFiniteSet(Frames)
  BY <1>1, FS_Interval
<1>3. IsFiniteSet(Funcs) /\ IsFiniteSet(Scopes)
  BY DEF CallStackAssumption
<1>4. FrameRefs(s) \in SUBSET Frames /\ FuncRefs(s) \in SUBSET Funcs /\ ScopeRefs(s) \in SUBSET Scopes
  BY DEF FrameRefs, FuncRefs, ScopeRefs, LiveFuncs, LiveLocals
<1>5. IsFiniteSet(FrameRefs(s)) /\ IsFiniteSet(FuncRefs(s)) /\ IsFiniteSet(ScopeRefs(s))
  BY <1>2, <1>3, <1>4, FS_Subset
<1> QED BY <1>5, FS_CardinalityType

-----------------------------------------------------------------------------
(* deleteLocals.                                                           *)

\* What is deleted with s is s itself and scopes around it, each with a single
\* reference; deleteLocals stops at a scope that has another one.
LEMMA Deleted ==
  ASSUME CallStackAssumption, TypeOK, ParentsAlive, NEW s \in LiveLocals
  PROVE  /\ deleted(s) \subseteq LiveLocals /\ IsFiniteSet(deleted(s))
         /\ \A x \in deleted(s) : locals[x].ref_count = 1
         /\ losesLast(s, deleted(s))
         /\ \A x \in deleted(s) : x = s \/ \E y \in deleted(s) : Parent(y) = x
         /\ deleted(s) # {} => s \in deleted(s)
         /\ \A x, y \in deleted(s) :
               Len(locals[x].parents) = Len(locals[y].parents) => x = y
<1> DEFINE D == deleted(s)
           p == locals[s].parents
<1>0. s \in Scopes /\ LiveLocals \subseteq Scopes
  BY Alive
<1>1. D \subseteq Scopes /\ \A E \in SUBSET Scopes : losesLast(s, E) => D \subseteq E
  BY DEF deleted
<1>2. \A x \in Scopes : (\A E \in SUBSET Scopes : losesLast(s, E) => x \in E) => x \in D
  BY DEF deleted
<1>3. \A E : losesLast(s, E) <=>
               /\ locals[s].ref_count = 1 => s \in E
               /\ \A x \in E : Parent(x) # Nil /\ locals[Parent(x)].ref_count = 1 => Parent(x) \in E
  BY DEF losesLast
<1> HIDE DEF D
<1>4. /\ Len(p) \in Nat
      /\ \A i \in 1 .. Len(p) : /\ p[i] \in LiveLocals
                                /\ Len(locals[p[i]].parents) = Len(p) - i
                                /\ Parent(p[i]) = IF i = Len(p) THEN Nil ELSE p[i + 1]
      /\ Parent(s) = Nil \/ (Len(p) # 0 /\ Parent(s) = p[1])
  BY Around
<1> HIDE DEF p
<1> DEFINE C == {s} \cup {p[i] : i \in 1 .. Len(p)}
<1>5. D \subseteq C
  <2>1. C \in SUBSET Scopes
    BY <1>0, <1>4
  <2>2. ASSUME NEW x \in C, Parent(x) # Nil PROVE Parent(x) \in C
    <3>1. CASE x = s
      <4>1. Len(p) # 0 /\ Parent(s) = p[1] /\ 1 \in 1 .. Len(p)
        BY <3>1, <2>2, <1>4
      <4> QED BY <4>1, <3>1
    <3>2. ASSUME NEW i \in 1 .. Len(p), x = p[i] PROVE Parent(x) \in C
      <4>1. i # Len(p) /\ Parent(x) = p[i + 1]
        BY <3>2, <2>2, <1>4
      <4>2. i + 1 \in 1 .. Len(p)
        BY <4>1, <1>4
      <4> QED BY <4>1, <4>2
    <3> QED BY <3>1, <3>2
  <2>3. losesLast(s, C)
    BY <2>2, <1>3
  <2> QED BY <2>1, <2>3, <1>1
<1>6. D \subseteq LiveLocals
  BY <1>5, <1>4
<1>7. IsFiniteSet(D)
  BY <1>1, FS_Subset DEF CallStackAssumption
<1>8. ASSUME NEW x \in D PROVE locals[x].ref_count = 1
  <2> DEFINE E == {y \in Scopes : locals[y].ref_count = 1}
  <2>1. ASSUME NEW y \in E, Parent(y) # Nil, locals[Parent(y)].ref_count = 1
        PROVE  Parent(y) \in E
    <3>1. y \in LiveLocals
      BY <2>1 DEF LiveLocals, NoLocals
    <3> QED BY <3>1, <2>1, <1>0, Around
  <2>2. losesLast(s, E)
    BY <2>1, <1>0, <1>3
  <2> QED BY <2>2, <1>1
<1>9. losesLast(s, D)
  <2>1. ASSUME locals[s].ref_count = 1 PROVE s \in D
    BY <2>1, <1>0, <1>2, <1>3
  <2>2. ASSUME NEW x \in D, Parent(x) # Nil, locals[Parent(x)].ref_count = 1
        PROVE  Parent(x) \in D
    <3>1. Parent(x) \in Scopes
      BY <2>2, <1>0, <1>6, Around
    <3>2. ASSUME NEW E \in SUBSET Scopes, losesLast(s, E) PROVE Parent(x) \in E
      BY <3>2, <2>2, <1>1, <1>3
    <3> QED BY <3>1, <3>2, <1>2
  <2> QED BY <2>1, <2>2, <1>3
<1>10. ASSUME NEW x \in D, x # s, \A y \in D : Parent(y) # x PROVE FALSE
  <2>1. D \ {x} \in SUBSET Scopes
    BY <1>1
  <2>2. losesLast(s, D \ {x})
    BY <1>3, <1>9, <1>10
  <2> QED BY <2>1, <2>2, <1>1
<1>11. D # {} => s \in D
  <2>1. ASSUME locals[s].ref_count # 1 PROVE D = {}
    <3>1. losesLast(s, {}) /\ {} \in SUBSET Scopes
      BY <2>1, <1>3
    <3> QED BY <3>1, <1>1
  <2> QED BY <2>1, <1>3, <1>9
<1>12. ASSUME NEW x \in D, NEW y \in D, Len(locals[x].parents) = Len(locals[y].parents)
       PROVE  x = y
  <2>1. \A z \in C : z = s \/ \E i \in 1 .. Len(p) : z = p[i] /\ Len(locals[z].parents) = Len(p) - i
    BY <1>4
  <2>2. Len(locals[s].parents) = Len(p)
    BY DEF p
  <2>3. x \in C /\ y \in C
    BY <1>5
  <2> HIDE DEF C
  <2>4. CASE x = s
    <3> SUFFICES ASSUME y # s PROVE FALSE
      BY <2>4
    <3>1. PICK i \in 1 .. Len(p) : Len(locals[y].parents) = Len(p) - i
      BY <2>1, <2>3
    <3> QED BY <3>1, <2>2, <2>4, <1>4, <1>12
  <2>5. CASE y = s
    <3> SUFFICES ASSUME x # s PROVE FALSE
      BY <2>5
    <3>1. PICK i \in 1 .. Len(p) : Len(locals[x].parents) = Len(p) - i
      BY <2>1, <2>3
    <3> QED BY <3>1, <2>2, <2>5, <1>4, <1>12
  <2>6. CASE x # s /\ y # s
    <3>1. PICK i \in 1 .. Len(p) : x = p[i] /\ Len(locals[x].parents) = Len(p) - i
      BY <2>1, <2>3, <2>6
    <3>2. PICK j \in 1 .. Len(p) : y = p[j] /\ Len(locals[y].parents) = Len(p) - j
      BY <2>1, <2>3, <2>6
    <3>3. Len(p) - i = Len(p) - j
      BY <3>1, <3>2, <1>12
    <3>4. i = j
      BY <3>3, <1>4
    <3> QED BY <3>1, <3>2, <3>4
  <2> QED BY <2>4, <2>5, <2>6
<1> QED BY <1>6, <1>7, <1>8, <1>9, <1>10, <1>11, <1>12 DEF D

\* What releaseLocals changes, and the reference to s that was given up.
ReleaseStep(s) ==
  /\ \A x \in Scopes :
        IF x \in LiveLocals \ deleted(s)
        THEN /\ locals'[x].decl = locals[x].decl
             /\ locals'[x].parents = locals[x].parents
             /\ locals'[x].ref_count = locals[x].ref_count - IF x \in released(s) THEN 1 ELSE 0
        ELSE locals'[x] = NoLocals
  /\ \A x \in Scopes \ {s} : FrameRefs(x)' = FrameRefs(x) /\ FuncRefs(x)' = FuncRefs(x)
  /\ \/ \E k \in FrameRefs(s) : FrameRefs(s)' = FrameRefs(s) \ {k} /\ FuncRefs(s)' = FuncRefs(s)
     \/ \E f \in FuncRefs(s) : FuncRefs(s)' = FuncRefs(s) \ {f} /\ FrameRefs(s)' = FrameRefs(s)

\* With the counts, a scope that is deleted has no reference from outside.
LEMMA Unreferenced ==
  ASSUME CallStackAssumption, TypeOK, CountsExact, ParentsAlive,
         NEW s \in LiveLocals, ReleaseStep(s)
  PROVE  /\ Cardinality(FrameRefs(s)') \in Nat /\ Cardinality(FuncRefs(s)') \in Nat
         /\ Cardinality(FrameRefs(s)') + Cardinality(FuncRefs(s)') + 1 =
               Cardinality(FrameRefs(s)) + Cardinality(FuncRefs(s))
         /\ \A z \in deleted(s) : FrameRefs(z)' = {} /\ FuncRefs(z)' = {}
         /\ \A x \in LiveLocals \ deleted(s) : Parent(x) \notin deleted(s)
<1> DEFINE D == deleted(s)
<1>1. /\ D \subseteq LiveLocals /\ \A x \in D : locals[x].ref_count = 1
      /\ \A x \in D : x = s \/ \E y \in D : Parent(y) = x
      /\ LiveLocals \subseteq Scopes /\ s \in Scopes
  BY Deleted, Alive
<1>2. ASSUME NEW z \in LiveLocals
      PROVE  /\ IsFiniteSet(FrameRefs(z)) /\ Cardinality(FrameRefs(z)) \in Nat
             /\ IsFiniteSet(FuncRefs(z)) /\ Cardinality(FuncRefs(z)) \in Nat
             /\ IsFiniteSet(ScopeRefs(z)) /\ Cardinality(ScopeRefs(z)) \in Nat
             /\ locals[z].ref_count = Cardinality(FrameRefs(z)) + Cardinality(FuncRefs(z))
                                        + Cardinality(ScopeRefs(z))
  BY Refs DEF CountsExact
<1>3. /\ Cardinality(FrameRefs(s)') \in Nat /\ Cardinality(FuncRefs(s)') \in Nat
      /\ IsFiniteSet(FrameRefs(s)') /\ IsFiniteSet(FuncRefs(s)')
      /\ Cardinality(FrameRefs(s)') + Cardinality(FuncRefs(s)') + 1 =
            Cardinality(FrameRefs(s)) + Cardinality(FuncRefs(s))
  <2>1. ASSUME NEW k \in FrameRefs(s), FrameRefs(s)' = FrameRefs(s) \ {k},
               FuncRefs(s)' = FuncRefs(s)
        PROVE  <1>3!:
    <3>1. IsFiniteSet(FrameRefs(s)') /\ Cardinality(FrameRefs(s)') = Cardinality(FrameRefs(s)) - 1
      BY <2>1, <1>2, FS_RemoveElement
    <3>2. Cardinality(FrameRefs(s)') \in Nat
      BY <3>1, FS_CardinalityType
    <3> QED BY <3>1, <3>2, <2>1, <1>2
  <2>2. ASSUME NEW f \in FuncRefs(s), FuncRefs(s)' = FuncRefs(s) \ {f},
               FrameRefs(s)' = FrameRefs(s)
        PROVE  <1>3!:
    <3>1. IsFiniteSet(FuncRefs(s)') /\ Cardinality(FuncRefs(s)') = Cardinality(FuncRefs(s)) - 1
      BY <2>2, <1>2, FS_RemoveElement
    <3>2. Cardinality(FuncRefs(s)') \in Nat
      BY <3>1, FS_CardinalityType
    <3> QED BY <3>1, <3>2, <2>2, <1>2
  <2> QED BY <2>1, <2>2 DEF ReleaseStep
<1>4. ASSUME s \in D
      PROVE  FrameRefs(s)' = {} /\ FuncRefs(s)' = {} /\ ScopeRefs(s) = {}
  <2>1. locals[s].ref_count = 1
    BY <1>1, <1>4
  <2>2. Cardinality(FrameRefs(s)') = 0 /\ Cardinality(FuncRefs(s)') = 0 /\ Cardinality(ScopeRefs(s)) = 0
    <3> HIDE DEF D
    <3> QED BY <2>1, <1>2, <1>3
  <2> QED BY <2>2, <1>2, <1>3, FS_EmptySet
<1>5. ASSUME NEW z \in D, z # s
      PROVE  FrameRefs(z)' = {} /\ FuncRefs(z)' = {} /\ ScopeRefs(z) \subseteq D
  <2>1. PICK y \in D : Parent(y) = z
    BY <1>1, <1>5
  <2>2. y \in ScopeRefs(z)
    BY <2>1, <1>1 DEF ScopeRefs
  <2>3. Cardinality(ScopeRefs(z)) # 0
    BY <2>2, <1>1, <1>2, FS_EmptySet
  <2>4. locals[z].ref_count = 1
    BY <1>1
  <2>5. Cardinality(FrameRefs(z)) = 0 /\ Cardinality(FuncRefs(z)) = 0 /\ Cardinality(ScopeRefs(z)) = 1
    <3>1. z \in LiveLocals
      BY <1>1
    <3> HIDE DEF D
    <3> QED BY <3>1, <2>3, <2>4, <1>2
  <2>6. FrameRefs(z) = {} /\ FuncRefs(z) = {} /\ ScopeRefs(z) = {y}
    <3>1. PICK e : ScopeRefs(z) = {e}
      BY <2>5, <1>1, <1>2, FS_Singleton
    <3> QED BY <3>1, <2>2, <2>5, <1>1, <1>2, FS_EmptySet
  <2>7. FrameRefs(z)' = FrameRefs(z) /\ FuncRefs(z)' = FuncRefs(z)
    BY <1>1, <1>5 DEF ReleaseStep
  <2> QED BY <2>6, <2>7
<1>6. ASSUME NEW x \in LiveLocals, x \notin D PROVE Parent(x) \notin D
  <2> SUFFICES ASSUME Parent(x) \in D PROVE FALSE
    OBVIOUS
  <2>1. x \in ScopeRefs(Parent(x))
    BY DEF ScopeRefs
  <2> QED BY <2>1, <1>4, <1>5, <1>6
<1> QED BY <1>3, <1>4, <1>5, <1>6

\* releaseLocals keeps the counts exact and the pointers to outer scopes valid.
LEMMA Release ==
  ASSUME CallStackAssumption, TypeOK, CountsExact, ParentsAlive,
         NEW s \in LiveLocals, ReleaseStep(s)
  PROVE  /\ LiveLocals' = LiveLocals \ deleted(s)
         /\ Cardinality(LiveLocals') = Cardinality(LiveLocals) - Cardinality(deleted(s))
         /\ \A x \in LiveLocals' :
               /\ locals'[x].ref_count \in Nat \ {0}
               /\ locals'[x].ref_count = Cardinality(FrameRefs(x)') + Cardinality(FuncRefs(x)')
                                           + Cardinality(ScopeRefs(x)')
               /\ locals'[x].decl = locals[x].decl
               /\ locals'[x].parents = locals[x].parents
               /\ \A i \in DOMAIN locals[x].parents : locals[x].parents[i] \in LiveLocals'
               /\ Parent(x)' = Parent(x)
<1> DEFINE D == deleted(s)
<1>1. /\ D \subseteq LiveLocals /\ IsFiniteSet(D) /\ losesLast(s, D)
      /\ LiveLocals \subseteq Scopes /\ s \in Scopes /\ (D # {} => s \in D)
      /\ \A x, y \in D : Len(locals[x].parents) = Len(locals[y].parents) => x = y
      /\ \A x \in LiveLocals : locals[x].ref_count \in Nat \ {0} /\ locals[x].decl \in Decls
  BY Deleted, Alive
<1>2. \A x \in Scopes :
        IF x \in LiveLocals \ D
        THEN /\ locals'[x].decl = locals[x].decl
             /\ locals'[x].parents = locals[x].parents
             /\ locals'[x].ref_count = locals[x].ref_count - IF x \in released(s) THEN 1 ELSE 0
        ELSE locals'[x] = NoLocals
  BY DEF ReleaseStep
<1>3. /\ \A z \in D : FrameRefs(z)' = {} /\ FuncRefs(z)' = {}
      /\ \A x \in LiveLocals \ D : Parent(x) \notin D
  BY Unreferenced
<1>4. released(s) = IF D = {} THEN {s} ELSE {Parent(x) : x \in D} \ (D \cup {Nil})
  BY DEF released
<1> HIDE DEF D
<1>5. LiveLocals' = LiveLocals \ D
  <2>1. NoLocals.decl = Nil
    BY DEF NoLocals
  <2>2. \A x \in LiveLocals \ D : locals'[x] # NoLocals
    BY <1>1, <1>2, <2>1 DEF CallStackAssumption
  <2> QED BY <1>1, <1>2, <2>2 DEF LiveLocals
<1>6. Cardinality(LiveLocals') = Cardinality(LiveLocals) - Cardinality(D)
  <2>1. IsFiniteSet(LiveLocals)
    BY <1>1, FS_Subset DEF CallStackAssumption
  <2>2. LiveLocals \cap D = D
    BY <1>1
  <2> QED BY <2>1, <2>2, <1>5, FS_Difference
<1>7. ASSUME NEW x \in LiveLocals'
      PROVE  /\ x \in LiveLocals /\ x \notin D /\ x \in Scopes
             /\ locals'[x].decl = locals[x].decl
             /\ locals'[x].parents = locals[x].parents
             /\ Parent(x)' = Parent(x)
  <2>1. /\ x \in LiveLocals /\ x \notin D /\ x \in Scopes
        /\ locals'[x].decl = locals[x].decl
        /\ locals'[x].parents = locals[x].parents
    BY <1>1, <1>2, <1>5
  <2> QED BY <2>1 DEF Parent
<1>8. ASSUME NEW x \in LiveLocals' PROVE \A i \in DOMAIN locals[x].parents : locals[x].parents[i] \in LiveLocals'
  <2> DEFINE p == locals[x].parents
             bad == {i \in 1 .. Len(p) : p[i] \in D}
  <2>1. x \in LiveLocals /\ x \notin D
    BY <1>7
  <2>2. /\ Len(p) \in Nat /\ DOMAIN p = 1 .. Len(p)
        /\ Len(p) # 0 => Parent(x) = p[1]
        /\ \A i \in 1 .. Len(p) : /\ p[i] \in LiveLocals
                                  /\ Parent(p[i]) = IF i = Len(p) THEN Nil ELSE p[i + 1]
    BY <2>1, Around
  <2> HIDE DEF p
  <2>3. bad = {}
    <3> SUFFICES ASSUME bad # {} PROVE FALSE
      OBVIOUS
    <3>1. bad \in SUBSET Nat
      OBVIOUS
    <3>2. PICK i \in bad : \A j \in bad : i <= j
      BY <3>1, LeastElement
    <3>3. i \in 1 .. Len(p) /\ p[i] \in D
      BY <3>2
    <3>4. CASE i = 1
      <4>1. Len(p) # 0
        BY <3>3, <3>4, <2>2
      <4> QED BY <4>1, <3>3, <3>4, <2>1, <2>2, <1>3
    <3>5. CASE i # 1
      <4> DEFINE m == Len(p)
                 h == i - 1
      <4>1. m \in Nat /\ i \in 1 .. m
        BY <3>3, <2>2
      <4>2. h \in 1 .. m /\ h # m /\ h + 1 = i /\ ~(i <= h)
        <5> HIDE DEF m
        <5> QED BY <3>5, <4>1
      <4> HIDE DEF h
      <4>3. h \notin bad
        <5> HIDE DEF bad
        <5> QED BY <3>2, <4>2
      <4>4. p[h] \notin D
        BY <4>2, <4>3
      <4>5. Parent(p[h]) = p[i] /\ p[h] \in LiveLocals
        BY <4>2, <2>2
      <4> QED BY <4>4, <4>5, <3>3, <1>3
    <3> QED BY <3>4, <3>5
  <2> QED BY <2>2, <2>3, <1>5 DEF p
<1>9. ASSUME NEW z \in LiveLocals'
      PROVE  /\ locals'[z].ref_count \in Nat \ {0}
             /\ locals'[z].ref_count = Cardinality(FrameRefs(z)') + Cardinality(FuncRefs(z)')
                                         + Cardinality(ScopeRefs(z)')
  <2>1. ScopeRefs(z)' = ScopeRefs(z) \ D
    BY <1>5, <1>7 DEF ScopeRefs
  <2>2. z \in LiveLocals /\ z \notin D /\ z \in Scopes
    BY <1>7
  <2>3. /\ locals[z].ref_count \in Nat \ {0}
        /\ locals[z].ref_count = Cardinality(FrameRefs(z)) + Cardinality(FuncRefs(z))
                                    + Cardinality(ScopeRefs(z))
    BY <1>1, <2>2 DEF CountsExact
  <2>4. /\ Cardinality(FrameRefs(z)) \in Nat /\ Cardinality(FuncRefs(z)) \in Nat
        /\ Cardinality(ScopeRefs(z)) \in Nat /\ IsFiniteSet(ScopeRefs(z))
    BY Refs
  <2>5. z # s => FrameRefs(z)' = FrameRefs(z) /\ FuncRefs(z)' = FuncRefs(z)
    BY <2>2 DEF ReleaseStep
  <2>6. locals'[z].ref_count = locals[z].ref_count - IF z \in released(s) THEN 1 ELSE 0
    BY <1>2, <2>2
  <2>7. CASE z = s
    <3>1. D = {} /\ z \in released(s)
      BY <2>2, <2>7, <1>1, <1>4
    <3>2. ScopeRefs(z)' = ScopeRefs(z)
      BY <3>1, <2>1
    <3>3. locals[z].ref_count # 1
      BY <3>1, <2>7, <1>1 DEF losesLast
    <3>4. /\ Cardinality(FrameRefs(z)') \in Nat /\ Cardinality(FuncRefs(z)') \in Nat
          /\ Cardinality(FrameRefs(z)') + Cardinality(FuncRefs(z)') + 1 =
                Cardinality(FrameRefs(z)) + Cardinality(FuncRefs(z))
      BY <2>7, Unreferenced
    <3>5. locals'[z].ref_count = locals[z].ref_count - 1
      BY <2>6, <3>1
    <3> QED BY <3>2, <3>3, <3>4, <3>5, <2>3, <2>4
  <2>8. ASSUME z # s, NEW y \in D, Parent(y) = z
        PROVE  <1>9!2
    <3>1. z \in released(s)
      BY <2>2, <2>8, <1>4 DEF CallStackAssumption
    <3>2. locals[z].ref_count # 1
      BY <2>2, <2>8, <1>1 DEF losesLast, CallStackAssumption
    <3>3. ASSUME NEW x \in D, Parent(x) = z PROVE x = y
      <4>1. Len(locals[x].parents) = Len(locals[z].parents) + 1
        BY <3>3, <2>2, <1>1, Around DEF CallStackAssumption
      <4>2. Len(locals[y].parents) = Len(locals[z].parents) + 1
        BY <2>8, <2>2, <1>1, Around DEF CallStackAssumption
      <4> QED BY <4>1, <4>2, <1>1
    <3>4. ScopeRefs(z)' = ScopeRefs(z) \ {y} /\ y \in ScopeRefs(z)
      BY <2>1, <2>8, <3>3, <1>1 DEF ScopeRefs
    <3>5. Cardinality(ScopeRefs(z)') = Cardinality(ScopeRefs(z)) - 1
      BY <3>4, <2>4, FS_RemoveElement
    <3>6. locals'[z].ref_count = locals[z].ref_count - 1
      BY <2>6, <3>1
    <3> QED BY <3>2, <3>5, <3>6, <2>3, <2>4, <2>5, <2>8
  <2>9. CASE z # s /\ \A y \in D : Parent(y) # z
    <3>1. z \notin released(s)
      BY <2>9, <1>4
    <3>2. ScopeRefs(z)' = ScopeRefs(z)
      BY <2>1, <2>9 DEF ScopeRefs
    <3> QED BY <3>1, <3>2, <2>3, <2>5, <2>6, <2>9
  <2> QED BY <2>7, <2>8, <2>9
<1> QED BY <1>5, <1>6, <1>7, <1>8, <1>9 DEF D

-----------------------------------------------------------------------------
(* Steps that create, delete, enter and leave nothing.                     *)

\* At most the variables of the scopes change.
SameScopes ==
  \A x \in Scopes : /\ locals'[x] # NoLocals <=> locals[x] # NoLocals
                    /\ locals[x] # NoLocals => /\ locals'[x].decl = locals[x].decl
                                               /\ locals'[x].ref_count = locals[x].ref_count
                                               /\ locals'[x].parents = locals[x].parents

\* At most sub_funcs and in_try of a frame change.
SameFrames ==
  /\ call_stack_funcs' \in Seq(Frame) /\ Len(call_stack_funcs') = Len(call_stack_funcs)
  /\ \A k \in Frames : /\ call_stack_funcs'[k].func = call_stack_funcs[k].func
                       /\ call_stack_funcs'[k].locals = call_stack_funcs[k].locals
                       /\ call_stack_funcs'[k].pos = call_stack_funcs[k].pos
                       /\ call_stack_funcs'[k].caller_size = call_stack_funcs[k].caller_size

\* The frames of the call stack, by number.
LEMMA Calls ==
  ASSUME TypeOK
  PROVE  /\ Len(call_stack_funcs) \in Nat /\ Frames = 1 .. Len(call_stack_funcs)
         /\ \A k \in Frames :
               /\ call_stack_funcs[k] \in Frame
               /\ call_stack_funcs[k].func \in Funcs /\ call_stack_funcs[k].locals \in Scopes
               /\ call_stack_funcs[k].pos \in Nat /\ call_stack_funcs[k].caller_size \in Nat
               /\ call_stack_funcs[k].need \in Rets /\ call_stack_funcs[k].sub_funcs \subseteq Funcs
               /\ call_stack_funcs[k].in_try \in BOOLEAN
         /\ Running <=> Len(call_stack_funcs) # 0
         /\ Running => Len(call_stack_funcs) \in Frames
         /\ Top = call_stack_funcs[Len(call_stack_funcs)]
<1>1. call_stack_funcs \in Seq(Frame)
  BY DEF TypeOK
<1>2. Len(call_stack_funcs) \in Nat /\ Frames = 1 .. Len(call_stack_funcs)
  BY <1>1 DEF Frames
<1>3. ASSUME NEW k \in Frames
      PROVE  /\ call_stack_funcs[k] \in Frame
             /\ call_stack_funcs[k].func \in Funcs /\ call_stack_funcs[k].locals \in Scopes
             /\ call_stack_funcs[k].pos \in Nat /\ call_stack_funcs[k].caller_size \in Nat
             /\ call_stack_funcs[k].need \in Rets /\ call_stack_funcs[k].sub_funcs \subseteq Funcs
             /\ call_stack_funcs[k].in_try \in BOOLEAN
  <2>1. call_stack_funcs[k] \in Frame
    BY <1>1, <1>2
  <2> QED BY <2>1 DEF Frame
<1>4. Running <=> Len(call_stack_funcs) # 0
  BY <1>1 DEF Running
<1>5. Running => Len(call_stack_funcs) \in Frames
  BY <1>2, <1>4
<1>6. Top = call_stack_funcs[Len(call_stack_funcs)]
  BY DEF Top, Last
<1> QED BY <1>2, <1>3, <1>4, <1>5, <1>6

\* What ParentsAlive says of one scope and of one function.
Linked(s) ==
  /\ \A i \in DOMAIN locals[s].parents :
        /\ locals[s].parents[i] \in LiveLocals
        /\ locals[locals[s].parents[i]].parents
              = SubSeq(locals[s].parents, i + 1, Len(locals[s].parents))
  /\ Outer[locals[s].decl] = IF Parent(s) = Nil THEN Nil ELSE locals[Parent(s)].decl

FuncLinked(f) ==
  /\ func[f].locals \in LiveLocals \cup {Nil}
  /\ Outer[func[f].decl] = IF func[f].locals = Nil THEN Nil ELSE locals[func[f].locals].decl

\* A scope that stays where it is.
KeptScope(x) ==
  /\ x \in LiveLocals /\ x \in LiveLocals'
  /\ locals'[x].decl = locals[x].decl
  /\ locals'[x].parents = locals[x].parents

\* The links of a scope stay when the scopes around it do.
LEMMA LinksKept ==
  ASSUME CallStackAssumption, TypeOK, ParentsAlive, NEW s, KeptScope(s),
         \A i \in DOMAIN locals[s].parents : KeptScope(locals[s].parents[i])
  PROVE  Linked(s)' /\ Parent(s)' = Parent(s)
<1> DEFINE p == locals[s].parents
<1>1. s \in LiveLocals /\ locals'[s].decl = locals[s].decl /\ locals'[s].parents = p
  BY DEF KeptScope
<1>2. Parent(s)' = Parent(s)
  BY <1>1 DEF Parent
<1>3. Linked(s)
  BY <1>1 DEF ParentsAlive, Linked
<1>4. Parent(s) = Nil \/ \E i \in DOMAIN p : Parent(s) = p[i]
  <2>1. /\ Len(p) \in Nat /\ DOMAIN p = 1 .. Len(p)
        /\ Len(p) = 0 => Parent(s) = Nil
        /\ Len(p) # 0 => Parent(s) = p[1]
    BY <1>1, Around
  <2>2. Len(p) # 0 => 1 \in 1 .. Len(p)
    BY <2>1
  <2> HIDE DEF p
  <2> QED BY <2>1, <2>2
<1>5. \A i \in DOMAIN p : /\ p[i] \in LiveLocals'
                          /\ locals'[p[i]].decl = locals[p[i]].decl
                          /\ locals'[p[i]].parents = locals[p[i]].parents
  BY DEF KeptScope
<1>6. \A i \in DOMAIN p : locals[p[i]].parents = SubSeq(p, i + 1, Len(p))
  BY <1>3 DEF Linked
<1>7. Outer[locals[s].decl] = IF Parent(s) = Nil THEN Nil ELSE locals[Parent(s)].decl
  BY <1>3 DEF Linked
<1> HIDE DEF p
<1>8. ASSUME NEW i \in DOMAIN locals'[s].parents
      PROVE  /\ locals'[s].parents[i] \in LiveLocals'
             /\ locals'[locals'[s].parents[i]].parents
                   = SubSeq(locals'[s].parents, i + 1, Len(locals'[s].parents))
  BY <1>1, <1>5, <1>6
<1>9. Outer[locals'[s].decl] = IF Parent(s)' = Nil THEN Nil ELSE locals'[Parent(s)'].decl
  BY <1>1, <1>2, <1>4, <1>5, <1>7
<1> QED BY <1>2, <1>8, <1>9 DEF Linked

\* The references and so their counts stay.
LEMMA ObjectsKept ==
  ASSUME CallStackAssumption, Inv, func' = func, prog_refs' = prog_refs, SameScopes, SameFrames,
         \A k \in Frames : call_stack_funcs'[k].sub_funcs \subseteq LiveFuncs
  PROVE  CountsExact' /\ ParentsAlive' /\ FramesAlive'
<1>1. LiveFuncs' = LiveFuncs /\ LiveLocals' = LiveLocals
  BY DEF LiveFuncs, LiveLocals, SameScopes
<1>2. Frames' = Frames
  BY DEF Frames, SameFrames, Inv, FramesCurrent, TypeOK
<1>3. \A x \in LiveLocals : /\ locals'[x].decl = locals[x].decl
                            /\ locals'[x].ref_count = locals[x].ref_count
                            /\ locals'[x].parents = locals[x].parents
                            /\ Parent(x)' = Parent(x)
  BY DEF LiveLocals, SameScopes, Parent
<1>4. \A k \in Frames : /\ call_stack_funcs'[k].func = call_stack_funcs[k].func
                        /\ call_stack_funcs'[k].locals = call_stack_funcs[k].locals
  BY DEF SameFrames
<1>5. CountsExact'
  <2>1. ASSUME NEW s \in LiveLocals
        PROVE FrameRefs(s)' = FrameRefs(s) /\ FuncRefs(s)' = FuncRefs(s) /\ ScopeRefs(s)' = ScopeRefs(s)
    BY <1>1, <1>2, <1>3, <1>4 DEF FrameRefs, FuncRefs, ScopeRefs
  <2> QED BY <2>1, <1>1, <1>3 DEF CountsExact, Inv
<1>6. ParentsAlive'
  <2>1. TypeOK /\ ParentsAlive
    BY DEF Inv, FramesCurrent
  <2>2. \A x \in LiveLocals : KeptScope(x)
    BY <1>1, <1>3 DEF KeptScope
  <2>3. ASSUME NEW s \in LiveLocals PROVE Linked(s)'
    <3>1. \A i \in DOMAIN locals[s].parents : KeptScope(locals[s].parents[i])
      BY <2>1, <2>2 DEF ParentsAlive
    <3> QED BY <3>1, <2>1, <2>2, LinksKept
  <2>4. ASSUME NEW f \in LiveFuncs PROVE FuncLinked(f)'
    BY <2>1, <1>1, <1>3 DEF ParentsAlive, FuncLinked
  <2> QED BY <2>3, <2>4, <1>1 DEF ParentsAlive, Linked, FuncLinked
<1>7. FramesAlive'
  BY <1>1, <1>2, <1>3, <1>4 DEF FramesAlive, Inv, FramesCurrent
<1> QED BY <1>5, <1>6, <1>7

\* The order of the frames and the height of the stack stay.
LEMMA OrderKept ==
  ASSUME CallStackAssumption, Inv, SameFrames, ret_stack_funcs' = ret_stack_funcs,
         stack' \in [capacity : Nat, values : Seq(Vals \cup {Null})],
         stack'.capacity >= stack.capacity, Len(stack'.values) = Len(stack.values)
  PROVE  FramesOrdered' /\ StackCoversFrame'
<1>1. TypeOK /\ FramesOrdered /\ StackCoversFrame
  BY DEF Inv, FramesCurrent
<1>2. Frames' = Frames /\ Running' = Running
  BY <1>1 DEF Frames, SameFrames, TypeOK, Running
<1>3. \A k \in Frames : /\ call_stack_funcs'[k].pos = call_stack_funcs[k].pos
                        /\ call_stack_funcs'[k].caller_size = call_stack_funcs[k].caller_size
                        /\ call_stack_funcs[k].caller_size \in Nat
                        /\ k - 1 \in Frames \/ k = 1
  BY <1>1, Calls DEF SameFrames
<1>4. stack.capacity \in Nat /\ stack'.capacity \in Nat /\ Len(stack.values) \in Nat
  BY <1>1 DEF TypeOK
<1>5. \A k \in Frames : NestedFrame(k)' = NestedFrame(k)
  BY DEF NestedFrame
<1>6. FramesOrdered'
  <2>1. ASSUME NEW j \in Frames, NEW k \in Frames, j < k
        PROVE  call_stack_funcs'[j].pos + NumLocals <= call_stack_funcs'[k].pos
    BY <2>1, <1>1, <1>3 DEF FramesOrdered
  <2>2. ASSUME NEW k \in Frames
        PROVE  LET below == IF k = 1 THEN 0 ELSE call_stack_funcs'[k - 1].pos + StackSize IN
               /\ call_stack_funcs'[k].pos <= call_stack_funcs'[k].caller_size
               /\ call_stack_funcs'[k].caller_size <= stack'.capacity
               /\ below <= IF NestedFrame(k)' THEN call_stack_funcs'[k].pos
                           ELSE call_stack_funcs'[k].caller_size
    <3> DEFINE below == IF k = 1 THEN 0 ELSE call_stack_funcs[k - 1].pos + StackSize
    <3>1. /\ call_stack_funcs[k].pos <= call_stack_funcs[k].caller_size
          /\ call_stack_funcs[k].caller_size <= stack.capacity
          /\ below <= IF NestedFrame(k) THEN call_stack_funcs[k].pos ELSE call_stack_funcs[k].caller_size
      BY <1>1 DEF FramesOrdered
    <3>2. below = IF k = 1 THEN 0 ELSE call_stack_funcs'[k - 1].pos + StackSize
      BY <1>3
    <3>3. call_stack_funcs[k].caller_size <= stack'.capacity
      BY <3>1, <1>3, <1>4
    <3> QED BY <3>1, <3>2, <3>3, <1>3, <1>5
  <2>3. Len(call_stack_funcs') = Len(call_stack_funcs)
    BY DEF SameFrames
  <2>4. NestedFrame(1)' = NestedFrame(1)
    BY DEF NestedFrame
  <2> QED BY <2>1, <2>2, <2>3, <2>4, <1>1, <1>2 DEF FramesOrdered
<1>7. StackCoversFrame'
  <2>1. Running => Top'.pos = Top.pos
    BY <1>1, <1>3, Calls DEF SameFrames, Top, Last
  <2>2. /\ Running => Len(stack.values) >= Top.pos + StackSize
        /\ Len(stack.values) <= stack.capacity
    BY <1>1 DEF StackCoversFrame
  <2>3. Len(stack'.values) <= stack'.capacity
    BY <2>2, <1>4
  <2> QED BY <2>1, <2>2, <2>3, <1>2 DEF StackCoversFrame
<1> QED BY <1>6, <1>7

\* What the frames say of the stack and of their scopes.
LEMMA Heights ==
  ASSUME CallStackAssumption, Inv, NEW k \in Frames
  PROVE  /\ call_stack_funcs[k].pos + 6 <= Len(stack.values)
         /\ Len(stack.values) \in Nat /\ stack.capacity \in Nat
         /\ Len(stack.values) <= stack.capacity
         /\ call_stack_funcs[k].locals \in LiveLocals
         /\ locals[call_stack_funcs[k].locals].values =
               InStack(stack.capacity, call_stack_funcs[k].pos)
         /\ locals[call_stack_funcs[k].locals].values.capacity = stack.capacity
         /\ locals[call_stack_funcs[k].locals].values.pos = call_stack_funcs[k].pos
<1>1. TypeOK /\ FramesAlive /\ PointersCurrent /\ FramesOrdered /\ StackCoversFrame
  BY DEF Inv, FramesCurrent
<1>2. Len(stack.values) \in Nat /\ stack.capacity \in Nat
  BY <1>1 DEF TypeOK
<1> DEFINE n == Len(call_stack_funcs)
<1>3. n \in Nat /\ k \in 1 .. n /\ n \in Frames /\ Running /\ Top = call_stack_funcs[n]
  BY <1>1, Calls
<1>4. call_stack_funcs[k].pos \in Nat /\ call_stack_funcs[n].pos \in Nat
  BY <1>1, <1>3, Calls
<1>5. k = n \/ call_stack_funcs[k].pos + NumLocals <= call_stack_funcs[n].pos
  <2>1. k = n \/ k < n
    BY <1>3
  <2> QED BY <2>1, <1>1, <1>3 DEF FramesOrdered
<1>6. Len(stack.values) >= call_stack_funcs[n].pos + StackSize /\ Len(stack.values) <= stack.capacity
  BY <1>1, <1>3 DEF StackCoversFrame
<1>7. call_stack_funcs[k].pos + 6 <= Len(stack.values)
  <2>1. NumLocals = 3 /\ StackSize \in Nat /\ StackSize >= 6
    BY Sizes
  <2> DEFINE a == call_stack_funcs[k].pos
             b == call_stack_funcs[n].pos
             h == Len(stack.values)
  <2>2. /\ a \in Nat /\ b \in Nat /\ h \in Nat
        /\ a = b \/ a + NumLocals <= b
        /\ h >= b + StackSize
    BY <1>2, <1>4, <1>5, <1>6
  <2> HIDE DEF a, b, h
  <2>3. a <= b
    BY <2>1, <2>2
  <2>4. a + 6 <= h
    BY <2>1, <2>2, <2>3
  <2> QED BY <2>4 DEF a, h
<1>8. /\ call_stack_funcs[k].locals \in LiveLocals
      /\ locals[call_stack_funcs[k].locals].values =
            InStack(stack.capacity, call_stack_funcs[k].pos)
  BY <1>1 DEF FramesAlive, PointersCurrent
<1>9. /\ InStack(stack.capacity, call_stack_funcs[k].pos).capacity = stack.capacity
      /\ InStack(stack.capacity, call_stack_funcs[k].pos).pos = call_stack_funcs[k].pos
  BY DEF InStack
<1> QED BY <1>2, <1>6, <1>7, <1>8, <1>9

\* What can be called is alive.
LEMMA CallableAlive ==
  ASSUME CallStackAssumption, Inv
  PROVE  Callable \subseteq LiveFuncs
<1>1. TypeOK /\ FramesAlive
  BY DEF Inv, FramesCurrent
<1>2. held \subseteq LiveFuncs
  BY <1>1 DEF TypeOK
<1>3. Running => Top.func \in LiveFuncs /\ Top.sub_funcs \subseteq LiveFuncs
  BY <1>1, Calls DEF FramesAlive
<1> QED BY <1>2, <1>3 DEF Callable

\* Steps that leave memory, stacks and pointers alone: throw, exit, resetTerminated, hold, drop.
LEMMA Quiet ==
  ASSUME CallStackAssumption, Inv, UNCHANGED <<memory, stack, calls, stack_func_locals>>,
         held' \subseteq LiveFuncs, terminated' \in {"no", "exception", "exit"},
         call_stack_overflow' \in BOOLEAN
  PROVE  Inv'
<1>1. UNCHANGED <<func, locals, prog_refs, stack, call_stack_funcs, ret_stack_funcs, stack_func_locals>>
  BY DEF memory, calls
<1>2. TypeOK /\ CountsExact /\ ParentsAlive /\ FramesAlive /\ PointersCurrent /\ FramesOrdered
      /\ StackCoversFrame
  BY DEF Inv, FramesCurrent
<1>3. LiveFuncs' = LiveFuncs /\ LiveLocals' = LiveLocals /\ Frames' = Frames /\ Running' = Running
      /\ Top' = Top
  BY <1>1 DEF LiveFuncs, LiveLocals, Frames, Running, Top
<1>4. TypeOK'
  BY <1>1, <1>2, <1>3 DEF TypeOK
<1>5. CountsExact' /\ ParentsAlive'
  BY <1>1, <1>2 DEF CountsExact, ParentsAlive, FrameRefs, FuncRefs, ScopeRefs, Parent,
                    LiveFuncs, LiveLocals, Frames
<1>6. FramesAlive' /\ PointersCurrent'
  BY <1>1, <1>2, <1>3 DEF FramesAlive, PointersCurrent
<1>7. FramesOrdered' /\ StackCoversFrame'
  BY <1>1, <1>2, <1>3 DEF FramesOrdered, StackCoversFrame, NestedFrame
<1> QED BY <1>4, <1>5, <1>6, <1>7 DEF Inv, FramesCurrent

\* A frame is replaced by one that differs in sub_funcs or in_try.
LEMMA FrameChanged ==
  ASSUME TypeOK, NEW n \in Frames, NEW fr \in Frame,
         call_stack_funcs' = [call_stack_funcs EXCEPT ![n] = fr],
         fr.func = call_stack_funcs[n].func, fr.locals = call_stack_funcs[n].locals,
         fr.pos = call_stack_funcs[n].pos, fr.caller_size = call_stack_funcs[n].caller_size
  PROVE  /\ SameFrames
         /\ \A k \in Frames : call_stack_funcs'[k].sub_funcs =
               IF k = n THEN fr.sub_funcs ELSE call_stack_funcs[k].sub_funcs
<1>1. call_stack_funcs \in Seq(Frame)
  BY DEF TypeOK
<1>2. Frames = 1 .. Len(call_stack_funcs)
  BY Calls
<1>3. call_stack_funcs' \in Seq(Frame) /\ Len(call_stack_funcs') = Len(call_stack_funcs)
  BY <1>1, <1>2, ExceptSeq
<1>4. \A k \in Frames : call_stack_funcs'[k] = IF k = n THEN fr ELSE call_stack_funcs[k]
  BY <1>1, <1>2, ExceptSeq
<1> QED BY <1>3, <1>4 DEF SameFrames

\* The top frame enters or leaves a try block.
LEMMA TryStep ==
  ASSUME CallStackAssumption, Inv, Running, SameFrames,
         \A k \in Frames : call_stack_funcs'[k].sub_funcs \subseteq LiveFuncs,
         UNCHANGED <<memory, held, stack, ret_stack_funcs, stack_func_locals, call_stack_overflow>>,
         terminated' \in {"no", "exception", "exit"}
  PROVE  Inv'
<1>1. UNCHANGED <<func, locals, prog_refs, held, stack, ret_stack_funcs, stack_func_locals,
                  call_stack_overflow>>
  BY DEF memory
<1>2. TypeOK /\ PointersCurrent
  BY DEF Inv, FramesCurrent
<1>3. Frames = 1 .. Len(call_stack_funcs) /\ Len(call_stack_funcs) \in Frames
  BY <1>2, Calls
<1>4. SameScopes
  BY <1>1 DEF SameScopes
<1>5. stack \in [capacity : Nat, values : Seq(Vals \cup {Null})] /\ stack.capacity \in Nat
  BY <1>2 DEF TypeOK
<1>6. CountsExact' /\ ParentsAlive' /\ FramesAlive' /\ FramesOrdered' /\ StackCoversFrame'
  BY <1>1, <1>4, <1>5, ObjectsKept, OrderKept
<1>7. TypeOK'
  BY <1>1, <1>2 DEF TypeOK, SameFrames, LiveFuncs
<1>8. PointersCurrent'
  <2>1. Frames' = Frames /\ Running' = Running /\ LiveLocals' = LiveLocals
    BY <1>1, <1>3 DEF Frames, Running, SameFrames, LiveLocals
  <2>2. \A k \in Frames : /\ call_stack_funcs'[k].locals = call_stack_funcs[k].locals
                          /\ call_stack_funcs'[k].pos = call_stack_funcs[k].pos
    BY DEF SameFrames
  <2>3. Top'.locals = Top.locals
    BY <1>3, <2>2 DEF Top, Last, SameFrames
  <2> QED BY <2>1, <2>2, <2>3, <1>1, <1>2 DEF PointersCurrent
<1> QED BY <1>6, <1>7, <1>8 DEF Inv, FramesCurrent

-----------------------------------------------------------------------------
(* Writing to the stack and growing it.                                    *)

\* Only the stack's values and the variables on the heap change.
LEMMA WriteStep ==
  ASSUME CallStackAssumption, Inv,
         UNCHANGED <<func, prog_refs, held, calls, stack_func_locals, terminated, call_stack_overflow>>,
         locals' \in [Scopes -> Scope \cup {NoLocals}], SameScopes,
         stack' \in [capacity : Nat, values : Seq(Vals \cup {Null})],
         stack'.capacity = stack.capacity, Len(stack'.values) = Len(stack.values),
         \A s \in LiveLocals :
            \/ locals'[s].values = locals[s].values
            \/ /\ \A k \in Frames : call_stack_funcs[k].locals # s
               /\ locals[s].decl \in Upvalue
               /\ \E x \in Vals \cup {Null} : locals'[s].values = OnHeap(x)
  PROVE  Inv'
<1>1. UNCHANGED <<call_stack_funcs, ret_stack_funcs>>
  BY DEF calls
<1>2. TypeOK /\ PointersCurrent /\ FramesAlive
  BY DEF Inv, FramesCurrent
<1>3. SameFrames
  BY <1>1, <1>2 DEF SameFrames, TypeOK
<1>4. stack.capacity \in Nat
  BY <1>2 DEF TypeOK
<1>5. CountsExact' /\ ParentsAlive' /\ FramesAlive' /\ FramesOrdered' /\ StackCoversFrame'
  <2>1. \A k \in Frames : call_stack_funcs'[k].sub_funcs \subseteq LiveFuncs
    BY <1>1, <1>2 DEF FramesAlive
  <2> QED BY <2>1, <1>1, <1>3, <1>4, ObjectsKept, OrderKept
<1>6. TypeOK'
  BY <1>1, <1>2 DEF TypeOK, LiveFuncs
<1>7. PointersCurrent'
  <2>1. LiveLocals' = LiveLocals /\ \A s \in LiveLocals : locals'[s].decl = locals[s].decl
    BY DEF LiveLocals, SameScopes
  <2>2. Frames' = Frames /\ Running' = Running /\ Top' = Top
    BY <1>1 DEF Frames, Running, Top
  <2>3. \A k \in Frames : locals'[call_stack_funcs[k].locals].values = locals[call_stack_funcs[k].locals].values
    BY <1>2 DEF FramesAlive
  <2>4. Running => Top.locals = call_stack_funcs[Len(call_stack_funcs)].locals /\ Len(call_stack_funcs) \in Frames
    BY <1>2, Calls
  <2>5. ASSUME NEW s \in LiveLocals, \A k \in Frames : call_stack_funcs[k].locals # s
        PROVE  \/ locals'[s].decl \in Upvalue /\ \E x \in Vals \cup {Null} : locals'[s].values = OnHeap(x)
               \/ locals'[s].decl \notin Upvalue /\ locals'[s].values = Nil
    <3>1. \/ locals[s].decl \in Upvalue /\ \E x \in Vals \cup {Null} : locals[s].values = OnHeap(x)
          \/ locals[s].decl \notin Upvalue /\ locals[s].values = Nil
      BY <2>5, <1>2 DEF PointersCurrent
    <3>2. \/ locals'[s].values = locals[s].values
          \/ locals[s].decl \in Upvalue /\ \E x \in Vals \cup {Null} : locals'[s].values = OnHeap(x)
      OBVIOUS
    <3> QED BY <3>1, <3>2, <2>1
  <2>6. \A k \in Frames : locals'[call_stack_funcs'[k].locals].values =
                            InStack(stack'.capacity, call_stack_funcs'[k].pos)
    BY <2>3, <1>1, <1>2 DEF PointersCurrent
  <2>7. stack_func_locals' = IF Running THEN locals'[Top.locals].values ELSE Nil
    BY <2>3, <2>4, <1>2 DEF PointersCurrent
  <2> QED BY <2>1, <2>2, <2>5, <2>6, <2>7, <1>1 DEF PointersCurrent
<1> QED BY <1>5, <1>6, <1>7 DEF Inv, FramesCurrent

\* An assignment to a slot of the stack.
LEMMA SlotWritten ==
  ASSUME CallStackAssumption, TypeOK, NEW i \in 1 .. Len(stack.values), NEW v \in Vals,
         stack' = [stack EXCEPT !.values[i] = v]
  PROVE  /\ stack' \in [capacity : Nat, values : Seq(Vals \cup {Null})]
         /\ stack'.capacity = stack.capacity /\ Len(stack'.values) = Len(stack.values)
         /\ stack'.values = [stack.values EXCEPT ![i] = v]
<1> DEFINE V == Vals \cup {Null}
           w == [stack.values EXCEPT ![i] = v]
<1>1. stack \in [capacity : Nat, values : Seq(V)]
  BY DEF TypeOK
<1>2. stack.capacity \in Nat /\ stack.values \in Seq(V) /\ v \in V
  BY <1>1
<1>3. w \in Seq(V) /\ Len(w) = Len(stack.values)
  BY <1>2, ExceptSeq
<1>4. stack' = [stack EXCEPT !.values = w]
  OBVIOUS
<1> HIDE DEF w
<1>5. stack'.capacity = stack.capacity /\ stack'.values = w
  BY <1>1, <1>4
<1>6. stack' \in [capacity : Nat, values : Seq(V)]
  BY <1>1, <1>2, <1>3, <1>4
<1> QED BY <1>3, <1>5, <1>6 DEF w

LEMMA SetLocalStep ==
  ASSUME CallStackAssumption, Inv, NEW v \in Vals, setLocal(v)
  PROVE  Inv'
<1>1. TypeOK /\ PointersCurrent
  BY DEF Inv, FramesCurrent
<1>2. /\ Running /\ stack' = [stack EXCEPT !.values[stack_func_locals.pos + NumLocals] = v]
      /\ UNCHANGED <<func, locals, prog_refs, held, calls, stack_func_locals, terminated, call_stack_overflow>>
  BY DEF setLocal, memory
<1> DEFINE k == Len(call_stack_funcs)
           i == stack_func_locals.pos + NumLocals
<1>3. k \in Frames /\ Top = call_stack_funcs[k] /\ call_stack_funcs[k].pos \in Nat
  BY <1>1, <1>2, Calls
<1>4. stack_func_locals.pos = call_stack_funcs[k].pos
  <2>1. stack_func_locals = locals[call_stack_funcs[k].locals].values
    BY <1>1, <1>2, <1>3 DEF PointersCurrent
  <2> QED BY <2>1, <1>3, Heights
<1>5. i \in 1 .. Len(stack.values)
  BY <1>3, <1>4, Heights, Sizes
<1>6. /\ stack' \in [capacity : Nat, values : Seq(Vals \cup {Null})]
      /\ stack'.capacity = stack.capacity /\ Len(stack'.values) = Len(stack.values)
  <2>1. stack' = [stack EXCEPT !.values[i] = v]
    BY <1>2
  <2> HIDE DEF i
  <2> QED BY <2>1, <1>1, <1>5, SlotWritten
<1>7. locals' \in [Scopes -> Scope \cup {NoLocals}] /\ SameScopes
      /\ \A s \in LiveLocals : locals'[s].values = locals[s].values
  BY <1>1, <1>2 DEF TypeOK, SameScopes
<1> QED BY <1>2, <1>6, <1>7, WriteStep

\* The scope of a captured variable is a frame's or has the variable on the heap.
LEMMA CapturedValues ==
  ASSUME CallStackAssumption, Inv, NEW s \in LiveLocals, locals[s].decl \in Upvalue
  PROVE  \/ \E k \in Frames : /\ call_stack_funcs[k].locals = s
                              /\ locals[s].values = InStack(stack.capacity, call_stack_funcs[k].pos)
                              /\ locals[s].values.capacity > 0
                              /\ locals[s].values.pos = call_stack_funcs[k].pos
         \/ /\ \A k \in Frames : call_stack_funcs[k].locals # s
            /\ \E x \in Vals \cup {Null} : locals[s].values = OnHeap(x)
            /\ locals[s].values.capacity = 0
<1>1. TypeOK /\ PointersCurrent
  BY DEF Inv, FramesCurrent
<1>2. ASSUME NEW k \in Frames, call_stack_funcs[k].locals = s
      PROVE  /\ locals[s].values = InStack(stack.capacity, call_stack_funcs[k].pos)
             /\ locals[s].values.capacity > 0
             /\ locals[s].values.pos = call_stack_funcs[k].pos
  <2>1. call_stack_funcs[k].pos \in Nat
    BY <1>1, Calls
  <2>2. /\ call_stack_funcs[k].pos + 6 <= Len(stack.values)
        /\ Len(stack.values) \in Nat /\ stack.capacity \in Nat
        /\ Len(stack.values) <= stack.capacity
    BY Heights
  <2>3. stack.capacity > 0
    BY <2>1, <2>2
  <2> QED BY <2>3, <1>2, Heights
<1>3. ASSUME \A k \in Frames : call_stack_funcs[k].locals # s
      PROVE  /\ \E x \in Vals \cup {Null} : locals[s].values = OnHeap(x)
             /\ locals[s].values.capacity = 0
  <2>1. PICK x \in Vals \cup {Null} : locals[s].values = OnHeap(x)
    BY <1>1, <1>3 DEF PointersCurrent
  <2>2. OnHeap(x).capacity = 0
    BY DEF OnHeap
  <2> QED BY <2>1, <2>2
<1> QED BY <1>2, <1>3

LEMMA SetUpvalueStep ==
  ASSUME CallStackAssumption, Inv, NEW c, NEW v \in Vals, OP_SET_UPVALUE(c, v)
  PROVE  Inv'
<1>1. TypeOK /\ FramesAlive /\ ParentsAlive
  BY DEF Inv, FramesCurrent
<1> DEFINE t == Top.locals
           s == locals[t].parents[c]
<1>2. /\ Running /\ c \in DOMAIN locals[t].parents /\ locals[s].decl \in Upvalue
      /\ IF locals[s].values.capacity > 0
         THEN stack' = [stack EXCEPT !.values[locals[s].values.pos + NumLocals] = v] /\ UNCHANGED locals
         ELSE locals' = [locals EXCEPT ![s].values = OnHeap(v)] /\ UNCHANGED stack
      /\ UNCHANGED <<func, prog_refs, held, calls, stack_func_locals, terminated, call_stack_overflow>>
  BY DEF OP_SET_UPVALUE
<1>3. t \in LiveLocals
  BY <1>1, <1>2, Calls DEF FramesAlive
<1>4. s \in LiveLocals /\ s \in Scopes
  BY <1>1, <1>2, <1>3, Alive DEF ParentsAlive
<1> HIDE DEF t, s
<1>5. CASE locals[s].values.capacity > 0
  <2>1. stack' = [stack EXCEPT !.values[locals[s].values.pos + NumLocals] = v] /\ UNCHANGED locals
    BY <1>2, <1>5
  <2>2. PICK k \in Frames : locals[s].values.pos = call_stack_funcs[k].pos
    <3>1. locals[s].values.capacity # 0
      BY <1>5
    <3> QED BY <3>1, <1>2, <1>4, CapturedValues
  <2> DEFINE i == locals[s].values.pos + NumLocals
  <2>3. i \in 1 .. Len(stack.values)
    <3>1. call_stack_funcs[k].pos \in Nat /\ Len(stack.values) \in Nat
          /\ call_stack_funcs[k].pos + 6 <= Len(stack.values)
      BY <1>1, Calls, Heights
    <3>2. i = call_stack_funcs[k].pos + 3
      BY <2>2, Sizes
    <3> HIDE DEF i
    <3> QED BY <3>1, <3>2
  <2>4. /\ stack' \in [capacity : Nat, values : Seq(Vals \cup {Null})]
        /\ stack'.capacity = stack.capacity /\ Len(stack'.values) = Len(stack.values)
    <3>1. stack' = [stack EXCEPT !.values[i] = v]
      BY <2>1
    <3> HIDE DEF i
    <3> QED BY <3>1, <2>3, <1>1, SlotWritten
  <2>5. locals' \in [Scopes -> Scope \cup {NoLocals}] /\ SameScopes
        /\ \A x \in LiveLocals : locals'[x].values = locals[x].values
    BY <2>1, <1>1 DEF TypeOK, SameScopes
  <2> QED BY <2>4, <2>5, <1>2, WriteStep
<1>6. CASE ~(locals[s].values.capacity > 0)
  <2>1. locals' = [locals EXCEPT ![s].values = OnHeap(v)] /\ UNCHANGED stack
    BY <1>2, <1>6
  <2>2. \A k \in Frames : call_stack_funcs[k].locals # s
    BY <1>2, <1>4, <1>6, CapturedValues
  <2> DEFINE new == [locals[s] EXCEPT !.values = OnHeap(v)]
  <2>3. OnHeap(v) \in Values
    BY DEF OnHeap, Values
  <2>4. /\ new \in Scope /\ new.decl = locals[s].decl /\ new.ref_count = locals[s].ref_count
        /\ new.parents = locals[s].parents /\ new.values = OnHeap(v)
    <3>1. locals[s] \in Scope
      BY <1>1, <1>4, Alive
    <3> HIDE DEF OnHeap
    <3> QED BY <3>1, <2>3 DEF Scope
  <2>5. locals' = [locals EXCEPT ![s] = new]
    BY <2>1
  <2> HIDE DEF new
  <2>6. locals \in [Scopes -> Scope \cup {NoLocals}]
    BY <1>1 DEF TypeOK
  <2>7. new # NoLocals /\ locals[s] # NoLocals
    <3>1. new.decl \in Decls /\ locals[s].decl \in Decls /\ NoLocals.decl = Nil
      BY <2>4, <1>1, <1>4, Alive DEF NoLocals
    <3> QED BY <3>1 DEF CallStackAssumption
  <2>8. locals' \in [Scopes -> Scope \cup {NoLocals}] /\ SameScopes
    BY <2>4, <2>5, <2>6, <2>7, <1>4 DEF SameScopes
  <2>9. \A x \in LiveLocals :
           \/ locals'[x].values = locals[x].values
           \/ /\ \A k \in Frames : call_stack_funcs[k].locals # x
              /\ locals[x].decl \in Upvalue
              /\ \E y \in Vals \cup {Null} : locals'[x].values = OnHeap(y)
    <3>1. locals'[s].values = OnHeap(v) /\ v \in Vals \cup {Null}
      BY <2>4, <2>5, <2>6, <1>4
    <3>2. \A x \in LiveLocals : x # s => locals'[x].values = locals[x].values
      BY <2>5, <2>6, <1>1, <1>4, Alive
    <3> QED BY <3>1, <3>2, <2>2, <1>2
  <2>10. stack \in [capacity : Nat, values : Seq(Vals \cup {Null})]
    BY <1>1 DEF TypeOK
  <2> QED BY <2>1, <2>8, <2>9, <2>10, <1>2, WriteStep
<1> QED BY <1>5, <1>6

\* growStackValues moves the variables of the frames and nothing else.
LEMMA Grown ==
  ASSUME CallStackAssumption, Inv, NEW n \in Nat
  PROVE  /\ movedLocals(n) \in [Scopes -> Scope \cup {NoLocals}]
         /\ \A x \in Scopes :
               /\ movedLocals(n)[x] # NoLocals <=> locals[x] # NoLocals
               /\ movedLocals(n)[x].decl = locals[x].decl
               /\ movedLocals(n)[x].ref_count = locals[x].ref_count
               /\ movedLocals(n)[x].parents = locals[x].parents
               /\ (\A k \in Frames : call_stack_funcs[k].locals # x) => movedLocals(n)[x] = locals[x]
         /\ \A k \in Frames : movedLocals(n)[call_stack_funcs[k].locals].values =
                                 InStack(NewCapacity(n), call_stack_funcs[k].pos)
<1>1. TypeOK /\ FramesAlive /\ PointersCurrent
  BY DEF Inv, FramesCurrent
<1>2. NewCapacity(n) \in Nat
  BY <1>1, Room
<1> DEFINE M == movedLocals(n)
           moved(x) == [locals[x] EXCEPT !.values.capacity = NewCapacity(n)]
<1>3. M = [x \in Scopes |-> IF \E k \in Frames : call_stack_funcs[k].locals = x THEN moved(x) ELSE locals[x]]
  BY DEF movedLocals
<1>4. ASSUME NEW k \in Frames
      PROVE  LET x == call_stack_funcs[k].locals IN
             /\ x \in Scopes /\ locals[x] \in Scope
             /\ moved(x) \in Scope
             /\ moved(x).decl = locals[x].decl
             /\ moved(x).ref_count = locals[x].ref_count
             /\ moved(x).parents = locals[x].parents
             /\ moved(x).values = InStack(NewCapacity(n), call_stack_funcs[k].pos)
  <2> DEFINE x == call_stack_funcs[k].locals
             p == call_stack_funcs[k].pos
             o == locals[x].values
             w == [o EXCEPT !.capacity = NewCapacity(n)]
  <2>1. x \in LiveLocals /\ x \in Scopes /\ locals[x] \in Scope
    BY <1>1, Alive DEF FramesAlive
  <2>2. p \in Nat
    BY <1>1, Calls
  <2>3. o = InStack(stack.capacity, p)
    BY <1>1 DEF PointersCurrent
  <2>4. moved(x) = [locals[x] EXCEPT !.values = w]
    OBVIOUS
  <2> HIDE DEF o
  <2>5. w = InStack(NewCapacity(n), p)
    BY <2>3 DEF InStack
  <2>6. w \in Values
    BY <2>2, <2>5, <1>2 DEF InStack, Values
  <2> HIDE DEF w, moved, x, p
  <2>7. /\ moved(x) \in Scope
        /\ moved(x).decl = locals[x].decl
        /\ moved(x).ref_count = locals[x].ref_count
        /\ moved(x).parents = locals[x].parents
        /\ moved(x).values = w
    BY <2>1, <2>4, <2>6 DEF Scope
  <2> QED BY <2>1, <2>5, <2>7 DEF x, p
<1> HIDE DEF moved
<1>5. ASSUME NEW x \in Scopes
      PROVE  /\ M[x] \in Scope \cup {NoLocals}
             /\ M[x] # NoLocals <=> locals[x] # NoLocals
             /\ M[x].decl = locals[x].decl
             /\ M[x].ref_count = locals[x].ref_count
             /\ M[x].parents = locals[x].parents
             /\ (\A k \in Frames : call_stack_funcs[k].locals # x) => M[x] = locals[x]
  <2>1. CASE \A k \in Frames : call_stack_funcs[k].locals # x
    <3>1. M[x] = locals[x]
      BY <2>1, <1>3
    <3> HIDE DEF M
    <3> QED BY <3>1, <1>1 DEF TypeOK
  <2>2. ASSUME NEW k \in Frames, call_stack_funcs[k].locals = x PROVE <1>5!2
    <3>1. M[x] = moved(x)
      BY <2>2, <1>3
    <3> HIDE DEF M
    <3>2. /\ moved(x) \in Scope /\ locals[x] \in Scope
          /\ moved(x).decl = locals[x].decl
          /\ moved(x).ref_count = locals[x].ref_count
          /\ moved(x).parents = locals[x].parents
      BY <1>4, <2>2
    <3>3. moved(x) # NoLocals /\ locals[x] # NoLocals
      BY <3>2 DEF Scope, NoLocals, CallStackAssumption
    <3> QED BY <3>1, <3>2, <3>3, <2>2
  <2> QED BY <2>1, <2>2
<1>6. M \in [Scopes -> Scope \cup {NoLocals}]
  <2>1. DOMAIN M = Scopes /\ M = [x \in Scopes |-> M[x]]
    BY <1>3
  <2> HIDE DEF M
  <2> QED BY <2>1, <1>5
<1>7. \A k \in Frames : M[call_stack_funcs[k].locals].values = InStack(NewCapacity(n), call_stack_funcs[k].pos)
  <2>1. \A k \in Frames : M[call_stack_funcs[k].locals] = moved(call_stack_funcs[k].locals)
    BY <1>3, <1>4
  <2> HIDE DEF M
  <2> QED BY <2>1, <1>4
<1> QED BY <1>5, <1>6, <1>7

\* The call that does not happen: the stack may have grown.
LEMMA OverflowStep ==
  ASSUME CallStackAssumption, Inv, NEW start \in Nat, NEW need \in Rets, overflow(start, need)
  PROVE  Inv'
<1> DEFINE n == needed(start, need)
           C == NewCapacity(n)
<1>1. TypeOK /\ FramesAlive /\ PointersCurrent
  BY DEF Inv, FramesCurrent
<1>2. n \in Nat /\ C \in Nat /\ C >= stack.capacity
  BY <1>1, Room
<1>3. /\ call_stack_overflow' = TRUE /\ terminated' = "exception"
      /\ stack' = [stack EXCEPT !.capacity = C]
      /\ locals' = movedLocals(n)
      /\ stack_func_locals' = IF Running THEN movedLocals(n)[Top.locals].values ELSE Nil
      /\ UNCHANGED <<func, prog_refs, held, call_stack_funcs, ret_stack_funcs>>
  BY DEF overflow, movedCache, calls
<1> HIDE DEF n, C
<1>4. /\ locals' \in [Scopes -> Scope \cup {NoLocals}]
      /\ SameScopes
      /\ \A x \in Scopes : (\A k \in Frames : call_stack_funcs[k].locals # x) => locals'[x] = locals[x]
      /\ \A k \in Frames : locals'[call_stack_funcs[k].locals].values = InStack(C, call_stack_funcs[k].pos)
  BY <1>2, <1>3, Grown DEF SameScopes, C
<1>5. SameFrames
  BY <1>1, <1>3 DEF SameFrames, TypeOK
<1>6. /\ stack' \in [capacity : Nat, values : Seq(Vals \cup {Null})]
      /\ stack'.capacity = C /\ stack'.values = stack.values
  BY <1>1, <1>2, <1>3 DEF TypeOK
<1>7. CountsExact' /\ ParentsAlive' /\ FramesAlive' /\ FramesOrdered' /\ StackCoversFrame'
  <2>1. \A k \in Frames : call_stack_funcs'[k].sub_funcs \subseteq LiveFuncs
    BY <1>1, <1>3 DEF FramesAlive
  <2> QED BY <2>1, <1>2, <1>3, <1>4, <1>5, <1>6, ObjectsKept, OrderKept
<1>8. TypeOK'
  <2>1. call_stack_overflow' \in BOOLEAN /\ terminated' \in {"no", "exception", "exit"}
    BY <1>3
  <2> QED BY <2>1, <1>1, <1>3, <1>4, <1>6 DEF TypeOK, LiveFuncs
<1>9. PointersCurrent'
  <2>1. /\ LiveLocals' = LiveLocals /\ LiveLocals \subseteq Scopes
        /\ \A s \in LiveLocals : locals'[s].decl = locals[s].decl
    BY <1>4 DEF LiveLocals, SameScopes
  <2>2. Frames' = Frames /\ Running' = Running /\ Top' = Top
    BY <1>3 DEF Frames, Running, Top
  <2>3. \A k \in Frames : locals'[call_stack_funcs'[k].locals].values =
                             InStack(stack'.capacity, call_stack_funcs'[k].pos)
    BY <1>3, <1>4, <1>6
  <2>4. stack_func_locals' = IF Running THEN locals'[Top.locals].values ELSE Nil
    BY <1>3
  <2>5. ASSUME NEW s \in LiveLocals, \A k \in Frames : call_stack_funcs[k].locals # s
        PROVE  \/ locals'[s].decl \in Upvalue /\ \E x \in Vals \cup {Null} : locals'[s].values = OnHeap(x)
               \/ locals'[s].decl \notin Upvalue /\ locals'[s].values = Nil
    BY <2>1, <2>5, <1>1, <1>4 DEF PointersCurrent
  <2> QED BY <2>1, <2>2, <2>3, <2>4, <2>5, <1>3 DEF PointersCurrent
<1> QED BY <1>7, <1>8, <1>9 DEF Inv, FramesCurrent

-----------------------------------------------------------------------------
(* Creating a function.                                                    *)

\* What OP_NEW_FUNCTION writes: the function f, one more reference to the scope s of the
\* top frame, and f in the frame's sub_funcs.
NewFunctionStep(d, f, fr, new, C) ==
  /\ Running /\ f \in Funcs \ LiveFuncs /\ d \in Decls
  /\ Outer[d] = func[Top.func].decl
  /\ func' = [func EXCEPT ![f] = [decl |-> d, locals |-> Top.locals]]
  /\ fr \in Frame /\ call_stack_funcs' = [call_stack_funcs EXCEPT ![Len(call_stack_funcs)] = fr]
  /\ fr.func = Top.func /\ fr.locals = Top.locals /\ fr.pos = Top.pos
  /\ fr.caller_size = Top.caller_size /\ fr.sub_funcs = Top.sub_funcs \cup {f}
  /\ new \in [Scopes -> Scope \cup {NoLocals}] /\ locals' = new
  /\ \A x \in Scopes :
        /\ new[x] # NoLocals <=> locals[x] # NoLocals
        /\ locals[x] # NoLocals =>
              /\ new[x].decl = locals[x].decl /\ new[x].parents = locals[x].parents
              /\ new[x].ref_count = locals[x].ref_count + IF x = Top.locals THEN 1 ELSE 0
        /\ (\A k \in Frames : call_stack_funcs[k].locals # x) => new[x].values = locals[x].values
  /\ \A k \in Frames : new[call_stack_funcs[k].locals].values = InStack(C, call_stack_funcs[k].pos)
  /\ C \in Nat /\ C >= stack.capacity /\ stack' = [stack EXCEPT !.capacity = C]
  /\ stack_func_locals' = new[Top.locals].values
  /\ prog_refs' = prog_refs + 1
  /\ UNCHANGED <<held, ret_stack_funcs, terminated, call_stack_overflow>>

LEMMA NewFunction ==
  ASSUME CallStackAssumption, Inv, NEW d \in Decls, OP_NEW_FUNCTION(d)
  PROVE  \E f, fr, new, C : NewFunctionStep(d, f, fr, new, C)
<1> DEFINE n == Len(stack.values) + 1
           s == Top.locals
           h == Len(call_stack_funcs)
           C == NewCapacity(n)
           M == movedLocals(n)
<1>1. TypeOK /\ FramesAlive /\ Running
  BY DEF Inv, FramesCurrent, OP_NEW_FUNCTION
<1>2. n \in Nat /\ C \in Nat /\ C >= stack.capacity
  <2>1. n \in Nat
    BY <1>1 DEF TypeOK
  <2> QED BY <2>1, <1>1, Room
<1>3. PICK f \in Funcs \ LiveFuncs :
        /\ func' = [func EXCEPT ![f] = [decl |-> d, locals |-> s]]
        /\ call_stack_funcs' = [call_stack_funcs EXCEPT ![h].sub_funcs = @ \cup {f}]
  BY DEF OP_NEW_FUNCTION
<1>4. /\ Outer[d] = func[Top.func].decl
      /\ locals' = [M EXCEPT ![s].ref_count = @ + 1]
      /\ stack' = [stack EXCEPT !.capacity = C]
      /\ stack_func_locals' = IF Running THEN M[s].values ELSE Nil
      /\ prog_refs' = prog_refs + 1
      /\ UNCHANGED <<held, ret_stack_funcs, terminated, call_stack_overflow>>
  BY DEF OP_NEW_FUNCTION, movedCache
<1>5. h \in Frames /\ Top = call_stack_funcs[h] /\ Top \in Frame /\ s \in LiveLocals /\ s \in Scopes
  BY <1>1, Calls, Alive DEF FramesAlive
<1>6. /\ M \in [Scopes -> Scope \cup {NoLocals}]
      /\ \A x \in Scopes :
            /\ M[x] # NoLocals <=> locals[x] # NoLocals
            /\ M[x].decl = locals[x].decl
            /\ M[x].ref_count = locals[x].ref_count
            /\ M[x].parents = locals[x].parents
            /\ (\A k \in Frames : call_stack_funcs[k].locals # x) => M[x] = locals[x]
      /\ \A k \in Frames : M[call_stack_funcs[k].locals].values = InStack(C, call_stack_funcs[k].pos)
  BY <1>2, Grown
<1> DEFINE fr == [Top EXCEPT !.sub_funcs = Top.sub_funcs \cup {f}]
           o == M[s]
           ns == [o EXCEPT !.ref_count = o.ref_count + 1]
           new == [M EXCEPT ![s] = ns]
<1>7. call_stack_funcs' = [call_stack_funcs EXCEPT ![h] = fr] /\ locals' = new
  BY <1>3, <1>4, <1>5
<1>8. /\ fr \in Frame /\ fr.func = Top.func /\ fr.locals = Top.locals /\ fr.pos = Top.pos
      /\ fr.caller_size = Top.caller_size /\ fr.sub_funcs = Top.sub_funcs \cup {f}
  <2> DEFINE T == Top
  <2>1. T \in Frame /\ f \in Funcs
    BY <1>3, <1>5
  <2> HIDE DEF T
  <2>2. LET g == [T EXCEPT !.sub_funcs = T.sub_funcs \cup {f}] IN
        /\ g \in Frame /\ g.func = T.func /\ g.locals = T.locals /\ g.pos = T.pos
        /\ g.caller_size = T.caller_size /\ g.sub_funcs = T.sub_funcs \cup {f}
    BY <2>1 DEF Frame
  <2> QED BY <2>2 DEF T
<1>9. /\ ns \in Scope /\ ns.decl = o.decl /\ ns.parents = o.parents /\ ns.values = o.values
      /\ ns.ref_count = o.ref_count + 1
  <2>1. o \in Scope
    BY <1>5, <1>6 DEF LiveLocals
  <2> HIDE DEF o
  <2> QED BY <2>1 DEF Scope
<1>10. ns # NoLocals
  <2>1. ns.decl \in Decls
    <3> HIDE DEF ns
    <3> QED BY <1>9 DEF Scope
  <2> HIDE DEF ns
  <2> QED BY <2>1 DEF NoLocals, CallStackAssumption
<1> HIDE DEF fr, ns, M, C, n
<1>11. \A x \in Scopes : new[x] = IF x = s THEN ns ELSE M[x]
  BY <1>5, <1>6
<1>12. new \in [Scopes -> Scope \cup {NoLocals}]
  BY <1>6, <1>9, <1>11
<1> HIDE DEF new
<1>13. ASSUME NEW x \in Scopes
       PROVE  /\ new[x] # NoLocals <=> locals[x] # NoLocals
              /\ locals[x] # NoLocals =>
                    /\ new[x].decl = locals[x].decl /\ new[x].parents = locals[x].parents
                    /\ new[x].ref_count = locals[x].ref_count + IF x = s THEN 1 ELSE 0
              /\ (\A k \in Frames : call_stack_funcs[k].locals # x) => new[x].values = locals[x].values
              /\ new[x].values = M[x].values
  <2>1. CASE x = s
    BY <2>1, <1>5, <1>6, <1>9, <1>10, <1>11 DEF LiveLocals
  <2>2. CASE x # s
    <3>1. new[x] = M[x]
      BY <2>2, <1>11
    <3>2. locals[x] # NoLocals => locals[x].ref_count \in Nat
      BY <1>1, Alive DEF LiveLocals
    <3> QED BY <2>2, <3>1, <3>2, <1>6
  <2> QED BY <2>1, <2>2
<1>14. \A k \in Frames : new[call_stack_funcs[k].locals].values = InStack(C, call_stack_funcs[k].pos)
  BY <1>1, <1>6, <1>13, Calls
<1>15. stack_func_locals' = new[s].values
  BY <1>1, <1>4, <1>5, <1>13
<1>16. NewFunctionStep(d, f, fr, new, C)
  BY <1>1, <1>2, <1>3, <1>4, <1>7, <1>8, <1>12, <1>13, <1>14, <1>15 DEF NewFunctionStep
<1> QED BY <1>16

LEMMA NewFunctionKeeps ==
  ASSUME CallStackAssumption, Inv, NEW d, NEW f, NEW fr, NEW new, NEW C,
         NewFunctionStep(d, f, fr, new, C)
  PROVE  Inv'
<1> DEFINE s == Top.locals
           h == Len(call_stack_funcs)
<1>1. TypeOK /\ CountsExact /\ ParentsAlive /\ FramesAlive /\ PointersCurrent
  BY DEF Inv, FramesCurrent
<1>2. Running /\ f \in Funcs /\ f \notin LiveFuncs /\ d \in Decls /\ Outer[d] = func[Top.func].decl
  BY DEF NewFunctionStep
<1>3. /\ func' = [func EXCEPT ![f] = [decl |-> d, locals |-> s]]
      /\ locals' \in [Scopes -> Scope \cup {NoLocals}]
      /\ C \in Nat /\ C >= stack.capacity /\ stack' = [stack EXCEPT !.capacity = C]
      /\ prog_refs' = prog_refs + 1
      /\ UNCHANGED <<held, ret_stack_funcs, terminated, call_stack_overflow>>
      /\ stack_func_locals' = locals'[s].values
      /\ \A k \in Frames : locals'[call_stack_funcs[k].locals].values = InStack(C, call_stack_funcs[k].pos)
  BY DEF NewFunctionStep
<1>4. \A x \in Scopes :
        /\ locals'[x] # NoLocals <=> locals[x] # NoLocals
        /\ locals[x] # NoLocals =>
              /\ locals'[x].decl = locals[x].decl /\ locals'[x].parents = locals[x].parents
              /\ locals'[x].ref_count = locals[x].ref_count + IF x = s THEN 1 ELSE 0
        /\ (\A k \in Frames : call_stack_funcs[k].locals # x) => locals'[x].values = locals[x].values
  BY DEF NewFunctionStep
<1>5. h \in Frames /\ Top = call_stack_funcs[h] /\ s \in LiveLocals /\ s \in Scopes
      /\ locals[s].decl = func[Top.func].decl
  BY <1>1, <1>2, Calls, Alive DEF FramesAlive
<1>6. /\ SameFrames
      /\ \A k \in Frames : call_stack_funcs'[k].sub_funcs =
            IF k = h THEN Top.sub_funcs \cup {f} ELSE call_stack_funcs[k].sub_funcs
  <2>1. /\ fr \in Frame /\ call_stack_funcs' = [call_stack_funcs EXCEPT ![h] = fr]
        /\ fr.func = Top.func /\ fr.locals = Top.locals /\ fr.pos = Top.pos
        /\ fr.caller_size = Top.caller_size /\ fr.sub_funcs = Top.sub_funcs \cup {f}
    BY DEF NewFunctionStep
  <2>2. /\ h \in Frames /\ fr.func = call_stack_funcs[h].func /\ fr.locals = call_stack_funcs[h].locals
        /\ fr.pos = call_stack_funcs[h].pos /\ fr.caller_size = call_stack_funcs[h].caller_size
    BY <2>1, <1>5
  <2> HIDE DEF h
  <2>3. /\ SameFrames
        /\ \A k \in Frames : call_stack_funcs'[k].sub_funcs =
              IF k = h THEN fr.sub_funcs ELSE call_stack_funcs[k].sub_funcs
    BY <2>1, <2>2, <1>1, FrameChanged
  <2> QED BY <2>1, <2>3
<1> HIDE DEF h
<1>7. Frames' = Frames /\ Running' /\ Top'.locals = Top.locals
  <2>1. /\ Len(call_stack_funcs') = Len(call_stack_funcs) /\ call_stack_funcs' \in Seq(Frame)
        /\ \A k \in Frames : call_stack_funcs'[k].locals = call_stack_funcs[k].locals
    BY <1>6 DEF SameFrames
  <2>2. Frames' = Frames
    BY <2>1, <1>1 DEF Frames, TypeOK
  <2>3. Len(call_stack_funcs) # 0 /\ Len(call_stack_funcs) \in Frames
    BY <1>1, <1>2, Calls
  <2>4. Running'
    BY <2>1, <2>3 DEF Running
  <2>5. Top'.locals = Top.locals
    BY <2>1, <2>3 DEF Top, Last
  <2> QED BY <2>2, <2>4, <2>5
<1>8. /\ LiveLocals' = LiveLocals /\ LiveLocals \subseteq Scopes
      /\ \A x \in LiveLocals :
            /\ locals'[x].decl = locals[x].decl /\ locals'[x].parents = locals[x].parents
            /\ locals'[x].ref_count = locals[x].ref_count + IF x = s THEN 1 ELSE 0
            /\ Parent(x)' = Parent(x)
  BY <1>4 DEF LiveLocals, Parent
<1>9. /\ func \in [Funcs -> Function \cup {NoFunc}]
      /\ func' \in [Funcs -> Function \cup {NoFunc}]
      /\ LiveFuncs' = LiveFuncs \cup {f}
      /\ func'[f].decl = d /\ func'[f].locals = s
      /\ \A g \in LiveFuncs : g # f /\ func'[g] = func[g]
  <2> DEFINE nf == [decl |-> d, locals |-> s]
  <2>1. nf \in Function /\ nf # NoFunc /\ nf.decl = d /\ nf.locals = s
    BY <1>2, <1>5 DEF Function, NoFunc, CallStackAssumption
  <2>2. func \in [Funcs -> Function \cup {NoFunc}]
    BY <1>1 DEF TypeOK
  <2>3. func' = [func EXCEPT ![f] = nf]
    BY <1>3
  <2> HIDE DEF nf, s
  <2> QED BY <2>1, <2>2, <2>3, <1>2 DEF LiveFuncs
<1> HIDE DEF s
<1>10. CountsExact'
  <2>1. ASSUME NEW x \in LiveLocals
        PROVE  /\ FrameRefs(x)' = FrameRefs(x) /\ ScopeRefs(x)' = ScopeRefs(x)
               /\ FuncRefs(x)' = IF x = s THEN FuncRefs(x) \cup {f} ELSE FuncRefs(x)
    <3>1. FrameRefs(x)' = FrameRefs(x)
      BY <1>6, <1>7 DEF FrameRefs, SameFrames
    <3>2. ScopeRefs(x)' = ScopeRefs(x)
      BY <1>8 DEF ScopeRefs
    <3>3. FuncRefs(x)' = IF x = s THEN FuncRefs(x) \cup {f} ELSE FuncRefs(x)
      BY <1>9 DEF FuncRefs
    <3> QED BY <3>1, <3>2, <3>3
  <2>2. ASSUME NEW x \in LiveLocals
        PROVE  locals'[x].ref_count = Cardinality(FrameRefs(x)') + Cardinality(FuncRefs(x)')
                                        + Cardinality(ScopeRefs(x)')
    <3>1. /\ Cardinality(FrameRefs(x)) \in Nat /\ Cardinality(FuncRefs(x)) \in Nat
          /\ Cardinality(ScopeRefs(x)) \in Nat /\ IsFiniteSet(FuncRefs(x))
      BY <1>1, Refs
    <3>2. locals[x].ref_count = Cardinality(FrameRefs(x)) + Cardinality(FuncRefs(x))
                                   + Cardinality(ScopeRefs(x))
      BY <1>1 DEF CountsExact
    <3>3. x = s => Cardinality(FuncRefs(x)') = Cardinality(FuncRefs(x)) + 1
      <4>1. f \notin FuncRefs(x)
        BY <1>2 DEF FuncRefs
      <4> QED BY <4>1, <3>1, <2>1, FS_AddElement
    <3> QED BY <3>1, <3>2, <3>3, <2>1, <1>8
  <2>3. Cardinality(LiveFuncs') = Cardinality(LiveFuncs) + 1 /\ Cardinality(LiveFuncs) \in Nat
    <3>1. IsFiniteSet(LiveFuncs)
      BY <1>1, Alive, FS_Subset DEF CallStackAssumption
    <3> QED BY <3>1, <1>2, <1>9, FS_AddElement, FS_CardinalityType
  <2>4. Cardinality(LiveLocals) \in Nat
    BY <1>8, FS_Subset, FS_CardinalityType DEF CallStackAssumption
  <2>5. prog_refs' = Cardinality(LiveFuncs') + Cardinality(LiveLocals')
    BY <2>3, <2>4, <1>1, <1>3, <1>8 DEF CountsExact
  <2> QED BY <2>2, <2>5, <1>8 DEF CountsExact
<1>11. ParentsAlive'
  <2>1. \A x \in LiveLocals : KeptScope(x)
    BY <1>8 DEF KeptScope
  <2>2. ASSUME NEW x \in LiveLocals PROVE Linked(x)'
    <3>1. \A i \in DOMAIN locals[x].parents : KeptScope(locals[x].parents[i])
      BY <2>1, <1>1 DEF ParentsAlive
    <3> QED BY <3>1, <2>1, <1>1, LinksKept
  <2>3. ASSUME NEW g \in LiveFuncs PROVE FuncLinked(g)'
    BY <1>1, <1>8, <1>9 DEF ParentsAlive, FuncLinked
  <2>4. FuncLinked(f)'
    BY <1>2, <1>5, <1>8, <1>9 DEF FuncLinked, CallStackAssumption
  <2> QED BY <2>2, <2>3, <2>4, <1>8, <1>9 DEF ParentsAlive, Linked, FuncLinked
<1>12. FramesAlive'
  <2>1. \A k \in Frames :
           /\ call_stack_funcs'[k].func = call_stack_funcs[k].func
           /\ call_stack_funcs'[k].locals = call_stack_funcs[k].locals
           /\ call_stack_funcs'[k].sub_funcs \subseteq call_stack_funcs[k].sub_funcs \cup {f}
    BY <1>5, <1>6 DEF SameFrames
  <2>2. \A k \in Frames :
           /\ call_stack_funcs[k].func \in LiveFuncs
           /\ call_stack_funcs[k].sub_funcs \subseteq LiveFuncs
           /\ call_stack_funcs[k].locals \in LiveLocals
           /\ locals[call_stack_funcs[k].locals].decl = func[call_stack_funcs[k].func].decl
    BY <1>1 DEF FramesAlive
  <2>3. \A j, k \in Frames : call_stack_funcs'[j].locals = call_stack_funcs'[k].locals => j = k
    BY <2>1, <1>1 DEF FramesAlive
  <2> QED BY <2>1, <2>2, <2>3, <1>7, <1>8, <1>9 DEF FramesAlive
<1>13. /\ stack' \in [capacity : Nat, values : Seq(Vals \cup {Null})]
       /\ stack'.capacity = C /\ stack'.values = stack.values
  BY <1>1, <1>3 DEF TypeOK
<1>14. FramesOrdered' /\ StackCoversFrame'
  BY <1>3, <1>6, <1>13, OrderKept
<1>15. TypeOK'
  <2>1. prog_refs' \in Nat
    BY <1>1, <1>3 DEF TypeOK
  <2>2. held' \subseteq LiveFuncs'
    BY <1>1, <1>3, <1>9 DEF TypeOK
  <2>3. call_stack_funcs' \in Seq(Frame)
    BY <1>6 DEF SameFrames
  <2> QED BY <2>1, <2>2, <2>3, <1>1, <1>3, <1>9, <1>13 DEF TypeOK
<1>16. PointersCurrent'
  <2>1. \A k \in Frames : /\ call_stack_funcs'[k].locals = call_stack_funcs[k].locals
                          /\ call_stack_funcs'[k].pos = call_stack_funcs[k].pos
    BY <1>6 DEF SameFrames
  <2>2. \A k \in Frames : locals'[call_stack_funcs'[k].locals].values =
                             InStack(stack'.capacity, call_stack_funcs'[k].pos)
    BY <2>1, <1>3, <1>13
  <2>3. stack_func_locals' = locals'[Top'.locals].values
    BY <1>3, <1>7 DEF s
  <2>4. ASSUME NEW x \in LiveLocals, \A k \in Frames : call_stack_funcs[k].locals # x
        PROVE  \/ locals'[x].decl \in Upvalue /\ \E y \in Vals \cup {Null} : locals'[x].values = OnHeap(y)
               \/ locals'[x].decl \notin Upvalue /\ locals'[x].values = Nil
    BY <2>4, <1>1, <1>4, <1>8 DEF PointersCurrent
  <2> QED BY <2>1, <2>2, <2>3, <2>4, <1>7, <1>8 DEF PointersCurrent
<1> QED BY <1>10, <1>11, <1>12, <1>14, <1>15, <1>16 DEF Inv, FramesCurrent

-----------------------------------------------------------------------------
(* Entering a function.                                                    *)

LEMMA NullSlots ==
  ASSUME NEW n \in Nat
  PROVE  Nulls(n) \in Seq(Vals \cup {Null}) /\ Len(Nulls(n)) = n
  BY DEF Nulls

\* Where a call may begin: above the variables of every frame.
MayStart(start, nested) ==
  /\ start \in Nat /\ start <= Len(stack.values)
  /\ \A k \in Frames : call_stack_funcs[k].pos + NumLocals <= start
  /\ nested => start = Len(stack.values)
  /\ ~nested => Running

\* What enter writes: the scope s, a reference to the scope of the function f, a frame, and
\* the slots from start on.
EnterStep(f, need, start, nested, s, C) ==
  /\ s \in Scopes \ LiveLocals
  /\ locals' \in [Scopes -> Scope \cup {NoLocals}]
  /\ locals'[s] # NoLocals /\ locals'[s].decl = func[f].decl /\ locals'[s].ref_count = 1
  /\ locals'[s].parents = IF func[f].locals = Nil THEN << >>
                          ELSE <<func[f].locals>> \o locals[func[f].locals].parents
  /\ locals'[s].values = InStack(C, start)
  /\ \A x \in Scopes \ {s} :
        /\ locals'[x] # NoLocals <=> locals[x] # NoLocals
        /\ locals[x] # NoLocals =>
              /\ locals'[x].decl = locals[x].decl /\ locals'[x].parents = locals[x].parents
              /\ locals'[x].ref_count = locals[x].ref_count + IF x = func[f].locals THEN 1 ELSE 0
        /\ (\A k \in Frames : call_stack_funcs[k].locals # x) => locals'[x].values = locals[x].values
  /\ \A k \in Frames : locals'[call_stack_funcs[k].locals].values = InStack(C, call_stack_funcs[k].pos)
  /\ call_stack_funcs' = Append(call_stack_funcs,
        [func |-> f, locals |-> s, pos |-> start,
         caller_size |-> IF nested THEN start + CallParams ELSE Len(stack.values),
         need |-> need, sub_funcs |-> {}, in_try |-> FALSE])
  /\ C \in Nat /\ C >= stack.capacity /\ C >= start + StackSize
  /\ stack' \in [capacity : Nat, values : Seq(Vals \cup {Null})] /\ stack'.capacity = C
  /\ Len(stack'.values) = start + StackSize
  /\ \A i \in 1 .. start : stack'.values[i] = stack.values[i]
  /\ prog_refs' = prog_refs + 1
  /\ ret_stack_funcs' = IF nested THEN Append(ret_stack_funcs, Len(call_stack_funcs)) ELSE ret_stack_funcs
  /\ reloadStackFunctionCache
  /\ UNCHANGED <<func, held, terminated, call_stack_overflow>>

LEMMA Enter ==
  ASSUME CallStackAssumption, Inv, NEW f \in LiveFuncs, NEW need \in Rets, NEW v \in Vals,
         NEW start, NEW nested \in BOOLEAN, MayStart(start, nested),
         enter(f, need, v, start, nested)
  PROVE  \E s, C : EnterStep(f, need, start, nested, s, C)
<1> DEFINE n == needed(start, need)
           C == NewCapacity(n)
           M == movedLocals(n)
           p == func[f].locals
           V == Vals \cup {Null}
<1>1. TypeOK /\ FramesAlive /\ ParentsAlive /\ start \in Nat /\ start <= Len(stack.values)
  BY DEF Inv, FramesCurrent, MayStart
<1>2. n \in Nat /\ n >= start + StackSize /\ C \in Nat /\ C >= n /\ C >= stack.capacity
  BY <1>1, Room
<1>3. C >= start + StackSize
  BY <1>1, <1>2, Sizes
<1>4. PICK s \in Scopes \ LiveLocals :
          /\ locals' = [x \in Scopes |->
                IF x = s THEN newLocals(f, start, C)
                ELSE IF x = p THEN [M[x] EXCEPT !.ref_count = @ + 1]
                ELSE M[x]]
          /\ call_stack_funcs' = Append(call_stack_funcs,
                [func |-> f, locals |-> s, pos |-> start,
                 caller_size |-> IF nested THEN start + CallParams ELSE Len(stack.values),
                 need |-> need, sub_funcs |-> {}, in_try |-> FALSE])
  BY DEF enter
<1>5. /\ prog_refs' = prog_refs + 1
      /\ stack' = [capacity |-> C,
                   values |-> SubSeq(stack.values, 1, start) \o Nulls(PRE_VARS) \o <<v>>
                                \o Nulls(StackSize - CallParams)]
      /\ ret_stack_funcs' = IF nested THEN Append(ret_stack_funcs, Len(call_stack_funcs))
                            ELSE ret_stack_funcs
      /\ reloadStackFunctionCache
      /\ UNCHANGED <<func, held, terminated, call_stack_overflow>>
  BY DEF enter
<1>6. /\ M \in [Scopes -> Scope \cup {NoLocals}]
      /\ \A x \in Scopes :
            /\ M[x] # NoLocals <=> locals[x] # NoLocals
            /\ M[x].decl = locals[x].decl
            /\ M[x].ref_count = locals[x].ref_count
            /\ M[x].parents = locals[x].parents
            /\ (\A k \in Frames : call_stack_funcs[k].locals # x) => M[x] = locals[x]
      /\ \A k \in Frames : M[call_stack_funcs[k].locals].values = InStack(C, call_stack_funcs[k].pos)
  BY <1>2, Grown
<1>7. p \in LiveLocals \cup {Nil} /\ func[f].decl \in Decls /\ f \in Funcs /\ LiveLocals \subseteq Scopes
  BY <1>1, Alive DEF ParentsAlive
<1> DEFINE o == M[p]
           np == [o EXCEPT !.ref_count = o.ref_count + 1]
           ns == newLocals(f, start, C)
<1>8. \A x \in Scopes : locals'[x] = IF x = s THEN ns ELSE IF x = p THEN np ELSE M[x]
  BY <1>4
<1>9. locals' = [x \in Scopes |-> locals'[x]]
  BY <1>4
<1>10. p # Nil => /\ np \in Scope /\ np.decl = o.decl /\ np.parents = o.parents /\ np.values = o.values
                  /\ np.ref_count = o.ref_count + 1
  <2>1. p # Nil => o \in Scope
    BY <1>6, <1>7 DEF LiveLocals
  <2> HIDE DEF o
  <2> QED BY <2>1 DEF Scope
<1>11. /\ ns \in Scope /\ ns.decl = func[f].decl /\ ns.ref_count = 1
       /\ ns.parents = IF p = Nil THEN << >> ELSE <<p>> \o locals[p].parents
       /\ ns.values = InStack(C, start)
  <2>1. InStack(C, start) \in Values
    BY <1>1, <1>2 DEF InStack, Values
  <2> DEFINE q == IF p = Nil THEN << >> ELSE <<p>> \o locals[p].parents
  <2>2. q \in Seq(Scopes)
    <3>1. CASE p = Nil
      BY <3>1
    <3>2. CASE p # Nil
      <4>1. locals[p].parents \in Seq(Scopes) /\ <<p>> \in Seq(Scopes)
        BY <3>2, <1>1, <1>7, Alive
      <4> QED BY <4>1, <3>2, ConcatProperties
    <3> QED BY <3>1, <3>2
  <2>3. ns = [decl |-> func[f].decl, ref_count |-> 1, parents |-> q, values |-> InStack(C, start)]
    BY DEF newLocals
  <2> HIDE DEF q, ns, C
  <2>4. ns \in Scope /\ ns.decl = func[f].decl /\ ns.ref_count = 1 /\ ns.parents = q
        /\ ns.values = InStack(C, start)
    BY <2>1, <2>2, <2>3, <1>7 DEF Scope
  <2> QED BY <2>4 DEF q
<1> HIDE DEF ns, np, M, C, n
<1>12. \A x \in Scope : x # NoLocals
  BY DEF Scope, NoLocals, CallStackAssumption
<1>13. locals' \in [Scopes -> Scope \cup {NoLocals}]
  <2>1. \A x \in Scopes : locals'[x] \in Scope \cup {NoLocals}
    BY <1>6, <1>8, <1>10, <1>11, <1>7 DEF CallStackAssumption
  <2> QED BY <2>1, <1>9
<1>14. /\ locals'[s] # NoLocals /\ locals'[s].decl = func[f].decl /\ locals'[s].ref_count = 1
       /\ locals'[s].parents = IF p = Nil THEN << >> ELSE <<p>> \o locals[p].parents
       /\ locals'[s].values = InStack(C, start)
  <2>1. locals'[s] = ns
    BY <1>4, <1>8
  <2> QED BY <2>1, <1>11, <1>12
<1>15. ASSUME NEW x \in Scopes, x # s
       PROVE  /\ locals'[x] # NoLocals <=> locals[x] # NoLocals
              /\ locals[x] # NoLocals =>
                    /\ locals'[x].decl = locals[x].decl /\ locals'[x].parents = locals[x].parents
                    /\ locals'[x].ref_count = locals[x].ref_count + IF x = p THEN 1 ELSE 0
              /\ (\A k \in Frames : call_stack_funcs[k].locals # x) => locals'[x].values = locals[x].values
              /\ locals'[x].values = M[x].values
  <2>1. CASE x = p
    <3>1. locals'[x] = np /\ p # Nil /\ locals[x] # NoLocals
      BY <2>1, <1>7, <1>8, <1>15 DEF LiveLocals, CallStackAssumption
    <3> QED BY <3>1, <2>1, <1>6, <1>10, <1>12
  <2>2. CASE x # p
    <3>1. locals'[x] = M[x]
      BY <2>2, <1>8, <1>15
    <3>2. locals[x] # NoLocals => locals[x].ref_count \in Nat
      BY <1>1, Alive DEF LiveLocals
    <3> QED BY <2>2, <3>1, <3>2, <1>6
  <2> QED BY <2>1, <2>2
<1>16. \A k \in Frames : locals'[call_stack_funcs[k].locals].values = InStack(C, call_stack_funcs[k].pos)
  BY <1>1, <1>4, <1>6, <1>15, Alive DEF FramesAlive
<1>17. /\ stack' \in [capacity : Nat, values : Seq(V)] /\ stack'.capacity = C
       /\ Len(stack'.values) = start + StackSize
       /\ \A i \in 1 .. start : stack'.values[i] = stack.values[i]
  <2> DEFINE a == SubSeq(stack.values, 1, start)
             b == Nulls(PRE_VARS)
             e == Nulls(StackSize - CallParams)
             w == a \o b \o <<v>> \o e
  <2>1. stack.values \in Seq(V) /\ StackSize - CallParams \in Nat /\ PRE_VARS \in Nat
    BY <1>1, Sizes DEF TypeOK
  <2>2. a \in Seq(V) /\ Len(a) = start /\ \A i \in 1 .. start : a[i] = stack.values[i]
    <3>1. \A i \in 1 .. start : stack.values[i] \in V
      BY <2>1, <1>1
    <3> QED BY <3>1, <1>1, SubSeqProperties
  <2>3. b \in Seq(V) /\ Len(b) = PRE_VARS /\ e \in Seq(V) /\ Len(e) = StackSize - CallParams
    BY <2>1, NullSlots
  <2>4. <<v>> \in Seq(V) /\ Len(<<v>>) = 1
    OBVIOUS
  <2> HIDE DEF a, b, e, V
  <2>5. a \o b \in Seq(V) /\ Len(a \o b) = start + 2 /\ \A i \in 1 .. start : (a \o b)[i] = a[i]
    BY <2>2, <2>3, <1>1, Sizes, ConcatProperties
  <2> DEFINE g == a \o b
  <2> HIDE DEF g
  <2>6. g \o <<v>> \in Seq(V) /\ Len(g \o <<v>>) = start + 3 /\ \A i \in 1 .. start : (g \o <<v>>)[i] = g[i]
    BY <2>4, <2>5, <1>1, ConcatProperties DEF g
  <2> DEFINE j == g \o <<v>>
  <2> HIDE DEF j
  <2>7. j \o e \in Seq(V) /\ Len(j \o e) = start + StackSize /\ \A i \in 1 .. start : (j \o e)[i] = j[i]
    <3>1. j \in Seq(V) /\ Len(j) = start + 3
      BY <2>6 DEF j
    <3>2. /\ j \o e \in Seq(V) /\ Len(j \o e) = Len(j) + Len(e)
          /\ \A i \in 1 .. Len(j) + Len(e) : (j \o e)[i] = IF i <= Len(j) THEN j[i] ELSE e[i - Len(j)]
      <4>1. j \in Seq(V) /\ e \in Seq(V)
        BY <3>1, <2>3
      <4> QED BY <4>1, ConcatProperties, Zenon
    <3>3. StackSize \in Nat /\ StackSize >= 6 /\ CallParams = 3
      BY Sizes
    <3>4. Len(j) + Len(e) = start + StackSize
      BY <3>1, <3>3, <2>3, <1>1
    <3>5. \A i \in 1 .. start : i \in 1 .. start + StackSize /\ i <= start + 3
      BY <3>3, <1>1
    <3> HIDE DEF w
    <3> QED BY <3>1, <3>2, <3>4, <3>5
  <2>8. w = j \o e /\ w \in Seq(V) /\ Len(w) = start + StackSize /\ \A i \in 1 .. start : w[i] = stack.values[i]
    BY <2>2, <2>5, <2>6, <2>7 DEF j, g
  <2>9. stack' = [capacity |-> C, values |-> w]
    BY <1>5 DEF a, b, e
  <2> HIDE DEF w
  <2> QED BY <2>8, <2>9, <1>2
<1>18. EnterStep(f, need, start, nested, s, C)
  <2> HIDE DEF reloadStackFunctionCache
  <2> QED BY <1>2, <1>3, <1>4, <1>5, <1>13, <1>14, <1>15, <1>16, <1>17 DEF EnterStep
<1> QED BY <1>18

\* What is behind the i-th element of a sequence with one element more in front.
LEMMA Pushed ==
  ASSUME NEW S, NEW p \in S, NEW q \in Seq(S)
  PROVE  LET r == <<p>> \o q IN
         /\ r \in Seq(S) /\ Len(r) = Len(q) + 1 /\ r # << >> /\ Head(r) = p
         /\ \A i \in 1 .. Len(q) + 1 : /\ r[i] = IF i = 1 THEN p ELSE q[i - 1]
                                       /\ SubSeq(r, i + 1, Len(r)) = SubSeq(q, i, Len(q))
<1> DEFINE r == <<p>> \o q
           m == Len(q)
<1>1. m \in Nat
  OBVIOUS
<1>2. r \in Seq(S) /\ Len(r) = m + 1 /\ \A i \in 1 .. m + 1 : r[i] = IF i = 1 THEN p ELSE q[i - 1]
  OBVIOUS
<1> HIDE DEF r
<1>3. r # << >> /\ Head(r) = p
  <2>1. Len(r) # 0 /\ r[1] = p
    BY <1>1, <1>2
  <2> QED BY <2>1, <1>2
<1>4. ASSUME NEW i \in 1 .. m + 1
      PROVE  SubSeq(r, i + 1, m + 1) = SubSeq(q, i, m)
  <2> DEFINE a == SubSeq(r, i + 1, m + 1)
             b == SubSeq(q, i, m)
  <2>1. /\ a \in Seq(S) /\ Len(a) = IF i + 1 <= m + 1 THEN m + 1 - (i + 1) + 1 ELSE 0
        /\ \A j \in 1 .. m + 1 - (i + 1) + 1 : a[j] = r[i + 1 + j - 1]
    <3>1. \A j \in i + 1 .. m + 1 : r[j] \in S
      BY <1>1, <1>2
    <3> QED BY <3>1, <1>1, SubSeqProperties
  <2>2. /\ b \in Seq(S) /\ Len(b) = IF i <= m THEN m - i + 1 ELSE 0
        /\ \A j \in 1 .. m - i + 1 : b[j] = q[i + j - 1]
    <3>1. \A j \in i .. m : q[j] \in S
      BY <1>1
    <3> QED BY <3>1, <1>1, SubSeqProperties
  <2> HIDE DEF a, b, m
  <2>3. Len(a) = m - i + 1 /\ Len(b) = m - i + 1 /\ m - i + 1 \in Nat
    BY <2>1, <2>2, <1>1
  <2>4. ASSUME NEW j \in 1 .. m - i + 1 PROVE a[j] = b[j]
    <3>1. a[j] = r[i + j] /\ b[j] = q[i + j - 1]
      BY <2>1, <2>2, <1>1
    <3>2. i + j \in 1 .. m + 1 /\ i + j # 1
      BY <1>1
    <3>3. r[i + j] = q[i + j - 1]
      BY <3>2, <1>2
    <3> QED BY <3>1, <3>3
  <2>5. a = b
    BY <2>1, <2>2, <2>3, <2>4, SeqEqual
  <2> QED BY <2>5 DEF a, b
<1> QED BY <1>2, <1>3, <1>4 DEF r

\* The frames after a call.
Pushes(fr) == fr \in Frame /\ call_stack_funcs' = Append(call_stack_funcs, fr)

LEMMA FramePushed ==
  ASSUME TypeOK, NEW fr, Pushes(fr)
  PROVE  LET h == Len(call_stack_funcs) IN
         /\ call_stack_funcs' \in Seq(Frame) /\ Len(call_stack_funcs') = h + 1
         /\ Frames' = Frames \cup {h + 1} /\ h + 1 \notin Frames
         /\ \A k \in Frames : call_stack_funcs'[k] = call_stack_funcs[k]
         /\ call_stack_funcs'[h + 1] = fr
         /\ Running' /\ Top' = fr
<1> DEFINE h == Len(call_stack_funcs)
<1>0. fr \in Frame /\ call_stack_funcs' = Append(call_stack_funcs, fr)
  BY DEF Pushes
<1>1. call_stack_funcs \in Seq(Frame) /\ h \in Nat /\ Frames = 1 .. h
  BY DEF TypeOK, Frames
<1>2. /\ call_stack_funcs' \in Seq(Frame) /\ Len(call_stack_funcs') = h + 1
      /\ call_stack_funcs' # << >>
      /\ \A k \in 1 .. h : call_stack_funcs'[k] = call_stack_funcs[k]
      /\ call_stack_funcs'[h + 1] = fr
  BY <1>0, <1>1, AppendProperties
<1>3. Frames' = 1 .. h + 1
  BY <1>2 DEF Frames
<1>4. 1 .. h + 1 = (1 .. h) \cup {h + 1} /\ h + 1 \notin 1 .. h
  <2> HIDE DEF h
  <2> QED BY <1>1
<1> QED BY <1>1, <1>2, <1>3, <1>4 DEF Running, Top, Last

\* The new scope has the reference of its frame, the scope around it one more.
LEMMA EnterObjects ==
  ASSUME CallStackAssumption, Inv, NEW f \in LiveFuncs, NEW need \in Rets, NEW start,
         NEW nested \in BOOLEAN, NEW s, NEW C, EnterStep(f, need, start, nested, s, C),
         NEW fr, Pushes(fr), fr.func = f, fr.locals = s, fr.sub_funcs = {}
  PROVE  CountsExact' /\ ParentsAlive' /\ FramesAlive'
<1> DEFINE h == Len(call_stack_funcs)
           p == func[f].locals
<1>1. TypeOK /\ CountsExact /\ ParentsAlive /\ FramesAlive
  BY DEF Inv, FramesCurrent
<1>2. /\ Frames' = Frames \cup {h + 1} /\ h + 1 \notin Frames
      /\ \A k \in Frames : call_stack_funcs'[k] = call_stack_funcs[k]
      /\ call_stack_funcs'[h + 1] = fr
  BY <1>1, FramePushed
<1>3. /\ s \in Scopes /\ s \notin LiveLocals /\ func' = func
      /\ locals'[s] # NoLocals /\ locals'[s].decl = func[f].decl /\ locals'[s].ref_count = 1
      /\ locals'[s].parents = IF p = Nil THEN << >> ELSE <<p>> \o locals[p].parents
      /\ prog_refs' = prog_refs + 1
  BY DEF EnterStep
<1>4. \A x \in Scopes \ {s} :
        /\ locals'[x] # NoLocals <=> locals[x] # NoLocals
        /\ locals[x] # NoLocals =>
              /\ locals'[x].decl = locals[x].decl /\ locals'[x].parents = locals[x].parents
              /\ locals'[x].ref_count = locals[x].ref_count + IF x = p THEN 1 ELSE 0
  BY DEF EnterStep
<1>5. LiveLocals' = LiveLocals \cup {s} /\ LiveFuncs' = LiveFuncs /\ LiveLocals \subseteq Scopes
      /\ LiveFuncs \subseteq Funcs
  BY <1>3, <1>4 DEF LiveLocals, LiveFuncs
<1>6. p \in LiveLocals \cup {Nil} /\ Outer[func[f].decl] = IF p = Nil THEN Nil ELSE locals[p].decl
  BY <1>1 DEF ParentsAlive
<1>7. \A x \in LiveLocals :
        /\ x # s /\ locals'[x].decl = locals[x].decl /\ locals'[x].parents = locals[x].parents
        /\ locals'[x].ref_count = locals[x].ref_count + IF x = p THEN 1 ELSE 0
        /\ Parent(x)' = Parent(x)
  BY <1>3, <1>4, <1>5 DEF LiveLocals, Parent
<1>8. Parent(s)' = p /\ (p # Nil => locals[p].parents \in Seq(Scopes) /\ p \in Scopes)
  <2>1. Parent(s)' = IF locals'[s].parents = << >> THEN Nil ELSE Head(locals'[s].parents)
    BY DEF Parent
  <2>2. CASE p = Nil
    BY <2>1, <2>2, <1>3
  <2>3. CASE p # Nil
    <3>1. p \in LiveLocals /\ p \in Scopes /\ locals[p].parents \in Seq(Scopes)
      BY <2>3, <1>1, <1>6, Alive
    <3> DEFINE r == <<p>> \o locals[p].parents
    <3>2. r # << >> /\ Head(r) = p
      BY <3>1, Pushed
    <3>3. locals'[s].parents = r
      BY <2>3, <1>3
    <3> HIDE DEF r
    <3> QED BY <3>1, <3>2, <3>3, <2>1
  <2> QED BY <2>2, <2>3
<1> HIDE DEF p, h
<1>9. CountsExact'
  <2>1. ASSUME NEW x \in LiveLocals
        PROVE  /\ FrameRefs(x)' = FrameRefs(x) /\ FuncRefs(x)' = FuncRefs(x)
               /\ ScopeRefs(x)' = IF x = p THEN ScopeRefs(x) \cup {s} ELSE ScopeRefs(x)
    <3>1. FrameRefs(x)' = FrameRefs(x)
      BY <1>2, <1>7 DEF FrameRefs
    <3>2. FuncRefs(x)' = FuncRefs(x)
      BY <1>3, <1>5 DEF FuncRefs
    <3>3. ScopeRefs(x)' = IF x = p THEN ScopeRefs(x) \cup {s} ELSE ScopeRefs(x)
      BY <1>5, <1>7, <1>8 DEF ScopeRefs
    <3> QED BY <3>1, <3>2, <3>3
  <2>2. ASSUME NEW x \in LiveLocals
        PROVE  locals'[x].ref_count = Cardinality(FrameRefs(x)') + Cardinality(FuncRefs(x)')
                                        + Cardinality(ScopeRefs(x)')
    <3>1. /\ Cardinality(FrameRefs(x)) \in Nat /\ Cardinality(FuncRefs(x)) \in Nat
          /\ Cardinality(ScopeRefs(x)) \in Nat /\ IsFiniteSet(ScopeRefs(x))
      BY <1>1, Refs
    <3>2. locals[x].ref_count = Cardinality(FrameRefs(x)) + Cardinality(FuncRefs(x))
                                   + Cardinality(ScopeRefs(x))
      BY <1>1 DEF CountsExact
    <3>3. x = p => Cardinality(ScopeRefs(x)') = Cardinality(ScopeRefs(x)) + 1
      <4>1. s \notin ScopeRefs(x)
        BY <1>3 DEF ScopeRefs
      <4> QED BY <4>1, <3>1, <2>1, FS_AddElement
    <3> QED BY <3>1, <3>2, <3>3, <2>1, <1>7
  <2>3. locals'[s].ref_count = Cardinality(FrameRefs(s)') + Cardinality(FuncRefs(s)')
                                 + Cardinality(ScopeRefs(s)')
    <3>1. FrameRefs(s)' = {h + 1}
      <4>1. \A k \in Frames : call_stack_funcs[k].locals # s
        BY <1>1, <1>3 DEF FramesAlive
      <4> QED BY <4>1, <1>2 DEF FrameRefs
    <3>2. FuncRefs(s)' = {}
      <4>1. \A g \in LiveFuncs : func[g].locals # s
        BY <1>1, <1>3 DEF ParentsAlive, CallStackAssumption
      <4> QED BY <4>1, <1>3, <1>5 DEF FuncRefs
    <3>3. ScopeRefs(s)' = {}
      <4>1. \A x \in LiveLocals : Parent(x) # s
        BY <1>1, <1>3, Around DEF CallStackAssumption
      <4>2. p # s
        BY <1>3, <1>6 DEF CallStackAssumption
      <4> QED BY <4>1, <4>2, <1>5, <1>7, <1>8 DEF ScopeRefs
    <3>4. Cardinality({h + 1}) = 1 /\ Cardinality({}) = 0
      BY FS_Singleton, FS_EmptySet
    <3> QED BY <3>1, <3>2, <3>3, <3>4, <1>3
  <2>4. Cardinality(LiveLocals') = Cardinality(LiveLocals) + 1 /\ Cardinality(LiveLocals) \in Nat
    <3>1. IsFiniteSet(LiveLocals)
      BY <1>5, FS_Subset DEF CallStackAssumption
    <3> QED BY <3>1, <1>3, <1>5, FS_AddElement, FS_CardinalityType
  <2>5. Cardinality(LiveFuncs) \in Nat
    BY <1>5, FS_Subset, FS_CardinalityType DEF CallStackAssumption
  <2>6. prog_refs' = Cardinality(LiveFuncs') + Cardinality(LiveLocals')
    BY <2>4, <2>5, <1>1, <1>3, <1>5 DEF CountsExact
  <2> QED BY <2>2, <2>3, <2>6, <1>5 DEF CountsExact
<1>10. ParentsAlive'
  <2>1. \A x \in LiveLocals : KeptScope(x)
    BY <1>5, <1>7 DEF KeptScope
  <2>2. ASSUME NEW x \in LiveLocals PROVE Linked(x)'
    <3>1. \A i \in DOMAIN locals[x].parents : KeptScope(locals[x].parents[i])
      BY <2>1, <1>1 DEF ParentsAlive
    <3> QED BY <3>1, <2>1, <1>1, LinksKept
  <2>3. ASSUME NEW g \in LiveFuncs PROVE FuncLinked(g)'
    BY <1>1, <1>3, <1>5, <1>7 DEF ParentsAlive, FuncLinked
  <2>4. Linked(s)'
    <3>1. Outer[locals'[s].decl] = IF Parent(s)' = Nil THEN Nil ELSE locals'[Parent(s)'].decl
      BY <1>3, <1>6, <1>7, <1>8
    <3>2. ASSUME NEW i \in DOMAIN locals'[s].parents
          PROVE  /\ locals'[s].parents[i] \in LiveLocals'
                 /\ locals'[locals'[s].parents[i]].parents
                       = SubSeq(locals'[s].parents, i + 1, Len(locals'[s].parents))
      <4>1. CASE p = Nil
        <5>1. locals'[s].parents = << >>
          BY <4>1, <1>3
        <5> QED BY <5>1
      <4>2. CASE p # Nil
        <5> DEFINE q == locals[p].parents
                   r == locals'[s].parents
        <5>1. p \in LiveLocals /\ p \in Scopes /\ q \in Seq(Scopes) /\ Linked(p) /\ locals'[p].parents = q
          BY <4>2, <1>1, <1>6, <1>7, <1>8 DEF ParentsAlive, Linked
        <5>2. r = <<p>> \o q
          BY <4>2, <1>3
        <5>3. \A j \in DOMAIN q : q[j] \in LiveLocals /\ locals[q[j]].parents = SubSeq(q, j + 1, Len(q))
          BY <5>1 DEF Linked
        <5> HIDE DEF q, r
        <5>4. /\ r \in Seq(Scopes) /\ Len(r) = Len(q) + 1
              /\ \A j \in 1 .. Len(q) + 1 : /\ r[j] = IF j = 1 THEN p ELSE q[j - 1]
                                            /\ SubSeq(r, j + 1, Len(r)) = SubSeq(q, j, Len(q))
          BY <5>1, <5>2, Pushed
        <5>5. i \in 1 .. Len(q) + 1 /\ Len(q) \in Nat /\ DOMAIN q = 1 .. Len(q)
          BY <5>1, <5>4, <3>2 DEF r
        <5>6. CASE i = 1
          <6>1. r[i] = p /\ SubSeq(r, i + 1, Len(r)) = SubSeq(q, 1, Len(q))
            BY <5>4, <5>5, <5>6
          <6>2. SubSeq(q, 1, Len(q)) = q
            BY <5>1, SubSeqFull
          <6> QED BY <6>1, <6>2, <5>1, <1>5 DEF r
        <5>7. CASE i # 1
          <6> DEFINE j == i - 1
          <6>1. j \in 1 .. Len(q) /\ j + 1 = i
            BY <5>5, <5>7
          <6>2. r[i] = q[j] /\ SubSeq(r, i + 1, Len(r)) = SubSeq(q, i, Len(q))
            BY <5>4, <5>5, <5>7
          <6> HIDE DEF j
          <6>3. q[j] \in LiveLocals /\ locals[q[j]].parents = SubSeq(q, i, Len(q))
            BY <5>3, <5>5, <6>1
          <6>4. locals'[q[j]].parents = locals[q[j]].parents
            BY <6>3, <1>7
          <6> QED BY <6>2, <6>3, <6>4, <1>5 DEF r
        <5> QED BY <5>6, <5>7
      <4> QED BY <4>1, <4>2
    <3> QED BY <3>1, <3>2 DEF Linked
  <2> QED BY <2>2, <2>3, <2>4, <1>5 DEF ParentsAlive, Linked, FuncLinked
<1>11. FramesAlive'
  <2>1. ASSUME NEW k \in Frames
        PROVE  /\ call_stack_funcs[k].func \in LiveFuncs
               /\ call_stack_funcs[k].sub_funcs \subseteq LiveFuncs
               /\ call_stack_funcs[k].locals \in LiveLocals
               /\ locals'[call_stack_funcs[k].locals].decl = func[call_stack_funcs[k].func].decl
    BY <1>1, <1>7 DEF FramesAlive
  <2>2. \A j, k \in Frames' : call_stack_funcs'[j].locals = call_stack_funcs'[k].locals => j = k
    <3>1. \A k \in Frames : call_stack_funcs[k].locals # s
      BY <2>1, <1>3
    <3>2. \A j, k \in Frames : call_stack_funcs[j].locals = call_stack_funcs[k].locals => j = k
      BY <1>1 DEF FramesAlive
    <3> QED BY <3>1, <3>2, <1>2
  <2> QED BY <2>1, <2>2, <1>2, <1>3, <1>5 DEF FramesAlive
<1> QED BY <1>9, <1>10, <1>11

\* What FramesOrdered says of one frame.
Ordered(k) ==
  LET below == IF k = 1 THEN 0 ELSE call_stack_funcs[k - 1].pos + StackSize IN
  /\ call_stack_funcs[k].pos <= call_stack_funcs[k].caller_size
  /\ call_stack_funcs[k].caller_size <= stack.capacity
  /\ below <= IF NestedFrame(k) THEN call_stack_funcs[k].pos ELSE call_stack_funcs[k].caller_size

\* The new frame is behind the others, and its stack is as high as it needs.
LEMMA EnterOrder ==
  ASSUME CallStackAssumption, Inv, NEW f, NEW need, NEW start,
         NEW nested \in BOOLEAN, MayStart(start, nested), NEW s, NEW C,
         EnterStep(f, need, start, nested, s, C),
         NEW fr, Pushes(fr), fr.pos = start,
         fr.caller_size = IF nested THEN start + CallParams ELSE Len(stack.values)
  PROVE  FramesOrdered' /\ StackCoversFrame' /\ ret_stack_funcs' \in Seq(Nat)
<1> DEFINE h == Len(call_stack_funcs)
           R == ret_stack_funcs
<1>1. TypeOK /\ FramesOrdered /\ StackCoversFrame
  BY DEF Inv, FramesCurrent
<1>2. /\ Frames' = Frames \cup {h + 1} /\ h + 1 \notin Frames
      /\ \A k \in Frames : call_stack_funcs'[k] = call_stack_funcs[k]
      /\ call_stack_funcs'[h + 1] = fr /\ Len(call_stack_funcs') = h + 1
      /\ Running' /\ Top' = fr
  BY <1>1, FramePushed
<1>3. /\ C \in Nat /\ C >= stack.capacity /\ C >= start + StackSize
      /\ stack'.capacity = C /\ Len(stack'.values) = start + StackSize
      /\ ret_stack_funcs' = IF nested THEN Append(R, h) ELSE R
  BY DEF EnterStep
<1>4. /\ start \in Nat /\ start <= Len(stack.values)
      /\ \A k \in Frames : call_stack_funcs[k].pos + NumLocals <= start
      /\ nested => start = Len(stack.values)
      /\ ~nested => Running
  BY DEF MayStart
<1>5. stack.capacity \in Nat /\ Len(stack.values) \in Nat /\ R \in Seq(Nat)
  BY <1>1 DEF TypeOK
<1>6. /\ h \in Nat /\ Frames = 1 .. h /\ (Running <=> h # 0) /\ Top = call_stack_funcs[h]
      /\ \A k \in Frames : call_stack_funcs[k].pos \in Nat /\ call_stack_funcs[k].caller_size \in Nat
  BY <1>1, Calls
<1>7. NumLocals = 3 /\ CallParams = 3 /\ StackSize \in Nat /\ StackSize >= 6
  BY Sizes
<1>8. /\ \A i \in DOMAIN R : R[i] < h /\ R[i] \in Nat
      /\ \A i, j \in DOMAIN R : i < j => R[i] < R[j]
      /\ Running => NestedFrame(1)
  BY <1>1, <1>5 DEF FramesOrdered
<1>9. /\ Running => Len(stack.values) >= call_stack_funcs[h].pos + StackSize
      /\ Len(stack.values) <= stack.capacity
  BY <1>1, <1>6 DEF StackCoversFrame
<1>10. /\ ret_stack_funcs' \in Seq(Nat)
       /\ ToSet(ret_stack_funcs') = IF nested THEN ToSet(R) \cup {h} ELSE ToSet(R)
       /\ \A i \in DOMAIN ret_stack_funcs' : ret_stack_funcs'[i] < h + 1
       /\ \A i, j \in DOMAIN ret_stack_funcs' : i < j => ret_stack_funcs'[i] < ret_stack_funcs'[j]
  <2>1. CASE ~nested
    <3>1. ret_stack_funcs' = R
      BY <2>1, <1>3
    <3> HIDE DEF R, h
    <3> QED BY <2>1, <3>1, <1>5, <1>6, <1>8
  <2>2. CASE nested
    <3> DEFINE m == Len(R)
    <3>1. ret_stack_funcs' = Append(R, h) /\ m \in Nat /\ DOMAIN R = 1 .. m
      BY <2>2, <1>3, <1>5
    <3>2. /\ ret_stack_funcs' \in Seq(Nat) /\ Len(ret_stack_funcs') = m + 1
          /\ \A i \in 1 .. m : ret_stack_funcs'[i] = R[i]
          /\ ret_stack_funcs'[m + 1] = h
      BY <3>1, <1>5, <1>6, AppendProperties
    <3>3. DOMAIN ret_stack_funcs' = 1 .. m + 1 /\ 1 .. m + 1 = (1 .. m) \cup {m + 1}
      <4>1. DOMAIN ret_stack_funcs' = 1 .. m + 1
        BY <3>2
      <4> HIDE DEF m
      <4> QED BY <4>1, <3>1
    <3> HIDE DEF m, R, h
    <3>4. ToSet(ret_stack_funcs') = ToSet(R) \cup {h}
      BY <3>1, <3>2, <3>3 DEF ToSet
    <3>5. \A i \in DOMAIN ret_stack_funcs' : ret_stack_funcs'[i] < h + 1
      BY <3>1, <3>2, <3>3, <1>6, <1>8
    <3>6. ASSUME NEW i \in 1 .. m + 1, NEW j \in 1 .. m + 1, i < j
          PROVE  ret_stack_funcs'[i] < ret_stack_funcs'[j]
      <4>1. i \in 1 .. m /\ (j \in 1 .. m \/ j = m + 1)
        BY <3>6, <3>1
      <4> QED BY <4>1, <3>1, <3>2, <3>6, <1>8
    <3> QED BY <2>2, <3>2, <3>3, <3>4, <3>5, <3>6
  <2> QED BY <2>1, <2>2
<1> HIDE DEF R, h
<1>11. PICK t \in Nat : t = h + 1
  BY <1>6
<1>12. /\ \A k \in Frames : NestedFrame(k)' = NestedFrame(k)
       /\ NestedFrame(t)' = nested
       /\ NestedFrame(1)'
  <2>1. \A k : NestedFrame(k)' <=> k - 1 \in ToSet(ret_stack_funcs')
    BY DEF NestedFrame
  <2>2. \A k : NestedFrame(k) <=> k - 1 \in ToSet(R)
    BY DEF NestedFrame, R
  <2>3. \A x \in ToSet(R) : x < h /\ x \in Nat
    BY <1>8 DEF ToSet
  <2>4. ASSUME NEW k \in Frames PROVE NestedFrame(k)' <=> NestedFrame(k)
    <3>1. k - 1 # h
      BY <1>6
    <3> QED BY <3>1, <2>1, <2>2, <1>10
  <2>5. NestedFrame(t)' <=> nested
    <3>1. t - 1 = h /\ h \notin ToSet(R)
      BY <2>3, <1>6, <1>11
    <3> QED BY <3>1, <2>1, <1>10
  <2>6. NestedFrame(1)'
    <3>1. CASE Running
      <4>1. 1 \in Frames
        BY <3>1, <1>6
      <4> QED BY <4>1, <3>1, <2>4, <1>8
    <3>2. CASE ~Running
      <4>1. nested /\ h = 0 /\ 1 - 1 = 0
        BY <3>2, <1>4, <1>6
      <4> QED BY <4>1, <2>1, <1>10
    <3> QED BY <3>1, <3>2
  <2>7. /\ \A k \in Frames : NestedFrame(k)' = NestedFrame(k)
        /\ NestedFrame(t)' = nested
    BY <2>4, <2>5 DEF NestedFrame
  <2> QED BY <2>6, <2>7
<1>13. ASSUME NEW k \in Frames
       PROVE  Ordered(k)'
  <2> DEFINE below == IF k = 1 THEN 0 ELSE call_stack_funcs[k - 1].pos + StackSize
  <2>1. /\ call_stack_funcs[k].pos <= call_stack_funcs[k].caller_size
        /\ call_stack_funcs[k].caller_size <= stack.capacity
        /\ below <= IF NestedFrame(k) THEN call_stack_funcs[k].pos ELSE call_stack_funcs[k].caller_size
    BY <1>1 DEF FramesOrdered
  <2>2. k = 1 \/ k - 1 \in Frames
    BY <1>6
  <2>3. below = IF k = 1 THEN 0 ELSE call_stack_funcs'[k - 1].pos + StackSize
    BY <2>2, <1>2
  <2>4. call_stack_funcs[k].caller_size <= C
    BY <2>1, <1>3, <1>5, <1>6
  <2> QED BY <2>1, <2>3, <2>4, <1>2, <1>3, <1>12 DEF Ordered
<1>14. Ordered(t)'
  <2> DEFINE below == IF t = 1 THEN 0 ELSE call_stack_funcs'[t - 1].pos + StackSize
             L == Len(stack.values)
             cs == IF nested THEN start + 3 ELSE L
  <2>1. below \in Nat /\ below <= L
    <3>1. CASE h = 0
      BY <3>1, <1>5, <1>11
    <3>2. CASE h # 0
      <4>1. t # 1 /\ t - 1 = h /\ h \in Frames
        BY <3>2, <1>6, <1>11
      <4>2. below = call_stack_funcs[h].pos + StackSize
        BY <4>1, <1>2
      <4>3. below \in Nat
        BY <4>1, <4>2, <1>6, <1>7
      <4>4. L >= call_stack_funcs[h].pos + StackSize
        BY <3>2, <1>6, <1>9
      <4> QED BY <4>2, <4>3, <4>4, <1>5
    <3> QED BY <3>1, <3>2
  <2> HIDE DEF below
  <2>2. start <= cs /\ cs <= C
    BY <1>3, <1>4, <1>5, <1>7, <1>9
  <2>3. below <= IF nested THEN start ELSE cs
    BY <2>1, <1>4
  <2>4. fr.pos = start /\ fr.caller_size = cs
    BY <1>7
  <2> HIDE DEF cs, L
  <2>5. /\ call_stack_funcs'[t].pos = start /\ call_stack_funcs'[t].caller_size = cs
        /\ stack'.capacity = C
        /\ below <= IF NestedFrame(t)' THEN start ELSE cs
    BY <2>3, <2>4, <1>2, <1>3, <1>12, <1>11
  <2>6. below = IF t = 1 THEN 0 ELSE call_stack_funcs'[t - 1].pos + StackSize
    BY DEF below
  <2> QED BY <2>2, <2>5, <2>6 DEF Ordered
<1>15. ASSUME NEW j \in Frames', NEW k \in Frames', j < k
       PROVE  call_stack_funcs'[j].pos + NumLocals <= call_stack_funcs'[k].pos
  <2>1. j \in Frames
    BY <1>2, <1>6, <1>15
  <2>2. CASE k \in Frames
    BY <2>1, <2>2, <1>1, <1>2, <1>15 DEF FramesOrdered
  <2>3. CASE k = h + 1
    BY <2>1, <2>3, <1>2, <1>4
  <2> QED BY <2>2, <2>3, <1>2
<1>16. FramesOrdered'
  <2>1. \A k \in Frames' : Ordered(k)'
    BY <1>2, <1>13, <1>14, <1>11
  <2> QED BY <2>1, <1>2, <1>10, <1>12, <1>15 DEF FramesOrdered, Ordered
<1>17. StackCoversFrame'
  BY <1>2, <1>3, <1>4, <1>7 DEF StackCoversFrame
<1> QED BY <1>10, <1>16, <1>17

LEMMA EnterKeeps ==
  ASSUME CallStackAssumption, Inv, NEW f \in LiveFuncs, NEW need \in Rets, NEW start,
         NEW nested \in BOOLEAN, MayStart(start, nested), NEW s, NEW C,
         EnterStep(f, need, start, nested, s, C)
  PROVE  Inv'
<1> DEFINE fr == [func |-> f, locals |-> s, pos |-> start,
                  caller_size |-> IF nested THEN start + CallParams ELSE Len(stack.values),
                  need |-> need, sub_funcs |-> {}, in_try |-> FALSE]
<1>1. TypeOK /\ PointersCurrent /\ FramesAlive
  BY DEF Inv, FramesCurrent
<1>2. start \in Nat /\ Len(stack.values) \in Nat /\ f \in Funcs /\ s \in Scopes /\ s \notin LiveLocals
  BY <1>1, Alive DEF MayStart, EnterStep, TypeOK
<1>3. call_stack_funcs' = Append(call_stack_funcs, fr)
  BY DEF EnterStep
<1>4. /\ fr.func = f /\ fr.locals = s /\ fr.sub_funcs = {} /\ fr.pos = start
      /\ fr.caller_size = IF nested THEN start + CallParams ELSE Len(stack.values)
      /\ fr \in Frame
  <2> DEFINE cs == IF nested THEN start + CallParams ELSE Len(stack.values)
  <2>1. cs \in Nat
    BY <1>2, Sizes
  <2>2. FALSE \in BOOLEAN /\ {} \in SUBSET Funcs
    OBVIOUS
  <2>3. fr = [func |-> f, locals |-> s, pos |-> start, caller_size |-> cs,
              need |-> need, sub_funcs |-> {}, in_try |-> FALSE]
    OBVIOUS
  <2> HIDE DEF cs, fr
  <2>4. /\ fr.func = f /\ fr.locals = s /\ fr.sub_funcs = {} /\ fr.pos = start
        /\ fr.caller_size = cs
        /\ fr \in Frame
    BY <2>1, <2>2, <2>3, <1>2 DEF Frame
  <2> QED BY <2>4 DEF cs
<1> HIDE DEF fr
<1>5. Pushes(fr)
  BY <1>3, <1>4 DEF Pushes
<1>6. CountsExact' /\ ParentsAlive' /\ FramesAlive'
  BY <1>4, <1>5, EnterObjects
<1>7. FramesOrdered' /\ StackCoversFrame' /\ ret_stack_funcs' \in Seq(Nat)
  BY <1>4, <1>5, EnterOrder
<1>8. /\ Frames' = Frames \cup {Len(call_stack_funcs) + 1}
      /\ \A k \in Frames : call_stack_funcs'[k] = call_stack_funcs[k]
      /\ call_stack_funcs'[Len(call_stack_funcs) + 1] = fr
      /\ Running' /\ Top' = fr /\ call_stack_funcs' \in Seq(Frame)
  BY <1>1, <1>5, FramePushed
<1>9. /\ locals' \in [Scopes -> Scope \cup {NoLocals}]
      /\ stack' \in [capacity : Nat, values : Seq(Vals \cup {Null})] /\ stack'.capacity = C
      /\ prog_refs' = prog_refs + 1
      /\ UNCHANGED <<func, held, terminated, call_stack_overflow>>
      /\ locals'[s].values = InStack(C, start)
      /\ \A k \in Frames : locals'[call_stack_funcs[k].locals].values = InStack(C, call_stack_funcs[k].pos)
      /\ stack_func_locals' = IF call_stack_funcs' = << >> THEN Nil
                              ELSE locals'[Last(call_stack_funcs').locals].values
  BY DEF EnterStep, reloadStackFunctionCache
<1>10. \A x \in Scopes \ {s} :
          /\ locals'[x] # NoLocals <=> locals[x] # NoLocals
          /\ locals[x] # NoLocals => locals'[x].decl = locals[x].decl
          /\ (\A k \in Frames : call_stack_funcs[k].locals # x) => locals'[x].values = locals[x].values
  BY DEF EnterStep
<1>11. TypeOK'
  <2>1. prog_refs' \in Nat
    BY <1>1, <1>9 DEF TypeOK
  <2> QED BY <2>1, <1>1, <1>7, <1>8, <1>9 DEF TypeOK, LiveFuncs
<1>12. PointersCurrent'
  <2>1. \A k \in Frames' : locals'[call_stack_funcs'[k].locals].values =
                              InStack(stack'.capacity, call_stack_funcs'[k].pos)
    BY <1>4, <1>8, <1>9
  <2>2. stack_func_locals' = IF Running' THEN locals'[Top'.locals].values ELSE Nil
    BY <1>8, <1>9 DEF Running, Top
  <2>3. ASSUME NEW x \in LiveLocals', \A k \in Frames' : call_stack_funcs'[k].locals # x
        PROVE  \/ locals'[x].decl \in Upvalue /\ \E y \in Vals \cup {Null} : locals'[x].values = OnHeap(y)
               \/ locals'[x].decl \notin Upvalue /\ locals'[x].values = Nil
    <3>1. x # s /\ \A k \in Frames : call_stack_funcs[k].locals # x
      BY <2>3, <1>4, <1>8
    <3>2. x \in LiveLocals /\ locals'[x].decl = locals[x].decl /\ locals'[x].values = locals[x].values
      BY <3>1, <1>10 DEF LiveLocals
    <3> QED BY <3>1, <3>2, <1>1 DEF PointersCurrent
  <2> QED BY <2>1, <2>2, <2>3 DEF PointersCurrent
<1> QED BY <1>6, <1>7, <1>11, <1>12 DEF Inv, FramesCurrent

\* OP_CALL and calls from C++ code.
LEMMA CallStarts ==
  ASSUME CallStackAssumption, Inv
  PROVE  Running => MayStart(Top.pos + NumLocals, FALSE)
<1> SUFFICES ASSUME Running PROVE MayStart(Top.pos + NumLocals, FALSE)
  OBVIOUS
<1> DEFINE h == Len(call_stack_funcs)
<1>1. TypeOK /\ FramesOrdered
  BY DEF Inv, FramesCurrent
<1>2. h \in Nat /\ h \in Frames /\ Frames = 1 .. h /\ Top = call_stack_funcs[h] /\ Top.pos \in Nat
  BY <1>1, Calls
<1>3. NumLocals = 3
  BY Sizes
<1>4. Top.pos + NumLocals \in Nat /\ Top.pos + NumLocals <= Len(stack.values)
  <2>1. call_stack_funcs[h].pos + 6 <= Len(stack.values) /\ Len(stack.values) \in Nat
    BY <1>2, Heights
  <2> QED BY <2>1, <1>2, <1>3
<1>5. ASSUME NEW k \in Frames PROVE call_stack_funcs[k].pos + NumLocals <= Top.pos + NumLocals
  <2>1. call_stack_funcs[k].pos \in Nat
    BY <1>1, Calls
  <2>2. CASE k = h
    BY <2>1, <2>2, <1>2, <1>3
  <2>3. CASE k # h
    <3>1. k < h
      BY <2>3, <1>2
    <3>2. call_stack_funcs[k].pos + NumLocals <= Top.pos
      BY <3>1, <1>1, <1>2 DEF FramesOrdered
    <3> QED BY <3>2, <2>1, <1>2, <1>3
  <2> QED BY <2>2, <2>3
<1> QED BY <1>4, <1>5 DEF MayStart

LEMMA NestedCallStarts ==
  ASSUME CallStackAssumption, Inv
  PROVE  MayStart(Len(stack.values), TRUE)
<1>1. TypeOK
  BY DEF Inv, FramesCurrent
<1>2. Len(stack.values) \in Nat
  BY <1>1 DEF TypeOK
<1>3. ASSUME NEW k \in Frames PROVE call_stack_funcs[k].pos + NumLocals <= Len(stack.values)
  <2> DEFINE p == call_stack_funcs[k].pos
  <2>1. p \in Nat
    BY <1>1, Calls
  <2>2. p + 6 <= Len(stack.values)
    BY Heights
  <2>3. NumLocals = 3
    BY Sizes
  <2> HIDE DEF p
  <2>4. p + NumLocals <= Len(stack.values)
    BY <2>1, <2>2, <2>3, <1>2
  <2> QED BY <2>4 DEF p
<1> QED BY <1>2, <1>3 DEF MayStart

LEMMA CallStep ==
  ASSUME CallStackAssumption, Inv, NEW f, NEW need \in Rets, NEW v \in Vals, NEW start,
         NEW nested \in BOOLEAN, MayStart(start, nested), callFT(f, need, v, start, nested)
  PROVE  Inv'
<1>1. f \in LiveFuncs
  BY CallableAlive DEF callFT
<1>2. start \in Nat
  BY DEF MayStart
<1>3. CASE enter(f, need, v, start, nested)
  BY <1>1, <1>3, Enter, EnterKeeps
<1>4. CASE overflow(start, need)
  BY <1>2, <1>4, OverflowStep
<1> QED BY <1>3, <1>4 DEF callFT

-----------------------------------------------------------------------------
(* Giving up a reference to a scope.                                       *)

\* The scopes after releaseLocals.
LEMMA Freed ==
  ASSUME CallStackAssumption, TypeOK, ParentsAlive, NEW s \in LiveLocals
  PROVE  /\ releaseLocals(s) = [x \in Scopes |-> releaseLocals(s)[x]]
         /\ \A x \in Scopes :
               IF x \in LiveLocals \ deleted(s)
               THEN /\ releaseLocals(s)[x] \in Scope
                    /\ releaseLocals(s)[x].decl = locals[x].decl
                    /\ releaseLocals(s)[x].parents = locals[x].parents
                    /\ releaseLocals(s)[x].values = locals[x].values
                    /\ releaseLocals(s)[x].ref_count =
                          locals[x].ref_count - IF x \in released(s) THEN 1 ELSE 0
               ELSE releaseLocals(s)[x] = NoLocals
<1> DEFINE M == releaseLocals(s)
           D == deleted(s)
           less(x) == [locals[x] EXCEPT !.ref_count = locals[x].ref_count - 1]
<1>1. M = [x \in Scopes |-> IF x \in D THEN NoLocals
                            ELSE IF x \in released(s) THEN less(x) ELSE locals[x]]
  BY DEF releaseLocals
<1>2. /\ D \subseteq LiveLocals /\ losesLast(s, D) /\ LiveLocals \subseteq Scopes
      /\ \A x \in LiveLocals : locals[x] \in Scope /\ locals[x].ref_count \in Nat \ {0}
  BY Deleted, Alive
<1>3. released(s) = IF D = {} THEN {s} ELSE {Parent(x) : x \in D} \ (D \cup {Nil})
  BY DEF released
<1>4. M = [x \in Scopes |-> M[x]]
  BY <1>1
<1>5. \A x \in Scopes : M[x] = IF x \in D THEN NoLocals
                               ELSE IF x \in released(s) THEN less(x) ELSE locals[x]
  BY <1>1
<1> HIDE DEF M, D
<1>6. ASSUME NEW x \in released(s) PROVE x \in LiveLocals /\ locals[x].ref_count # 1
  <2>1. CASE D = {}
    BY <2>1, <1>2, <1>3 DEF losesLast
  <2>2. CASE D # {}
    <3>1. PICK y \in D : x = Parent(y) /\ x # Nil /\ x \notin D
      BY <2>2, <1>3
    <3>2. x \in LiveLocals
      BY <3>1, <1>2, Around
    <3> QED BY <3>1, <3>2, <1>2 DEF losesLast
  <2> QED BY <2>1, <2>2
<1>7. ASSUME NEW x \in released(s)
      PROVE  /\ less(x) \in Scope /\ less(x).decl = locals[x].decl
             /\ less(x).parents = locals[x].parents /\ less(x).values = locals[x].values
             /\ less(x).ref_count = locals[x].ref_count - 1
  <2> DEFINE n == locals[x].ref_count - 1
  <2>1. locals[x] \in Scope /\ n \in Nat \ {0}
    BY <1>2, <1>6
  <2>2. less(x) = [locals[x] EXCEPT !.ref_count = n]
    OBVIOUS
  <2> HIDE DEF n, less
  <2>3. /\ less(x) \in Scope /\ less(x).decl = locals[x].decl
        /\ less(x).parents = locals[x].parents /\ less(x).values = locals[x].values
        /\ less(x).ref_count = n
    BY <2>1, <2>2 DEF Scope
  <2> QED BY <2>3 DEF n
<1> HIDE DEF less
<1>8. ASSUME NEW x \in Scopes
      PROVE  IF x \in LiveLocals \ D
             THEN /\ M[x] \in Scope /\ M[x].decl = locals[x].decl
                  /\ M[x].parents = locals[x].parents /\ M[x].values = locals[x].values
                  /\ M[x].ref_count = locals[x].ref_count - IF x \in released(s) THEN 1 ELSE 0
             ELSE M[x] = NoLocals
  <2>1. CASE x \in D
    BY <2>1, <1>5
  <2>2. CASE x \notin D /\ x \in released(s)
    BY <2>2, <1>5, <1>6, <1>7
  <2>3. CASE x \notin D /\ x \notin released(s)
    <3>1. M[x] = locals[x]
      BY <2>3, <1>5
    <3> QED BY <2>3, <3>1, <1>2 DEF LiveLocals
  <2> QED BY <2>1, <2>2, <2>3
<1> QED BY <1>4, <1>8 DEF M, D

\* No pointer to what was deleted is left.
LEMMA ReleaseLinks ==
  ASSUME CallStackAssumption, TypeOK, CountsExact, ParentsAlive,
         NEW s \in LiveLocals, ReleaseStep(s),
         LiveFuncs' \subseteq LiveFuncs, \A g \in LiveFuncs' : func'[g] = func[g]
  PROVE  /\ ParentsAlive'
         /\ \A k \in Frames' : call_stack_funcs'[k].locals \in LiveLocals
                                  => call_stack_funcs'[k].locals \in LiveLocals'
<1>1. /\ LiveLocals' = LiveLocals \ deleted(s) /\ LiveLocals \subseteq Scopes
      /\ \A x \in LiveLocals' :
            /\ locals'[x].decl = locals[x].decl
            /\ locals'[x].parents = locals[x].parents
            /\ \A i \in DOMAIN locals[x].parents : locals[x].parents[i] \in LiveLocals'
  BY Release, Alive
<1>2. \A z \in deleted(s) : FrameRefs(z)' = {} /\ FuncRefs(z)' = {}
  BY Unreferenced
<1>3. \A x \in LiveLocals' : KeptScope(x)
  BY <1>1 DEF KeptScope
<1>4. ASSUME NEW x \in LiveLocals' PROVE Linked(x)'
  BY <1>1, <1>3, LinksKept
<1>5. ASSUME NEW g \in LiveFuncs' PROVE FuncLinked(g)'
  <2> DEFINE z == func[g].locals
  <2>1. g \in LiveFuncs /\ func'[g] = func[g]
    OBVIOUS
  <2>2. /\ z \in LiveLocals \cup {Nil}
        /\ Outer[func[g].decl] = IF z = Nil THEN Nil ELSE locals[z].decl
    BY <2>1 DEF ParentsAlive
  <2>3. z \notin deleted(s)
    <3>1. g \in {e \in LiveFuncs' : func'[e].locals = z}
      BY <2>1
    <3>2. ASSUME NEW y, y = z PROVE g \in FuncRefs(y)'
      BY <3>1, <3>2 DEF FuncRefs
    <3> HIDE DEF z
    <3>3. ASSUME z \in deleted(s) PROVE FALSE
      <4>1. PICK y \in deleted(s) : y = z
        BY <3>3
      <4> QED BY <4>1, <3>2, <1>2
    <3> QED BY <3>3
  <2>4. z # Nil => z \in LiveLocals' /\ locals'[z].decl = locals[z].decl
    BY <2>2, <2>3, <1>1
  <2> QED BY <2>1, <2>2, <2>4 DEF FuncLinked
<1>6. ASSUME NEW k \in Frames', call_stack_funcs'[k].locals \in LiveLocals,
             call_stack_funcs'[k].locals \in deleted(s)
      PROVE  FALSE
  <2>1. PICK z \in deleted(s) : z = call_stack_funcs'[k].locals
    BY <1>6
  <2>2. k \in FrameRefs(z)'
    BY <2>1 DEF FrameRefs
  <2> QED BY <2>2, <1>2
<1> QED BY <1>1, <1>4, <1>5, <1>6 DEF ParentsAlive, Linked, FuncLinked

\* The collector clears a function that nothing refers to.
LEMMA ClearFunctionStep ==
  ASSUME CallStackAssumption, Inv, NEW f \in Funcs, clearFunctionValue(f)
  PROVE  Inv'
<1>1. TypeOK /\ CountsExact /\ ParentsAlive /\ FramesAlive /\ PointersCurrent /\ FramesOrdered
      /\ StackCoversFrame
  BY DEF Inv, FramesCurrent
<1> DEFINE s == func[f].locals
<1>2. /\ f \in LiveFuncs /\ f \notin held
      /\ \A k \in Frames : f # call_stack_funcs[k].func /\ f \notin call_stack_funcs[k].sub_funcs
      /\ func' = [func EXCEPT ![f] = NoFunc]
      /\ UNCHANGED <<held, stack, call_stack_funcs, ret_stack_funcs, stack_func_locals, terminated,
                     call_stack_overflow>>
      /\ s = Nil => locals' = locals /\ prog_refs' = prog_refs - 1
      /\ s # Nil => /\ locals' = releaseLocals(s)
                    /\ prog_refs' = prog_refs - 1 - Cardinality(deleted(s))
  BY DEF clearFunctionValue, Garbage, calls
<1>3. func \in [Funcs -> Function \cup {NoFunc}]
  BY <1>1 DEF TypeOK
<1>4. /\ LiveFuncs' = LiveFuncs \ {f} /\ \A g \in LiveFuncs' : func'[g] = func[g]
      /\ func' \in [Funcs -> Function \cup {NoFunc}]
  BY <1>2, <1>3 DEF LiveFuncs
<1>5. /\ IsFiniteSet(LiveFuncs) /\ Cardinality(LiveFuncs) \in Nat
      /\ Cardinality(LiveFuncs') = Cardinality(LiveFuncs) - 1 /\ Cardinality(LiveFuncs) - 1 \in Nat
  <2>1. IsFiniteSet(LiveFuncs)
    BY <1>1, Alive, FS_Subset DEF CallStackAssumption
  <2>2. Cardinality(LiveFuncs) \in Nat /\ Cardinality(LiveFuncs') = Cardinality(LiveFuncs) - 1
    BY <2>1, <1>2, <1>4, FS_RemoveElement, FS_CardinalityType
  <2>3. Cardinality(LiveFuncs') \in Nat
    BY <2>1, <1>4, FS_RemoveElement, FS_CardinalityType
  <2> QED BY <2>1, <2>2, <2>3
<1>6. Frames' = Frames /\ Running' = Running /\ Top' = Top
  BY <1>2 DEF Frames, Running, Top
<1>7. ASSUME NEW x \in Scopes
      PROVE  /\ FrameRefs(x)' = FrameRefs(x)
             /\ FuncRefs(x)' = FuncRefs(x) \ {f}
             /\ f \in FuncRefs(x) <=> x = s
  BY <1>2, <1>4, <1>6 DEF FrameRefs, FuncRefs
<1>8. s \in LiveLocals \cup {Nil} /\ LiveLocals \subseteq Scopes /\ Nil \notin Scopes
  BY <1>1, <1>2, Alive DEF ParentsAlive, CallStackAssumption
<1>9. IsFiniteSet(LiveLocals) /\ Cardinality(LiveLocals) \in Nat
  BY <1>8, FS_Subset, FS_CardinalityType DEF CallStackAssumption
<1>10. prog_refs = Cardinality(LiveFuncs) + Cardinality(LiveLocals)
  BY <1>1 DEF CountsExact
<1>11. /\ CountsExact' /\ ParentsAlive' /\ prog_refs' \in Nat
       /\ locals' \in [Scopes -> Scope \cup {NoLocals}]
       /\ LiveLocals' \subseteq LiveLocals
       /\ \A x \in LiveLocals' : locals'[x].decl = locals[x].decl /\ locals'[x].values = locals[x].values
       /\ \A k \in Frames : call_stack_funcs[k].locals \in LiveLocals'
  <2>1. CASE s = Nil
    <3>1. locals' = locals /\ prog_refs' = prog_refs - 1
      BY <2>1, <1>2
    <3>2. LiveLocals' = LiveLocals /\ \A x : Parent(x)' = Parent(x)
      BY <3>1 DEF LiveLocals, Parent
    <3>3. prog_refs' = Cardinality(LiveFuncs') + Cardinality(LiveLocals') /\ prog_refs' \in Nat
      BY <3>1, <3>2, <1>5, <1>9, <1>10
    <3>4. ASSUME NEW x \in LiveLocals
          PROVE  FrameRefs(x)' = FrameRefs(x) /\ FuncRefs(x)' = FuncRefs(x) /\ ScopeRefs(x)' = ScopeRefs(x)
      <4>1. f \notin FuncRefs(x)
        BY <2>1, <1>7, <1>8
      <4>2. ScopeRefs(x)' = ScopeRefs(x)
        BY <3>2 DEF ScopeRefs
      <4> QED BY <4>1, <4>2, <1>7, <1>8
    <3>5. CountsExact'
      BY <3>1, <3>2, <3>3, <3>4, <1>1 DEF CountsExact
    <3>6. ParentsAlive'
      BY <3>1, <3>2, <1>1, <1>4 DEF ParentsAlive
    <3> QED BY <3>1, <3>2, <3>3, <3>5, <3>6, <1>1 DEF TypeOK, FramesAlive
  <2>2. CASE s # Nil
    <3>1. PICK z \in LiveLocals : z = s
      BY <2>2, <1>8
    <3>2. locals' = releaseLocals(z) /\ prog_refs' = prog_refs - 1 - Cardinality(deleted(z))
      BY <2>2, <3>1, <1>2
    <3>3. /\ locals' = [x \in Scopes |-> locals'[x]]
          /\ \A x \in Scopes :
               IF x \in LiveLocals \ deleted(z)
               THEN /\ locals'[x] \in Scope
                    /\ locals'[x].decl = locals[x].decl
                    /\ locals'[x].parents = locals[x].parents
                    /\ locals'[x].values = locals[x].values
                    /\ locals'[x].ref_count =
                          locals[x].ref_count - IF x \in released(z) THEN 1 ELSE 0
               ELSE locals'[x] = NoLocals
      BY <3>2, <1>1, Freed
    <3>4. ReleaseStep(z)
      <4>1. f \in FuncRefs(z) /\ FuncRefs(z)' = FuncRefs(z) \ {f} /\ FrameRefs(z)' = FrameRefs(z)
        BY <3>1, <1>7, <1>8
      <4>2. ASSUME NEW x \in Scopes, x # z
            PROVE  FrameRefs(x)' = FrameRefs(x) /\ FuncRefs(x)' = FuncRefs(x)
        BY <4>2, <3>1, <1>7
      <4> QED BY <4>1, <4>2, <3>3 DEF ReleaseStep
    <3>5. /\ LiveLocals' = LiveLocals \ deleted(z)
          /\ Cardinality(LiveLocals') = Cardinality(LiveLocals) - Cardinality(deleted(z))
          /\ \A x \in LiveLocals' :
                locals'[x].ref_count = Cardinality(FrameRefs(x)') + Cardinality(FuncRefs(x)')
                                         + Cardinality(ScopeRefs(x)')
      BY <3>4, <1>1, Release
    <3>6. /\ ParentsAlive'
          /\ \A k \in Frames' : call_stack_funcs'[k].locals \in LiveLocals
                                   => call_stack_funcs'[k].locals \in LiveLocals'
      BY <3>4, <1>1, <1>4, ReleaseLinks
    <3>7. Cardinality(deleted(z)) \in Nat /\ Cardinality(LiveLocals') \in Nat
      <4>1. IsFiniteSet(deleted(z)) /\ IsFiniteSet(LiveLocals')
        BY <3>5, <1>1, <1>9, Deleted, FS_Subset
      <4> QED BY <4>1, FS_CardinalityType
    <3>8. prog_refs' = Cardinality(LiveFuncs') + Cardinality(LiveLocals') /\ prog_refs' \in Nat
      BY <3>2, <3>5, <3>7, <1>5, <1>9, <1>10
    <3>9. CountsExact'
      BY <3>5, <3>8 DEF CountsExact
    <3>10. locals' \in [Scopes -> Scope \cup {NoLocals}]
      <4>1. \A x \in Scopes : locals'[x] \in Scope \cup {NoLocals}
        BY <3>3
      <4> QED BY <4>1, <3>3
    <3>11. \A x \in LiveLocals' : locals'[x].decl = locals[x].decl /\ locals'[x].values = locals[x].values
      BY <3>3, <3>5, <1>8
    <3>12. \A k \in Frames : call_stack_funcs[k].locals \in LiveLocals'
      BY <3>6, <1>1, <1>2, <1>6 DEF FramesAlive
    <3> QED BY <3>5, <3>6, <3>8, <3>9, <3>10, <3>11, <3>12
  <2> QED BY <2>1, <2>2
<1>12. TypeOK'
  <2>1. held' \subseteq LiveFuncs'
    BY <1>1, <1>2, <1>4 DEF TypeOK
  <2> QED BY <2>1, <1>1, <1>2, <1>4, <1>11 DEF TypeOK
<1>13. FramesAlive'
  <2>1. ASSUME NEW k \in Frames
        PROVE  /\ call_stack_funcs[k].func \in LiveFuncs'
               /\ call_stack_funcs[k].sub_funcs \subseteq LiveFuncs'
               /\ call_stack_funcs[k].locals \in LiveLocals'
               /\ locals'[call_stack_funcs[k].locals].decl = func'[call_stack_funcs[k].func].decl
    BY <1>1, <1>2, <1>4, <1>11 DEF FramesAlive
  <2> QED BY <2>1, <1>1, <1>2, <1>6 DEF FramesAlive
<1>14. PointersCurrent'
  <2>1. \A k \in Frames : locals'[call_stack_funcs[k].locals].values = InStack(stack.capacity, call_stack_funcs[k].pos)
    BY <1>1, <1>11 DEF PointersCurrent
  <2>2. stack_func_locals = IF Running THEN locals'[Top.locals].values ELSE Nil
    <3>1. Running => Top.locals \in LiveLocals'
      BY <1>1, <1>11, Calls
    <3> QED BY <3>1, <1>1, <1>11 DEF PointersCurrent
  <2>3. ASSUME NEW x \in LiveLocals', \A k \in Frames : call_stack_funcs[k].locals # x
        PROVE  \/ locals'[x].decl \in Upvalue /\ \E y \in Vals \cup {Null} : locals'[x].values = OnHeap(y)
               \/ locals'[x].decl \notin Upvalue /\ locals'[x].values = Nil
    <3>1. x \in LiveLocals /\ locals'[x].decl = locals[x].decl /\ locals'[x].values = locals[x].values
      BY <1>11
    <3> QED BY <2>3, <3>1, <1>1 DEF PointersCurrent
  <2> QED BY <2>1, <2>2, <2>3, <1>2, <1>6 DEF PointersCurrent
<1>15. FramesOrdered' /\ StackCoversFrame'
  BY <1>1, <1>2, <1>6 DEF FramesOrdered, StackCoversFrame, NestedFrame
<1> QED BY <1>11, <1>12, <1>13, <1>14, <1>15 DEF Inv, FramesCurrent

-----------------------------------------------------------------------------
(* Leaving a function.                                                     *)

\* The first n elements of a sequence.
LEMMA Prefix ==
  ASSUME NEW S, NEW q \in Seq(S), NEW n \in Nat, n <= Len(q)
  PROVE  /\ SubSeq(q, 1, n) \in Seq(S) /\ Len(SubSeq(q, 1, n)) = n
         /\ \A i \in 1 .. n : SubSeq(q, 1, n)[i] = q[i]
<1>1. \A i \in 1 .. n : q[i] \in S
  OBVIOUS
<1> QED BY <1>1, SubSeqProperties

\* All elements but the last.
LEMMA WithoutLast ==
  ASSUME NEW S, NEW q \in Seq(S), Len(q) # 0
  PROVE  /\ Front(q) \in Seq(S) /\ Len(Front(q)) = Len(q) - 1 /\ Len(q) - 1 \in Nat
         /\ \A i \in 1 .. Len(q) - 1 : Front(q)[i] = q[i]
<1> DEFINE n == Len(q) - 1
<1>1. n \in Nat /\ n <= Len(q)
  OBVIOUS
<1>2. Front(q) = SubSeq(q, 1, n)
  BY DEF Front
<1> HIDE DEF n
<1>3. /\ Front(q) \in Seq(S) /\ Len(Front(q)) = n
      /\ \A i \in 1 .. n : Front(q)[i] = q[i]
  BY <1>1, <1>2, Prefix
<1> QED BY <1>1, <1>3 DEF n

\* The frames after a return.
Pops == Running /\ call_stack_funcs' = Front(call_stack_funcs)

LEMMA FramePopped ==
  ASSUME TypeOK, Pops
  PROVE  LET h == Len(call_stack_funcs) IN
         /\ h \in Frames /\ Frames = 1 .. h /\ h \in Nat
         /\ call_stack_funcs' \in Seq(Frame) /\ Len(call_stack_funcs') = h - 1
         /\ Frames' = Frames \ {h} /\ Frames' = 1 .. h - 1
         /\ \A k \in Frames' : call_stack_funcs'[k] = call_stack_funcs[k]
         /\ Running' <=> h # 1
         /\ Running' => h - 1 \in Frames' /\ Top' = call_stack_funcs[h - 1]
<1> DEFINE h == Len(call_stack_funcs)
<1>1. /\ h \in Nat /\ h \in Frames /\ Frames = 1 .. h /\ h # 0
      /\ call_stack_funcs \in Seq(Frame) /\ call_stack_funcs' = Front(call_stack_funcs)
  BY Calls DEF Pops, TypeOK
<1>2. /\ call_stack_funcs' \in Seq(Frame) /\ Len(call_stack_funcs') = h - 1 /\ h - 1 \in Nat
      /\ \A i \in 1 .. h - 1 : call_stack_funcs'[i] = call_stack_funcs[i]
  BY <1>1, WithoutLast
<1>3. Frames' = 1 .. h - 1
  BY <1>2 DEF Frames
<1>4. Running' <=> Len(call_stack_funcs') # 0
  BY <1>2 DEF Running
<1>5. Top' = call_stack_funcs'[h - 1]
  BY <1>2 DEF Top, Last
<1> HIDE DEF h
<1>6. /\ 1 .. h - 1 = (1 .. h) \ {h} /\ (h - 1 # 0 <=> h # 1)
      /\ h # 1 => h - 1 \in 1 .. h - 1
  BY <1>1
<1> QED BY <1>1, <1>2, <1>3, <1>4, <1>5, <1>6 DEF h

\* Nested runs of execute end with the frame they began with.
LEMMA NestedRuns ==
  ASSUME CallStackAssumption, Inv, Running,
         NEW nested \in BOOLEAN, nested <=> Last(ret_stack_funcs) >= Len(call_stack_funcs) - 1,
         ret_stack_funcs' = IF nested THEN Front(ret_stack_funcs) ELSE ret_stack_funcs
  PROVE  LET h == Len(call_stack_funcs) IN
         /\ ret_stack_funcs' \in Seq(Nat)
         /\ NestedFrame(h) = nested
         /\ \A i \in DOMAIN ret_stack_funcs' : ret_stack_funcs'[i] < h - 1
         /\ \A i, j \in DOMAIN ret_stack_funcs' : i < j => ret_stack_funcs'[i] < ret_stack_funcs'[j]
         /\ \A k \in 1 .. h - 1 : NestedFrame(k)' = NestedFrame(k)
<1> DEFINE h == Len(call_stack_funcs)
           R == ret_stack_funcs
           m == Len(R)
<1>1. TypeOK /\ FramesOrdered
  BY DEF Inv, FramesCurrent
<1>2. h \in Nat /\ h # 0 /\ R \in Seq(Nat) /\ m \in Nat /\ DOMAIN R = 1 .. m
  BY <1>1, Calls DEF TypeOK
<1>3. /\ \A i \in 1 .. m : R[i] < h /\ R[i] \in Nat
      /\ \A i, j \in 1 .. m : i < j => R[i] < R[j]
      /\ NestedFrame(1)
  <2>1. \A i \in 1 .. m : R[i] \in Nat
    BY <1>2
  <2>2. /\ \A i \in DOMAIN R : R[i] < h
        /\ \A i, j \in DOMAIN R : i < j => R[i] < R[j]
        /\ NestedFrame(1)
    BY <1>1, Zenon DEF FramesOrdered
  <2> HIDE DEF R, m, h
  <2> QED BY <2>1, <2>2, <1>2
<1>4. /\ \A k : NestedFrame(k) <=> \E i \in 1 .. m : R[i] = k - 1
      /\ \A k : NestedFrame(k)' <=> \E i \in DOMAIN ret_stack_funcs' : ret_stack_funcs'[i] = k - 1
      /\ \A k : NestedFrame(k) \in BOOLEAN /\ NestedFrame(k)' \in BOOLEAN
  BY <1>2 DEF NestedFrame, ToSet
<1>5. m # 0 /\ m \in 1 .. m
  BY <1>2, <1>3, <1>4
<1>6. (nested => R[m] >= h - 1) /\ (~nested => ~(R[m] >= h - 1))
  BY DEF Last
<1>7. nested => /\ ret_stack_funcs' \in Seq(Nat) /\ DOMAIN ret_stack_funcs' = 1 .. m - 1
                /\ \A i \in 1 .. m - 1 : ret_stack_funcs'[i] = R[i]
  <2>1. /\ Front(R) \in Seq(Nat) /\ Len(Front(R)) = m - 1
        /\ \A i \in 1 .. m - 1 : Front(R)[i] = R[i]
    BY <1>2, <1>5, WithoutLast
  <2> QED BY <2>1
<1>8. ~nested => ret_stack_funcs' = R
  OBVIOUS
<1> HIDE DEF h, R, m
<1>9. CASE nested
  <2>1. R[m] = h - 1
    BY <1>2, <1>3, <1>5, <1>6, <1>9
  <2>2. \A i \in 1 .. m - 1 : i \in 1 .. m /\ i < m /\ R[i] < h - 1
    BY <2>1, <1>2, <1>3, <1>5
  <2>3. NestedFrame(h)
    BY <2>1, <1>4, <1>5
  <2>4. ASSUME NEW k \in 1 .. h - 1 PROVE NestedFrame(k)' = NestedFrame(k)
    <3>1. k - 1 # R[m]
      BY <2>1, <1>2
    <3>2. \A i \in 1 .. m : i \in 1 .. m - 1 \/ i = m
      BY <1>2
    <3> QED BY <3>1, <3>2, <2>2, <1>4, <1>7, <1>9
  <2> QED BY <2>2, <2>3, <2>4, <1>3, <1>4, <1>7, <1>9 DEF h
<1>10. CASE ~nested
  <2>1. R[m] < h - 1
    BY <1>2, <1>3, <1>5, <1>6, <1>10
  <2>2. ASSUME NEW i \in 1 .. m PROVE R[i] < h - 1 /\ R[i] \in Nat
    <3>1. i = m \/ i < m
      BY <1>2
    <3>2. i = m \/ R[i] < R[m]
      BY <3>1, <1>3, <1>5
    <3> QED BY <3>2, <2>1, <1>2, <1>3, <1>5
  <2>3. ~NestedFrame(h)
    BY <2>2, <1>2, <1>4
  <2>4. \A k \in 1 .. h - 1 : NestedFrame(k)' = NestedFrame(k)
    BY <1>2, <1>4, <1>8, <1>10
  <2> QED BY <2>2, <2>3, <2>4, <1>2, <1>3, <1>4, <1>8, <1>10 DEF h
<1> QED BY <1>9, <1>10

\* What clearStackFunction writes, when x is the variable of the scope s it leaves.
Clears(s, x) ==
  /\ locals' \in [Scopes -> Scope \cup {NoLocals}]
  /\ \A y \in Scopes :
        IF y \in LiveLocals \ deleted(s)
        THEN /\ locals'[y].decl = locals[y].decl
             /\ locals'[y].parents = locals[y].parents
             /\ locals'[y].ref_count = locals[y].ref_count - IF y \in released(s) THEN 1 ELSE 0
             /\ y # s => locals'[y].values = locals[y].values
             /\ y = s => locals'[y].values = IF locals[s].decl \in Upvalue THEN OnHeap(x) ELSE Nil
        ELSE locals'[y] = NoLocals
  /\ prog_refs' = prog_refs - Cardinality(deleted(s))

LEMMA Cleared ==
  ASSUME CallStackAssumption, TypeOK, ParentsAlive, NEW s \in LiveLocals, s = Top.locals,
         NEW values, NEW x \in Vals \cup {Null}, x = copied(values), clearStackFunction(values)
  PROVE  Clears(s, x)
<1> DEFINE M == releaseLocals(s)
           w == IF locals[s].decl \in Upvalue THEN OnHeap(x) ELSE Nil
           o == M[s]
           new == IF s \in deleted(s) THEN NoLocals ELSE [o EXCEPT !.values = w]
<1>1. /\ locals' = [M EXCEPT ![s] = new]
      /\ prog_refs' = prog_refs - Cardinality(deleted(s))
  BY DEF clearStackFunction
<1>2. /\ M = [y \in Scopes |-> M[y]]
      /\ \A y \in Scopes :
            IF y \in LiveLocals \ deleted(s)
            THEN /\ M[y] \in Scope
                 /\ M[y].decl = locals[y].decl
                 /\ M[y].parents = locals[y].parents
                 /\ M[y].values = locals[y].values
                 /\ M[y].ref_count = locals[y].ref_count - IF y \in released(s) THEN 1 ELSE 0
            ELSE M[y] = NoLocals
  BY Freed
<1>3. s \in Scopes
  BY Alive
<1> HIDE DEF M
<1>4. s \in deleted(s) => new = NoLocals
  OBVIOUS
<1>5. s \notin deleted(s) => /\ new \in Scope /\ new.decl = o.decl /\ new.parents = o.parents
                             /\ new.ref_count = o.ref_count /\ new.values = w
  <2>1. w \in Values \cup {Nil}
    BY DEF OnHeap, Values
  <2>2. s \notin deleted(s) => o \in Scope /\ new = [o EXCEPT !.values = w]
    BY <1>2, <1>3
  <2> HIDE DEF o, w, new
  <2> QED BY <2>1, <2>2 DEF Scope
<1> HIDE DEF new
<1>6. locals' = [y \in Scopes |-> locals'[y]] /\ \A y \in Scopes : locals'[y] = IF y = s THEN new ELSE M[y]
  BY <1>1, <1>2, <1>3
<1>7. \A y \in Scopes : locals'[y] \in Scope \cup {NoLocals}
  BY <1>2, <1>4, <1>5, <1>6
<1>8. locals' \in [Scopes -> Scope \cup {NoLocals}]
  BY <1>6, <1>7
<1>9. ASSUME NEW y \in Scopes
      PROVE  IF y \in LiveLocals \ deleted(s)
             THEN /\ locals'[y].decl = locals[y].decl
                  /\ locals'[y].parents = locals[y].parents
                  /\ locals'[y].ref_count = locals[y].ref_count - IF y \in released(s) THEN 1 ELSE 0
                  /\ y # s => locals'[y].values = locals[y].values
                  /\ y = s => locals'[y].values = w
             ELSE locals'[y] = NoLocals
  <2> HIDE DEF w
  <2>1. CASE y = s
    BY <2>1, <1>2, <1>4, <1>5, <1>6
  <2>2. CASE y # s
    BY <2>2, <1>2, <1>6
  <2> QED BY <2>1, <2>2
<1> QED BY <1>1, <1>8, <1>9 DEF Clears

\* The frame's reference to its scope is the one that is given up.
LEMMA LeaveReleases ==
  ASSUME CallStackAssumption, Inv, Pops, NEW s, s = Top.locals, NEW x, Clears(s, x), func' = func
  PROVE  s \in LiveLocals /\ ReleaseStep(s) /\ \A k \in Frames' : call_stack_funcs'[k].locals # s
<1> DEFINE h == Len(call_stack_funcs)
<1>1. TypeOK /\ FramesAlive
  BY DEF Inv, FramesCurrent
<1>2. /\ h \in Frames /\ Frames' = Frames \ {h}
      /\ \A k \in Frames' : call_stack_funcs'[k] = call_stack_funcs[k]
  BY <1>1, FramePopped
<1>3. Top = call_stack_funcs[h]
  BY <1>1, Calls
<1> HIDE DEF h
<1>4. s \in LiveLocals /\ \A k \in Frames : call_stack_funcs[k].locals = s <=> k = h
  BY <1>1, <1>2, <1>3 DEF FramesAlive
<1>5. ASSUME NEW y \in Scopes
      PROVE  /\ FrameRefs(y)' = FrameRefs(y) \ {h} /\ (h \in FrameRefs(y) <=> y = s)
             /\ FuncRefs(y)' = FuncRefs(y)
  BY <1>2, <1>4 DEF FrameRefs, FuncRefs, LiveFuncs
<1>6. s \in Scopes
  BY <1>1, <1>4, Alive
<1>7. h \in FrameRefs(s) /\ FrameRefs(s)' = FrameRefs(s) \ {h} /\ FuncRefs(s)' = FuncRefs(s)
  BY <1>5, <1>6
<1>8. \A y \in Scopes \ {s} : FrameRefs(y)' = FrameRefs(y) /\ FuncRefs(y)' = FuncRefs(y)
  BY <1>5
<1>9. \A y \in Scopes :
        IF y \in LiveLocals \ deleted(s)
        THEN /\ locals'[y].decl = locals[y].decl
             /\ locals'[y].parents = locals[y].parents
             /\ locals'[y].ref_count = locals[y].ref_count - IF y \in released(s) THEN 1 ELSE 0
        ELSE locals'[y] = NoLocals
  BY DEF Clears
<1>10. ReleaseStep(s)
  BY <1>7, <1>8, <1>9 DEF ReleaseStep
<1> QED BY <1>2, <1>4, <1>10

\* The variable that is copied: a slot of the frame, or a result written over it.
LEMMA CopiedValue ==
  ASSUME CallStackAssumption, Inv, Running, NEW results \in Seq(Vals \cup {Null})
  PROVE  copied(Written(results)) \in Vals \cup {Null}
<1> DEFINE h == Len(call_stack_funcs)
           V == Vals \cup {Null}
           p == Top.pos
           i == p + NumLocals
           n == Len(results)
<1>1. TypeOK
  BY DEF Inv, FramesCurrent
<1>2. h \in Frames /\ Top = call_stack_funcs[h] /\ p \in Nat
  BY <1>1, Calls
<1>3. p + 6 <= Len(stack.values) /\ Len(stack.values) \in Nat
  BY <1>2, Heights
<1>4. NumLocals = 3
  BY Sizes
<1>5. stack.values \in Seq(V) /\ results \in Seq(V)
  BY <1>1 DEF TypeOK
<1>6. DOMAIN stack.values = 1 .. Len(stack.values) /\ n \in Nat /\ DOMAIN results = 1 .. n
  BY <1>5
<1>7. i \in 1 .. Len(stack.values)
  <2> HIDE DEF p
  <2> QED BY <1>2, <1>3, <1>4
<1>8. copied(Written(results)) =
        IF i \in p + 1 .. p + n THEN results[i - p] ELSE stack.values[i]
  BY <1>6, <1>7 DEF copied, Written
<1>9. stack.values[i] \in V
  <2> HIDE DEF i
  <2> QED BY <1>5, <1>7
<1>10. i \in p + 1 .. p + n => i - p \in 1 .. n
  <2> HIDE DEF p, n
  <2> QED BY <1>2, <1>4, <1>6
<1>11. \A j \in 1 .. n : results[j] \in V
  BY <1>5
<1> HIDE DEF i, p, n, V
<1> QED BY <1>8, <1>9, <1>10, <1>11 DEF V

\* The stack has the height at which the frame below left it.
LEMMA LeaveOrder ==
  ASSUME CallStackAssumption, Inv, Pops, NEW nested \in BOOLEAN,
         nested <=> Last(ret_stack_funcs) >= Len(call_stack_funcs) - 1,
         ret_stack_funcs' = IF nested THEN Front(ret_stack_funcs) ELSE ret_stack_funcs,
         stack'.capacity = stack.capacity,
         Len(stack'.values) = IF nested THEN Top.pos ELSE Top.caller_size
  PROVE  FramesOrdered' /\ StackCoversFrame' /\ ret_stack_funcs' \in Seq(Nat)
<1> DEFINE h == Len(call_stack_funcs)
<1>1. TypeOK /\ FramesOrdered /\ StackCoversFrame /\ Running
  BY DEF Inv, FramesCurrent, Pops
<1>2. /\ h \in Frames /\ Frames = 1 .. h /\ h \in Nat
      /\ Len(call_stack_funcs') = h - 1
      /\ Frames' = 1 .. h - 1
      /\ \A k \in Frames' : call_stack_funcs'[k] = call_stack_funcs[k]
      /\ Running' <=> h # 1
      /\ Running' => h - 1 \in Frames' /\ Top' = call_stack_funcs[h - 1]
  BY <1>1, FramePopped
<1>3. /\ ret_stack_funcs' \in Seq(Nat)
      /\ NestedFrame(h) = nested
      /\ \A i \in DOMAIN ret_stack_funcs' : ret_stack_funcs'[i] < h - 1
      /\ \A i, j \in DOMAIN ret_stack_funcs' : i < j => ret_stack_funcs'[i] < ret_stack_funcs'[j]
      /\ \A k \in 1 .. h - 1 : NestedFrame(k)' = NestedFrame(k)
  BY <1>1, NestedRuns
<1>4. \A k \in Frames : Ordered(k)
  BY <1>1 DEF FramesOrdered, Ordered
<1>5. /\ Top = call_stack_funcs[h] /\ stack.capacity \in Nat
      /\ \A k \in Frames : call_stack_funcs[k].pos \in Nat /\ call_stack_funcs[k].caller_size \in Nat
  BY <1>1, Calls DEF TypeOK
<1> HIDE DEF h
<1>6. Frames' \subseteq Frames /\ \A k \in Frames' : k = 1 \/ k - 1 \in Frames'
  BY <1>2
<1>7. ASSUME NEW k \in Frames' PROVE Ordered(k)'
  <2>1. Ordered(k) /\ call_stack_funcs'[k] = call_stack_funcs[k] /\ NestedFrame(k)' = NestedFrame(k)
    BY <1>2, <1>3, <1>4, <1>6
  <2>2. k # 1 => call_stack_funcs'[k - 1] = call_stack_funcs[k - 1]
    BY <1>2, <1>6
  <2> QED BY <2>1, <2>2 DEF Ordered
<1>8. ASSUME NEW j \in Frames', NEW k \in Frames', j < k
      PROVE  call_stack_funcs'[j].pos + NumLocals <= call_stack_funcs'[k].pos
  BY <1>1, <1>2, <1>6, <1>8 DEF FramesOrdered
<1>9. Running' => NestedFrame(1)'
  <2>1. ASSUME Running' PROVE 1 \in 1 .. h - 1
    BY <2>1, <1>2
  <2>2. NestedFrame(1)
    BY <1>1 DEF FramesOrdered
  <2> QED BY <2>1, <2>2, <1>3
<1>10. FramesOrdered'
  BY <1>2, <1>3, <1>7, <1>8, <1>9 DEF FramesOrdered, Ordered
<1>11. /\ call_stack_funcs[h].pos <= call_stack_funcs[h].caller_size
       /\ call_stack_funcs[h].caller_size <= stack.capacity
       /\ h # 1 => call_stack_funcs[h - 1].pos + StackSize <=
                      IF nested THEN call_stack_funcs[h].pos ELSE call_stack_funcs[h].caller_size
  BY <1>2, <1>3, <1>4 DEF Ordered
<1>12. Len(stack'.values) = IF nested THEN call_stack_funcs[h].pos ELSE call_stack_funcs[h].caller_size
  BY <1>5
<1>13. Len(stack'.values) <= stack'.capacity
  BY <1>2, <1>5, <1>11, <1>12
<1>14. Running' => Len(stack'.values) >= Top'.pos + StackSize
  <2> SUFFICES ASSUME Running' PROVE Len(stack'.values) >= Top'.pos + StackSize
    OBVIOUS
  <2>1. h # 1 /\ h - 1 \in Frames /\ Top' = call_stack_funcs[h - 1]
    BY <1>2, <1>6
  <2>2. Top'.pos + StackSize \in Nat /\ Len(stack'.values) \in Nat
    BY <2>1, <1>2, <1>5, <1>12, Sizes
  <2>3. Top'.pos + StackSize <= Len(stack'.values)
    BY <2>1, <1>11, <1>12
  <2> QED BY <2>2, <2>3
<1>15. StackCoversFrame'
  BY <1>13, <1>14 DEF StackCoversFrame
<1> QED BY <1>3, <1>10, <1>15

\* OP_RETURN and unwinding.
LEMMA LeaveStep ==
  ASSUME CallStackAssumption, Inv, Running, NEW results \in Seq(Vals \cup {Null}),
         leave(results), UNCHANGED <<terminated, call_stack_overflow>>
  PROVE  Inv'
<1> DEFINE h == Len(call_stack_funcs)
           V == Vals \cup {Null}
           p == Top.pos
           cs == Top.caller_size
<1>1. TypeOK /\ CountsExact /\ ParentsAlive /\ FramesAlive /\ PointersCurrent /\ FramesOrdered
  BY DEF Inv, FramesCurrent
<1>2. PICK nested \in BOOLEAN : nested <=> Last(ret_stack_funcs) >= h - 1
  <2>1. (Last(ret_stack_funcs) >= h - 1) \in BOOLEAN
    OBVIOUS
  <2> QED BY <2>1
<1>3. /\ clearStackFunction(Written(results))
      /\ stack' = [stack EXCEPT !.values =
            IF nested THEN SubSeq(stack.values, 1, p)
            ELSE SubSeq(stack.values, 1, p) \o Nulls(cs - p)]
      /\ call_stack_funcs' = Front(call_stack_funcs)
      /\ ret_stack_funcs' = IF nested THEN Front(ret_stack_funcs) ELSE ret_stack_funcs
      /\ reloadStackFunctionCache
      /\ UNCHANGED <<func, held>>
  BY <1>2 DEF leave
<1>4. Pops
  BY <1>3 DEF Pops
<1>5. /\ h \in Frames /\ Frames = 1 .. h /\ h \in Nat
      /\ call_stack_funcs' \in Seq(Frame) /\ Len(call_stack_funcs') = h - 1
      /\ Frames' = Frames \ {h} /\ Frames' = 1 .. h - 1
      /\ \A k \in Frames' : call_stack_funcs'[k] = call_stack_funcs[k]
      /\ Running' <=> h # 1
      /\ Running' => h - 1 \in Frames' /\ Top' = call_stack_funcs[h - 1]
  BY <1>1, <1>4, FramePopped
<1>6. PICK s : s = Top.locals
  OBVIOUS
<1>7. PICK x \in V : x = copied(Written(results))
  BY CopiedValue
<1>8. Top = call_stack_funcs[h] /\ s \in LiveLocals /\ p \in Nat /\ cs \in Nat
  BY <1>1, <1>5, <1>6, Calls DEF FramesAlive
<1>9. Clears(s, x)
  BY <1>1, <1>3, <1>6, <1>7, <1>8, Cleared
<1>10. ReleaseStep(s) /\ \A k \in Frames' : call_stack_funcs'[k].locals # s
  BY <1>3, <1>4, <1>6, <1>9, LeaveReleases
<1>11. LiveFuncs' = LiveFuncs
  BY <1>3 DEF LiveFuncs
<1>12. /\ LiveLocals' = LiveLocals \ deleted(s)
       /\ Cardinality(LiveLocals') = Cardinality(LiveLocals) - Cardinality(deleted(s))
       /\ \A y \in LiveLocals' :
             locals'[y].ref_count = Cardinality(FrameRefs(y)') + Cardinality(FuncRefs(y)')
                                      + Cardinality(ScopeRefs(y)')
  BY <1>1, <1>8, <1>10, Release
<1>13. /\ ParentsAlive'
       /\ \A k \in Frames' : call_stack_funcs'[k].locals \in LiveLocals
                                => call_stack_funcs'[k].locals \in LiveLocals'
  BY <1>1, <1>3, <1>8, <1>10, <1>11, ReleaseLinks
<1>14. /\ locals' \in [Scopes -> Scope \cup {NoLocals}]
       /\ prog_refs' = prog_refs - Cardinality(deleted(s))
       /\ \A y \in LiveLocals' :
             /\ locals'[y].decl = locals[y].decl
             /\ y # s => locals'[y].values = locals[y].values
             /\ y = s => locals'[y].values = IF locals[s].decl \in Upvalue THEN OnHeap(x) ELSE Nil
  <2>1. LiveLocals' \subseteq Scopes
    BY DEF LiveLocals
  <2> QED BY <2>1, <1>9, <1>12 DEF Clears
<1>15. CountsExact' /\ prog_refs' \in Nat
  <2>1. IsFiniteSet(LiveLocals) /\ IsFiniteSet(LiveFuncs) /\ IsFiniteSet(deleted(s))
    BY <1>1, <1>8, Alive, Deleted, FS_Subset DEF CallStackAssumption
  <2>2. IsFiniteSet(LiveLocals')
    BY <2>1, <1>12, FS_Subset
  <2>3. /\ Cardinality(LiveLocals) \in Nat /\ Cardinality(LiveFuncs) \in Nat
        /\ Cardinality(deleted(s)) \in Nat /\ Cardinality(LiveLocals') \in Nat
    BY <2>1, <2>2, FS_CardinalityType
  <2>4. prog_refs = Cardinality(LiveFuncs) + Cardinality(LiveLocals)
    BY <1>1 DEF CountsExact
  <2>5. prog_refs' = Cardinality(LiveFuncs') + Cardinality(LiveLocals') /\ prog_refs' \in Nat
    BY <2>3, <2>4, <1>11, <1>12, <1>14
  <2> QED BY <2>5, <1>12 DEF CountsExact
<1>16. p <= cs /\ cs <= stack.capacity /\ p <= Len(stack.values)
  <2>1. p <= cs /\ cs <= stack.capacity
    BY <1>1, <1>5, <1>8 DEF FramesOrdered
  <2>2. call_stack_funcs[h].pos + 6 <= Len(stack.values) /\ Len(stack.values) \in Nat
    BY <1>5, Heights
  <2>3. p + 6 <= Len(stack.values)
    BY <2>2, <1>8
  <2> HIDE DEF p, cs
  <2> QED BY <2>1, <2>2, <2>3, <1>8
<1>17. /\ stack' \in [capacity : Nat, values : Seq(V)]
       /\ stack'.capacity = stack.capacity
       /\ Len(stack'.values) = IF nested THEN p ELSE cs
  <2> DEFINE a == SubSeq(stack.values, 1, p)
             b == Nulls(cs - p)
             w == IF nested THEN a ELSE a \o b
  <2>1. stack \in [capacity : Nat, values : Seq(V)]
    BY <1>1 DEF TypeOK
  <2>2. cs - p \in Nat
    <3> HIDE DEF cs, p
    <3> QED BY <1>8, <1>16
  <2>3. a \in Seq(V) /\ Len(a) = p
    <3>1. stack.values \in Seq(V)
      BY <2>1
    <3> HIDE DEF p, V
    <3> QED BY <3>1, <1>8, <1>16, Prefix
  <2>4. b \in Seq(V) /\ Len(b) = cs - p
    <3> HIDE DEF cs, p
    <3> QED BY <2>2, NullSlots
  <2>5. a \o b \in Seq(V) /\ Len(a \o b) = Len(a) + Len(b)
    <3>1. a \in Seq(V) /\ b \in Seq(V)
      BY <2>3, <2>4
    <3> HIDE DEF a, b, V
    <3> QED BY <3>1, ConcatProperties, Zenon
  <2>6. w \in Seq(V) /\ Len(w) = IF nested THEN p ELSE cs
    <3>1. Len(a) + Len(b) = cs
      <4> HIDE DEF a, b, cs, p
      <4> QED BY <2>3, <2>4, <1>8
    <3> HIDE DEF a, b, cs, p, V
    <3> QED BY <3>1, <2>3, <2>5
  <2>7. stack' = [stack EXCEPT !.values = w]
    BY <1>3
  <2> HIDE DEF w, V, p, cs
  <2> QED BY <2>1, <2>6, <2>7
<1>18. FramesOrdered' /\ StackCoversFrame' /\ ret_stack_funcs' \in Seq(Nat)
  BY <1>2, <1>3, <1>4, <1>17, LeaveOrder
<1>19. TypeOK'
  BY <1>1, <1>3, <1>5, <1>11, <1>14, <1>15, <1>17, <1>18 DEF TypeOK
<1> HIDE DEF h, p, cs, V
<1>20. FramesAlive'
  <2>1. ASSUME NEW k \in Frames'
        PROVE  /\ k \in Frames /\ call_stack_funcs'[k] = call_stack_funcs[k]
               /\ call_stack_funcs[k].func \in LiveFuncs
               /\ call_stack_funcs[k].sub_funcs \subseteq LiveFuncs
               /\ call_stack_funcs[k].locals \in LiveLocals'
               /\ locals'[call_stack_funcs[k].locals].decl = func[call_stack_funcs[k].func].decl
    BY <1>1, <1>5, <1>13, <1>14 DEF FramesAlive
  <2>2. \A j, k \in Frames' : call_stack_funcs'[j].locals = call_stack_funcs'[k].locals => j = k
    BY <2>1, <1>1 DEF FramesAlive
  <2> QED BY <2>1, <2>2, <1>3, <1>11 DEF FramesAlive
<1>21. PointersCurrent'
  <2>1. ASSUME NEW k \in Frames'
        PROVE  locals'[call_stack_funcs'[k].locals].values = InStack(stack'.capacity, call_stack_funcs'[k].pos)
    <3>1. k \in Frames /\ call_stack_funcs'[k] = call_stack_funcs[k]
      BY <1>5
    <3>2. call_stack_funcs[k].locals \in LiveLocals' /\ call_stack_funcs[k].locals # s
      BY <3>1, <1>1, <1>10, <1>13 DEF FramesAlive
    <3>3. locals[call_stack_funcs[k].locals].values = InStack(stack.capacity, call_stack_funcs[k].pos)
      BY <3>1, <1>1 DEF PointersCurrent
    <3> QED BY <3>1, <3>2, <3>3, <1>14, <1>17
  <2>2. stack_func_locals' = IF Running' THEN locals'[Top'.locals].values ELSE Nil
    BY <1>3 DEF reloadStackFunctionCache, Running, Top
  <2>3. ASSUME NEW y \in LiveLocals', \A k \in Frames' : call_stack_funcs'[k].locals # y
        PROVE  \/ locals'[y].decl \in Upvalue /\ \E v \in Vals \cup {Null} : locals'[y].values = OnHeap(v)
               \/ locals'[y].decl \notin Upvalue /\ locals'[y].values = Nil
    <3>1. CASE y = s
      <4>1. /\ locals'[y].decl = locals[s].decl
            /\ locals'[y].values = IF locals[s].decl \in Upvalue THEN OnHeap(x) ELSE Nil
        BY <3>1, <1>14
      <4>2. x \in Vals \cup {Null}
        BY <1>7 DEF V
      <4> QED BY <4>1, <4>2
    <3>2. CASE y # s
      <4>1. /\ y \in LiveLocals /\ locals'[y].decl = locals[y].decl
            /\ locals'[y].values = locals[y].values
        BY <3>2, <1>12, <1>14
      <4>2. \A k \in Frames : call_stack_funcs[k].locals # y
        <5>1. ASSUME NEW k \in Frames, k # h PROVE call_stack_funcs[k].locals # y
          BY <5>1, <2>3, <1>5
        <5>2. call_stack_funcs[h].locals # y
          BY <3>2, <1>6, <1>8
        <5> QED BY <5>1, <5>2
      <4> QED BY <4>1, <4>2, <1>1 DEF PointersCurrent
    <3> QED BY <3>1, <3>2
  <2> QED BY <2>1, <2>2, <2>3 DEF PointersCurrent
<1> QED BY <1>13, <1>15, <1>18, <1>19, <1>20, <1>21 DEF Inv, FramesCurrent

-----------------------------------------------------------------------------
(* Every step.                                                             *)

\* Try blocks are entered, left and reached by an exception.
LEMMA TryBlock ==
  ASSUME CallStackAssumption, Inv, stepTry \/ catch
  PROVE  Inv'
<1> DEFINE n == Len(call_stack_funcs)
           T == call_stack_funcs[n]
<1>1. TypeOK /\ FramesAlive
  BY DEF Inv, FramesCurrent
<1>2. Running
  BY DEF stepTry, catch
<1>3. n \in Frames /\ T \in Frame /\ T.in_try \in BOOLEAN
  BY <1>1, <1>2, Calls
<1>4. PICK b \in BOOLEAN : call_stack_funcs' = [call_stack_funcs EXCEPT ![n].in_try = b]
  <2>1. CASE stepTry
    <3>1. call_stack_funcs' = [call_stack_funcs EXCEPT ![n].in_try = ~T.in_try]
      BY <2>1 DEF stepTry
    <3>2. (~T.in_try) \in BOOLEAN
      BY <1>3
    <3> QED BY <3>1, <3>2
  <2>2. CASE catch
    BY <2>2 DEF catch
  <2> QED BY <2>1, <2>2
<1> DEFINE fr == [T EXCEPT !.in_try = b]
<1>5. call_stack_funcs' = [call_stack_funcs EXCEPT ![n] = fr]
  BY <1>4
<1> HIDE DEF T
<1>6. /\ fr \in Frame /\ fr.func = T.func /\ fr.locals = T.locals /\ fr.pos = T.pos
      /\ fr.caller_size = T.caller_size /\ fr.sub_funcs = T.sub_funcs
  BY <1>3 DEF Frame
<1> HIDE DEF fr, n
<1>7. /\ SameFrames
      /\ \A k \in Frames : call_stack_funcs'[k].sub_funcs =
            IF k = n THEN fr.sub_funcs ELSE call_stack_funcs[k].sub_funcs
  BY <1>1, <1>3, <1>5, <1>6, FrameChanged DEF T
<1>8. \A k \in Frames : call_stack_funcs'[k].sub_funcs \subseteq LiveFuncs
  BY <1>1, <1>6, <1>7 DEF T, FramesAlive
<1>9. /\ UNCHANGED <<memory, held, stack, ret_stack_funcs, stack_func_locals, call_stack_overflow>>
      /\ terminated' \in {"no", "exception", "exit"}
  BY <1>1 DEF stepTry, catch, TypeOK
<1> QED BY <1>2, <1>7, <1>8, <1>9, TryStep

\* The function of the program and nothing else.
LEMMA InitInv ==
  ASSUME CallStackAssumption, Init
  PROVE  Inv
<1>1. PICK f \in Funcs, d \in {d \in Decls : Outer[d] = Nil} :
        /\ func = [g \in Funcs |-> IF g = f THEN [decl |-> d, locals |-> Nil] ELSE NoFunc]
        /\ held = {f}
        /\ locals = [s \in Scopes |-> NoLocals]
        /\ prog_refs = 1
        /\ stack = [capacity |-> InitCapacity, values |-> << >>]
        /\ call_stack_funcs = << >>
        /\ ret_stack_funcs = << >>
        /\ stack_func_locals = Nil
        /\ terminated = "no"
        /\ call_stack_overflow = FALSE
  BY DEF Init
<1> DEFINE new == [decl |-> d, locals |-> Nil]
<1>2. new \in Function /\ new # NoFunc /\ new.locals = Nil /\ new.decl = d
  BY DEF Function, NoFunc, CallStackAssumption
<1>3. \A g \in Funcs : func[g] = IF g = f THEN new ELSE NoFunc
  BY <1>1
<1>4. func \in [Funcs -> Function \cup {NoFunc}]
  <2> HIDE DEF new
  <2>1. func = [g \in Funcs |-> func[g]]
    BY <1>1
  <2> QED BY <2>1, <1>2, <1>3
<1> HIDE DEF new
<1>5. LiveFuncs = {f} /\ LiveLocals = {} /\ Frames = {} /\ ~Running
  BY <1>1, <1>2, <1>3 DEF LiveFuncs, LiveLocals, Frames, Running
<1>6. TypeOK
  <2>1. locals \in [Scopes -> Scope \cup {NoLocals}]
    BY <1>1
  <2>2. stack \in [capacity : Nat, values : Seq(Vals \cup {Null})]
    <3>1. << >> \in Seq(Vals \cup {Null}) /\ InitCapacity \in Nat
      BY DEF CallStackAssumption
    <3> QED BY <3>1, <1>1
  <2>3. call_stack_funcs \in Seq(Frame) /\ ret_stack_funcs \in Seq(Nat)
    BY <1>1
  <2>4. held \subseteq LiveFuncs /\ prog_refs \in Nat
    BY <1>1, <1>5
  <2>5. terminated \in {"no", "exception", "exit"} /\ call_stack_overflow \in BOOLEAN
    BY <1>1
  <2> QED BY <2>1, <2>2, <2>3, <2>4, <2>5, <1>4, Zenon DEF TypeOK
<1>7. CountsExact
  <2>1. Cardinality({f}) = 1 /\ Cardinality({}) = 0
    BY FS_Singleton, FS_EmptySet
  <2> QED BY <2>1, <1>1, <1>5 DEF CountsExact
<1>8. ParentsAlive
  BY <1>2, <1>3, <1>5 DEF ParentsAlive
<1>9. FramesAlive /\ PointersCurrent
  BY <1>1, <1>5 DEF FramesAlive, PointersCurrent
<1>10. FramesOrdered /\ StackCoversFrame
  <2>1. Len(stack.values) = 0 /\ stack.capacity \in Nat
    BY <1>1 DEF CallStackAssumption
  <2> QED BY <2>1, <1>1, <1>5 DEF FramesOrdered, StackCoversFrame
<1> QED BY <1>6, <1>7, <1>8, <1>9, <1>10 DEF Inv, FramesCurrent

\* Inv is inductive.
LEMMA NextInv ==
  ASSUME CallStackAssumption, Inv, [Next]_vars
  PROVE  Inv'
<1>1. TypeOK /\ FramesAlive
  BY DEF Inv, FramesCurrent
<1>2. held \subseteq LiveFuncs /\ terminated \in {"no", "exception", "exit"} /\ call_stack_overflow \in BOOLEAN
  BY <1>1 DEF TypeOK
<1>3. ASSUME NEW f \in Funcs, NEW need \in Rets, NEW v \in Vals, OP_CALL(f, need, v)
      PROVE  Inv'
  <2>1. PICK start : start = Top.pos + NumLocals
    OBVIOUS
  <2>2. MayStart(start, FALSE) /\ callFT(f, need, v, start, FALSE)
    BY <1>3, <2>1, CallStarts DEF OP_CALL
  <2> QED BY <2>2, CallStep
<1>4. ASSUME NEW f \in Funcs, NEW need \in Rets, NEW v \in Vals, nestedCall(f, need, v)
      PROVE  Inv'
  <2>1. PICK start : start = Len(stack.values)
    OBVIOUS
  <2>2. MayStart(start, TRUE) /\ callFT(f, need, v, start, TRUE)
    BY <1>4, <2>1, NestedCallStarts DEF nestedCall
  <2> QED BY <2>2, CallStep
<1>5. ASSUME NEW v \in Vals, OP_RETURN(v)
      PROVE  Inv'
  <2>1. Running /\ UNCHANGED <<terminated, call_stack_overflow>>
    BY <1>5 DEF OP_RETURN
  <2>2. PICK got \in 0 .. Top.need : leave([k \in 1 .. Top.need |-> IF k <= got THEN v ELSE Null])
    BY <1>5 DEF OP_RETURN
  <2>3. PICK need \in Nat : need = Top.need
    BY <2>1, <1>1, Calls, Sizes
  <2>4. PICK results : results = [k \in 1 .. need |-> IF k <= got THEN v ELSE Null]
    OBVIOUS
  <2>5. results \in Seq(Vals \cup {Null})
    BY <2>4
  <2> QED BY <2>1, <2>2, <2>3, <2>4, <2>5, LeaveStep
<1>6. ASSUME unwind
      PROVE  Inv'
  <2>1. Running /\ leave(Nulls(Top.need)) /\ UNCHANGED <<terminated, call_stack_overflow>>
    BY <1>6 DEF unwind
  <2>2. PICK need \in Nat : need = Top.need
    BY <2>1, <1>1, Calls, Sizes
  <2>3. PICK results : results = Nulls(need)
    OBVIOUS
  <2>4. results \in Seq(Vals \cup {Null})
    BY <2>3, NullSlots
  <2> QED BY <2>1, <2>2, <2>3, <2>4, LeaveStep
<1>7. ASSUME throw \/ exit \/ resetTerminated
      PROVE  Inv'
  <2>1. /\ UNCHANGED <<memory, stack, calls, stack_func_locals>> /\ held' = held
        /\ terminated' \in {"no", "exception", "exit"} /\ call_stack_overflow' \in BOOLEAN
    BY <1>2, <1>7 DEF throw, exit, resetTerminated
  <2> QED BY <2>1, <1>2, Quiet
<1>8. ASSUME NEW f \in Funcs, hold(f) \/ drop(f)
      PROVE  Inv'
  <2>1. UNCHANGED <<memory, stack, calls, stack_func_locals, terminated, call_stack_overflow>>
    BY <1>8 DEF hold, drop
  <2>2. held' \subseteq LiveFuncs
    BY <1>2, <1>8, CallableAlive DEF hold, drop
  <2> QED BY <2>1, <2>2, <1>2, Quiet
<1>9. ASSUME NEW d \in Decls, OP_NEW_FUNCTION(d)
      PROVE  Inv'
  BY <1>9, NewFunction, NewFunctionKeeps
<1>10. CASE UNCHANGED vars
  <2>1. UNCHANGED <<memory, held, stack, calls, stack_func_locals, terminated, call_stack_overflow>>
    BY <1>10 DEF vars
  <2> QED BY <2>1, <1>2, Quiet
<1>11. CASE Next
  <2>1. ASSUME NEW v \in Vals, setLocal(v) PROVE Inv'
    BY <2>1, SetLocalStep
  <2>2. ASSUME NEW f \in Funcs, clearFunctionValue(f) PROVE Inv'
    BY <2>2, ClearFunctionStep
  <2>3. ASSUME NEW c \in 1 .. Cardinality(Scopes), NEW v \in Vals, OP_SET_UPVALUE(c, v) PROVE Inv'
    BY <2>3, SetUpvalueStep
  <2> QED BY <2>1, <2>2, <2>3, <1>3, <1>4, <1>5, <1>6, <1>7, <1>8, <1>9, <1>11, TryBlock DEF Next
<1> QED BY <1>10, <1>11

-----------------------------------------------------------------------------
(* Theorems.                                                               *)

\* Inv holds in every state.
LEMMA InvHolds == CallStackAssumption => (Spec => []Inv)
<1> SUFFICES ASSUME CallStackAssumption PROVE Spec => []Inv
  OBVIOUS
<1>1. Init => Inv
  BY InitInv
<1>2. Inv /\ [Next]_vars => Inv'
  BY NextInv
<1> QED BY <1>1, <1>2, PTL DEF Spec

\* Locals objects and programs are counted exactly, whatever deleteLocals, clearStackFunction,
\* the collector and callFT do in whatever order.
THEOREM CountsAreExact == CallStackAssumption => (Spec => []CountsExact)
<1>1. Inv => CountsExact
  BY DEF Inv
<1> QED BY <1>1, InvHolds, PTL

\* The pointers to outer scopes that callFT copies without retaining them never dangle.
THEOREM ParentsStayAlive == CallStackAssumption => (Spec => []ParentsAlive)
<1>1. Inv => ParentsAlive
  BY DEF Inv
<1> QED BY <1>1, InvHolds, PTL

\* Frames, their Locals objects, the cached pointer and the growing stack agree after every
\* call, return, exception and collection.
THEOREM FramesStayCurrent == CallStackAssumption => (Spec => []FramesCurrent)
<1>1. Inv => FramesCurrent
  BY DEF Inv
<1> QED BY <1>1, InvHolds, PTL

-----------------------------------------------------------------------------
(* deleteLocals reads the declaration.                                     *)

\* Where there is a scope there is a function: the innermost scope is a frame's or was
\* captured by a function.
LEMMA ScopesHaveFunctions ==
  ASSUME CallStackAssumption, Inv, LiveLocals # {}
  PROVE  LiveFuncs # {}
<1> DEFINE depths == {Len(locals[s].parents) : s \in LiveLocals}
<1>1. TypeOK /\ CountsExact /\ ParentsAlive /\ FramesAlive
  BY DEF Inv, FramesCurrent
<1>2. depths \in SUBSET Nat /\ depths # {}
  <2>1. \A s \in LiveLocals : Len(locals[s].parents) \in Nat
    BY <1>1, Around
  <2>2. \A x \in depths : x \in Nat
    BY <2>1, Zenon
  <2>3. depths # {}
    <3>1. PICK s : s \in LiveLocals
      OBVIOUS
    <3>2. Len(locals[s].parents) \in depths
      BY <3>1
    <3> QED BY <3>2
  <2> HIDE DEF depths
  <2> QED BY <2>2, <2>3
<1>3. IsFiniteSet(depths)
  <2>1. IsFiniteSet(LiveLocals)
    BY <1>1, Alive, FS_Subset DEF CallStackAssumption
  <2> DEFINE depth == [s \in LiveLocals |-> Len(locals[s].parents)]
  <2>2. depth \in Surjection(LiveLocals, depths)
    BY DEF Surjection
  <2> HIDE DEF depth, depths
  <2> QED BY <2>1, <2>2, FS_Surjection
<1>4. PICK d \in depths : \A e \in depths : d >= e
  <2> HIDE DEF depths
  <2> QED BY <1>2, <1>3, GreatestElement
<1>5. PICK s \in LiveLocals : d = Len(locals[s].parents)
  BY <1>4
<1>6. ScopeRefs(s) = {}
  <2> SUFFICES ASSUME NEW x \in ScopeRefs(s) PROVE FALSE
    OBVIOUS
  <2>1. x \in LiveLocals /\ Parent(x) = s /\ s # Nil
    BY <1>1, Alive DEF ScopeRefs, CallStackAssumption
  <2>2. Len(locals[x].parents) = d + 1 /\ Len(locals[x].parents) \in depths
    BY <2>1, <1>1, <1>5, Around
  <2>3. d \in Nat
    BY <1>2
  <2> HIDE DEF depths
  <2> QED BY <2>2, <2>3, <1>4
<1>7. Cardinality(FrameRefs(s)) # 0 \/ Cardinality(FuncRefs(s)) # 0
  <2>1. Cardinality(ScopeRefs(s)) = 0
    BY <1>6, FS_EmptySet
  <2>2. locals[s].ref_count \in Nat \ {0}
    BY <1>1, Alive
  <2>3. locals[s].ref_count = Cardinality(FrameRefs(s)) + Cardinality(FuncRefs(s))
                                + Cardinality(ScopeRefs(s))
    BY <1>1 DEF CountsExact
  <2> QED BY <2>1, <2>2, <2>3
<1>8. FrameRefs(s) # {} \/ FuncRefs(s) # {}
  BY <1>7, FS_EmptySet
<1>9. FrameRefs(s) # {} => LiveFuncs # {}
  BY <1>1 DEF FrameRefs, FramesAlive
<1> QED BY <1>8, <1>9 DEF FuncRefs

\* When a chain of scopes is deleted in one step, the program still has a reference after it
\* has been released for each of them, so the declaration can be read.
THEOREM DeclsStayReadable == CallStackAssumption => (Spec => DeclReadable)
<1> SUFFICES ASSUME CallStackAssumption PROVE Spec => DeclReadable
  OBVIOUS
<1>1. ASSUME Inv
      PROVE  LET gone == {s \in LiveLocals : locals'[s] = NoLocals} IN
             gone # {} => prog_refs - Cardinality(gone) > 0
  <2> DEFINE gone == {s \in LiveLocals : locals'[s] = NoLocals}
  <2>1. TypeOK /\ CountsExact
    BY <1>1 DEF Inv, FramesCurrent
  <2>2. IsFiniteSet(LiveLocals) /\ IsFiniteSet(LiveFuncs)
    BY <2>1, Alive, FS_Subset DEF CallStackAssumption
  <2>3. gone \subseteq LiveLocals
    OBVIOUS
  <2> HIDE DEF gone
  <2>4. Cardinality(gone) <= Cardinality(LiveLocals) /\ IsFiniteSet(gone)
    BY <2>2, <2>3, FS_Subset
  <2>5. /\ Cardinality(gone) \in Nat /\ Cardinality(LiveLocals) \in Nat
        /\ Cardinality(LiveFuncs) \in Nat
    BY <2>2, <2>4, FS_CardinalityType
  <2>6. gone # {} => Cardinality(LiveFuncs) # 0
    BY <2>2, <2>3, <1>1, ScopesHaveFunctions, FS_EmptySet
  <2>7. prog_refs = Cardinality(LiveFuncs) + Cardinality(LiveLocals)
    BY <2>1 DEF CountsExact
  <2>8. gone # {} => prog_refs - Cardinality(gone) > 0
    BY <2>4, <2>5, <2>6, <2>7
  <2> QED BY <2>8 DEF gone
<1> QED BY <1>1, InvHolds, PTL DEF Spec, DeclReadable

-----------------------------------------------------------------------------
(* Captured variables.                                                     *)

\* A step keeps the variables: those of the frames are in the same slots with the same values,
\* the copies on the heap are the same.
KeepsVariables(C) ==
  /\ C >= stack.capacity
  /\ \A k \in Frames : /\ locals'[call_stack_funcs[k].locals].values = InStack(C, call_stack_funcs[k].pos)
                       /\ stack'.values[call_stack_funcs[k].pos + NumLocals] =
                             stack.values[call_stack_funcs[k].pos + NumLocals]
  /\ \A s \in LiveLocals \cap LiveLocals' :
        (\A k \in Frames : call_stack_funcs[k].locals # s) => locals'[s].values = locals[s].values

LEMMA VariableSame ==
  ASSUME CallStackAssumption, Inv, NEW C \in Nat, KeepsVariables(C), NEW s \in Captured \cap Captured'
  PROVE  Variable(s)' = Variable(s)
<1>1. s \in LiveLocals /\ s \in LiveLocals' /\ locals[s].decl \in Upvalue
  BY DEF Captured
<1>2. ASSUME NEW k \in Frames, call_stack_funcs[k].locals = s PROVE Variable(s)' = Variable(s)
  <2> DEFINE p == call_stack_funcs[k].pos
  <2>1. /\ locals[s].values.capacity = stack.capacity /\ locals[s].values.pos = p
        /\ p + 6 <= Len(stack.values) /\ Len(stack.values) <= stack.capacity
        /\ Len(stack.values) \in Nat /\ stack.capacity \in Nat
    BY <1>2, Heights
  <2>2. p \in Nat
    BY Calls DEF Inv, FramesCurrent
  <2>3. locals'[s].values = InStack(C, p) /\ stack'.values[p + NumLocals] = stack.values[p + NumLocals]
    BY <1>2 DEF KeepsVariables
  <2>4. InStack(C, p).capacity = C /\ InStack(C, p).pos = p
    BY DEF InStack
  <2>5. C >= stack.capacity
    BY DEF KeepsVariables
  <2>6. stack.capacity > 0 /\ C > 0
    <3> HIDE DEF p
    <3> QED BY <2>1, <2>2, <2>5
  <2>7. Variable(s) = stack.values[p + NumLocals]
    BY <2>1, <2>6 DEF Variable
  <2>8. Variable(s)' = stack'.values[p + NumLocals]
    BY <2>3, <2>4, <2>6 DEF Variable
  <2> QED BY <2>3, <2>7, <2>8
<1>3. ASSUME \A k \in Frames : call_stack_funcs[k].locals # s PROVE Variable(s)' = Variable(s)
  <2>1. PICK x : locals[s].values = OnHeap(x)
    BY <1>1, <1>3, CapturedValues
  <2>2. locals'[s].values = locals[s].values
    BY <1>1, <1>3 DEF KeepsVariables
  <2>3. OnHeap(x).capacity = 0 /\ OnHeap(x).heap = x
    BY DEF OnHeap
  <2>4. Variable(s) = x /\ Variable(s)' = x
    BY <2>1, <2>2, <2>3 DEF Variable
  <2> QED BY <2>4
<1> QED BY <1>2, <1>3

\* Where the slot of a frame's variable is.
LEMMA VariableSlot ==
  ASSUME CallStackAssumption, Inv, NEW k \in Frames
  PROVE  /\ call_stack_funcs[k].pos + NumLocals \in 1 .. Len(stack.values)
         /\ stack.capacity \in Nat
<1> DEFINE p == call_stack_funcs[k].pos
<1>1. p \in Nat /\ NumLocals = 3
  BY Calls, Sizes DEF Inv, FramesCurrent
<1>2. p + 6 <= Len(stack.values) /\ Len(stack.values) \in Nat /\ stack.capacity \in Nat
  BY Heights
<1> HIDE DEF p
<1>3. p + NumLocals \in 1 .. Len(stack.values)
  BY <1>1, <1>2
<1> QED BY <1>2, <1>3 DEF p

\* Steps that leave the scopes and the stack alone.
LEMMA NothingKeeps ==
  ASSUME CallStackAssumption, Inv, locals' = locals, stack' = stack
  PROVE  \E C \in Nat : KeepsVariables(C)
<1>1. stack.capacity \in Nat /\ PointersCurrent
  BY DEF Inv, FramesCurrent, TypeOK
<1>2. KeepsVariables(stack.capacity)
  BY <1>1 DEF KeepsVariables, PointersCurrent
<1> QED BY <1>1, <1>2

\* A call begins behind the variables of the frames.
LEMMA CallKeeps ==
  ASSUME CallStackAssumption, Inv, NEW f, NEW need \in Rets, NEW v \in Vals, NEW start,
         NEW nested \in BOOLEAN, MayStart(start, nested), callFT(f, need, v, start, nested)
  PROVE  \E C \in Nat : KeepsVariables(C)
<1>1. f \in LiveFuncs /\ start \in Nat /\ TypeOK
  BY CallableAlive DEF callFT, MayStart, Inv, FramesCurrent
<1>2. CASE enter(f, need, v, start, nested)
  <2>1. PICK s, C : EnterStep(f, need, start, nested, s, C)
    BY <1>1, <1>2, Enter
  <2>2. /\ C \in Nat /\ C >= stack.capacity /\ s \notin LiveLocals
        /\ \A k \in Frames : locals'[call_stack_funcs[k].locals].values = InStack(C, call_stack_funcs[k].pos)
        /\ \A i \in 1 .. start : stack'.values[i] = stack.values[i]
        /\ \A x \in Scopes \ {s} :
              (\A k \in Frames : call_stack_funcs[k].locals # x) => locals'[x].values = locals[x].values
    BY <2>1 DEF EnterStep
  <2>3. ASSUME NEW k \in Frames
        PROVE  stack'.values[call_stack_funcs[k].pos + NumLocals] = stack.values[call_stack_funcs[k].pos + NumLocals]
    <3> DEFINE i == call_stack_funcs[k].pos + NumLocals
    <3>1. i <= start /\ i \in 1 .. Len(stack.values)
      BY VariableSlot DEF MayStart
    <3> HIDE DEF i
    <3>2. i \in 1 .. start
      BY <3>1, <1>1
    <3> QED BY <3>2, <2>2 DEF i
  <2>4. LiveLocals \subseteq Scopes \ {s}
    BY <2>2 DEF LiveLocals
  <2>5. KeepsVariables(C)
    BY <2>2, <2>3, <2>4 DEF KeepsVariables
  <2> QED BY <2>2, <2>5
<1>3. CASE overflow(start, need)
  <2> DEFINE n == needed(start, need)
             C == NewCapacity(n)
  <2>1. n \in Nat /\ C \in Nat /\ C >= stack.capacity
    BY <1>1, Room
  <2>2. locals' = movedLocals(n) /\ stack' = [stack EXCEPT !.capacity = C]
    BY <1>3 DEF overflow
  <2> HIDE DEF n
  <2>3. /\ \A k \in Frames : locals'[call_stack_funcs[k].locals].values = InStack(C, call_stack_funcs[k].pos)
        /\ \A x \in Scopes : (\A k \in Frames : call_stack_funcs[k].locals # x) => locals'[x] = locals[x]
    BY <2>1, <2>2, Grown
  <2> HIDE DEF C
  <2>4. stack'.values = stack.values
    BY <2>2, <1>1 DEF TypeOK
  <2>5. KeepsVariables(C)
    BY <2>1, <2>3, <2>4 DEF KeepsVariables, LiveLocals
  <2> QED BY <2>1, <2>5
<1> QED BY <1>2, <1>3 DEF callFT

LEMMA NewFunctionKeepsVariables ==
  ASSUME CallStackAssumption, Inv, NEW d \in Decls, OP_NEW_FUNCTION(d)
  PROVE  \E C \in Nat : KeepsVariables(C)
<1>1. TypeOK
  BY DEF Inv, FramesCurrent
<1>2. PICK f, fr, new, C : NewFunctionStep(d, f, fr, new, C)
  BY NewFunction
<1>3. /\ C \in Nat /\ C >= stack.capacity /\ locals' = new /\ stack' = [stack EXCEPT !.capacity = C]
      /\ \A k \in Frames : new[call_stack_funcs[k].locals].values = InStack(C, call_stack_funcs[k].pos)
      /\ \A x \in Scopes : (\A k \in Frames : call_stack_funcs[k].locals # x) => new[x].values = locals[x].values
  BY <1>2 DEF NewFunctionStep
<1>4. stack'.values = stack.values
  BY <1>1, <1>3 DEF TypeOK
<1>5. KeepsVariables(C)
  BY <1>3, <1>4 DEF KeepsVariables, LiveLocals
<1> QED BY <1>3, <1>5

\* A collection deletes scopes or leaves them as they are; it deletes no scope of a frame.
LEMMA CollectionKeeps ==
  ASSUME CallStackAssumption, Inv, NEW f \in Funcs, clearFunctionValue(f)
  PROVE  \E C \in Nat : KeepsVariables(C)
<1>1. TypeOK /\ ParentsAlive /\ PointersCurrent /\ Inv'
  BY ClearFunctionStep DEF Inv, FramesCurrent
<1>2. UNCHANGED <<stack, call_stack_funcs>>
  BY DEF clearFunctionValue, calls
<1> DEFINE s == func[f].locals
<1>3. s \in LiveLocals \cup {Nil}
  BY DEF clearFunctionValue, Garbage, ParentsAlive, Inv
<1>4. \A x \in LiveLocals' : x \in LiveLocals /\ locals'[x].values = locals[x].values
  <2>1. CASE s = Nil
    <3>1. locals' = locals
      BY <2>1 DEF clearFunctionValue
    <3> QED BY <3>1 DEF LiveLocals
  <2>2. CASE s # Nil
    <3>1. PICK z \in LiveLocals : z = s
      BY <2>2, <1>3
    <3>2. locals' = releaseLocals(z)
      BY <2>2, <3>1 DEF clearFunctionValue
    <3>3. \A x \in Scopes : IF x \in LiveLocals \ deleted(z) THEN locals'[x].values = locals[x].values
                            ELSE locals'[x] = NoLocals
      BY <3>2, <1>1, Freed
    <3> QED BY <3>3 DEF LiveLocals
  <2> QED BY <2>1, <2>2
<1>5. \A k \in Frames : call_stack_funcs[k].locals \in LiveLocals'
  <2>1. FramesAlive' /\ Frames' = Frames
    BY <1>1, <1>2 DEF Inv, FramesCurrent, Frames
  <2> QED BY <2>1, <1>2 DEF FramesAlive
<1>6. stack.capacity \in Nat
  BY <1>1 DEF TypeOK
<1>7. KeepsVariables(stack.capacity)
  BY <1>1, <1>2, <1>4, <1>5, <1>6 DEF KeepsVariables, PointersCurrent
<1> QED BY <1>6, <1>7

\* A return and an exception move the variable of the top frame to the heap, unless a result
\* has been written over it, and leave what is below.
LEMMA LeaveKeepsVariables ==
  ASSUME CallStackAssumption, Inv, Running, NEW results \in Seq(Vals \cup {Null}),
         Len(results) <= PRE_VARS, leave(results), NEW s \in Captured \cap Captured'
  PROVE  Variable(s)' = Variable(s)
<1> DEFINE h == Len(call_stack_funcs)
           V == Vals \cup {Null}
           p == Top.pos
           i == p + NumLocals
           n == Len(results)
           rest == Nulls(Top.caller_size - Top.pos)
<1>1. TypeOK /\ ParentsAlive /\ PointersCurrent /\ FramesAlive /\ FramesOrdered
  BY DEF Inv, FramesCurrent
<1>2. s \in LiveLocals /\ s \in LiveLocals' /\ locals[s].decl \in Upvalue
  BY DEF Captured
<1>3. /\ clearStackFunction(Written(results))
      /\ stack' = [stack EXCEPT !.values =
            IF Last(ret_stack_funcs) >= h - 1 THEN SubSeq(stack.values, 1, p)
            ELSE SubSeq(stack.values, 1, p) \o rest]
  BY DEF leave
<1>4. h \in Frames /\ Frames = 1 .. h /\ Top = call_stack_funcs[h] /\ p \in Nat
      /\ Top.caller_size \in Nat
  BY <1>1, Calls
<1>5. PICK t : t = Top.locals
  OBVIOUS
<1>6. t \in LiveLocals /\ \A k \in Frames : call_stack_funcs[k].locals = t <=> k = h
  BY <1>1, <1>4, <1>5 DEF FramesAlive
<1>7. PICK x \in V : x = copied(Written(results))
  BY CopiedValue
<1>8. Clears(t, x)
  BY <1>1, <1>3, <1>5, <1>6, <1>7, Cleared
<1>9. /\ s # t => locals'[s].values = locals[s].values
      /\ s = t => locals'[s].values = OnHeap(x)
  <2>1. s \in Scopes
    BY <1>1, <1>2, Alive
  <2>2. s \in LiveLocals \ deleted(t)
    BY <2>1, <1>2, <1>8 DEF Clears, LiveLocals
  <2> QED BY <2>1, <2>2, <1>2, <1>8 DEF Clears
<1>10. i \in 1 .. Len(stack.values) /\ Len(stack.values) \in Nat /\ NumLocals = 3 /\ PRE_VARS = 2
  BY <1>1, <1>4, VariableSlot, Sizes DEF TypeOK
<1>11. x = stack.values[i]
  <2>1. n \in Nat /\ n <= 2
    BY <1>10
  <2>2. i \notin p + 1 .. p + n
    <3> HIDE DEF p, n
    <3> QED BY <2>1, <1>4, <1>10
  <2>3. DOMAIN stack.values = 1 .. Len(stack.values)
    BY <1>1 DEF TypeOK
  <2>4. copied(Written(results)) = stack.values[i]
    BY <2>2, <2>3, <1>10 DEF copied, Written
  <2> QED BY <2>4, <1>7
<1>12. \A j \in 1 .. p : stack'.values[j] = stack.values[j]
  <2> DEFINE a == SubSeq(stack.values, 1, p)
  <2>1. stack \in [capacity : Nat, values : Seq(V)] /\ p <= Len(stack.values)
    <3>1. stack \in [capacity : Nat, values : Seq(V)]
      BY <1>1 DEF TypeOK
    <3> HIDE DEF p
    <3> QED BY <3>1, <1>4, <1>10
  <2>2. stack.values \in Seq(V)
    BY <2>1
  <2>3. a \in Seq(V) /\ Len(a) = p /\ \A j \in 1 .. p : a[j] = stack.values[j]
    <3> HIDE DEF p, V
    <3> QED BY <2>1, <2>2, <1>4, Prefix
  <2>4. \A j \in 1 .. p : (a \o rest)[j] = a[j]
    <3>1. p <= Top.caller_size
      BY <1>1, <1>4 DEF FramesOrdered
    <3>2. Top.caller_size - Top.pos \in Nat
      BY <3>1, <1>4
    <3>3. rest \in Seq(V) /\ Len(rest) \in Nat
      <4> DEFINE m == Top.caller_size - Top.pos
      <4>1. m \in Nat
        BY <3>2
      <4> HIDE DEF m
      <4>2. Nulls(m) \in Seq(V) /\ Len(Nulls(m)) = m
        BY <4>1, NullSlots
      <4> QED BY <4>1, <4>2 DEF m
    <3>4. \A j \in 1 .. Len(a) + Len(rest) : (a \o rest)[j] = IF j <= Len(a) THEN a[j] ELSE rest[j - Len(a)]
      <4>1. a \in Seq(V) /\ rest \in Seq(V)
        BY <2>3, <3>3
      <4> HIDE DEF a, rest, V
      <4> QED BY <4>1, ConcatProperties, Zenon
    <3> HIDE DEF a, rest, p
    <3> QED BY <3>3, <3>4, <2>3, <1>4
  <2>5. stack'.values = a \/ stack'.values = a \o rest
    <3> HIDE DEF a, rest
    <3>1. stack' = [stack EXCEPT !.values = a] \/ stack' = [stack EXCEPT !.values = a \o rest]
      BY <1>3 DEF a
    <3> QED BY <3>1, <2>1
  <2> HIDE DEF a, rest, p
  <2> QED BY <2>3, <2>4, <2>5
<1>13. CASE s = t
  <2>1. locals[s].values.pos = p /\ locals[s].values.capacity = stack.capacity /\ stack.capacity > 0
    <3>1. /\ call_stack_funcs[h].locals = s
          /\ locals[call_stack_funcs[h].locals].values.pos = call_stack_funcs[h].pos
          /\ locals[call_stack_funcs[h].locals].values.capacity = stack.capacity
          /\ call_stack_funcs[h].pos + 6 <= Len(stack.values)
          /\ Len(stack.values) <= stack.capacity /\ stack.capacity \in Nat
      BY <1>4, <1>6, <1>13, Heights
    <3>2. stack.capacity > 0
      <4>1. p + 6 <= Len(stack.values)
        BY <3>1, <1>4
      <4> HIDE DEF p
      <4> QED BY <3>1, <4>1, <1>4, <1>10
    <3> QED BY <3>1, <3>2, <1>4
  <2>2. Variable(s) = stack.values[i]
    BY <2>1 DEF Variable
  <2>3. OnHeap(x).capacity = 0 /\ OnHeap(x).heap = x
    BY DEF OnHeap
  <2>4. Variable(s)' = x
    BY <2>3, <1>9, <1>13 DEF Variable
  <2> QED BY <2>2, <2>4, <1>11
<1>14. ASSUME s # t, NEW k \in Frames, call_stack_funcs[k].locals = s
       PROVE  Variable(s)' = Variable(s)
  <2> DEFINE j == call_stack_funcs[k].pos + NumLocals
  <2>1. k # h /\ k < h
    BY <1>4, <1>6, <1>14
  <2>2. j <= p /\ j \in 1 .. Len(stack.values)
    BY <2>1, <1>1, <1>4, VariableSlot DEF FramesOrdered
  <2>3. j \in 1 .. p
    <3> HIDE DEF j, p
    <3> QED BY <2>2, <1>4
  <2>4. stack'.values[j] = stack.values[j]
    BY <2>3, <1>12
  <2>5. locals[s].values.pos = call_stack_funcs[k].pos /\ locals[s].values.capacity > 0
    <3>1. PICK m \in Frames : /\ call_stack_funcs[m].locals = s /\ locals[s].values.capacity > 0
                              /\ locals[s].values.pos = call_stack_funcs[m].pos
      BY <1>2, <1>14, CapturedValues
    <3>2. m = k
      BY <3>1, <1>1, <1>14 DEF FramesAlive
    <3> QED BY <3>1, <3>2
  <2>6. Variable(s) = stack.values[j]
    BY <2>5 DEF Variable
  <2>7. Variable(s)' = stack'.values[j]
    BY <2>5, <1>9, <1>14 DEF Variable
  <2> QED BY <2>4, <2>6, <2>7
<1>15. ASSUME \A k \in Frames : call_stack_funcs[k].locals # s
       PROVE  Variable(s)' = Variable(s)
  <2>1. s # t
    BY <1>4, <1>6, <1>15
  <2>2. PICK y : locals[s].values = OnHeap(y)
    BY <1>2, <1>15, CapturedValues
  <2>3. OnHeap(y).capacity = 0 /\ OnHeap(y).heap = y
    BY DEF OnHeap
  <2>4. Variable(s) = y /\ Variable(s)' = y
    BY <2>1, <2>2, <2>3, <1>9 DEF Variable
  <2> QED BY <2>4
<1> QED BY <1>13, <1>14, <1>15

\* The theorem's hypothesis: with three results and more OP_RETURN writes over the variable
\* before it is copied. Else calls, returns, exceptions, growth and collections keep it.
THEOREM VariablesAreKept ==
  CallStackAssumption /\ (\A r \in Rets : r <= PRE_VARS) => (Spec => VariableKept)
<1> SUFFICES ASSUME CallStackAssumption, \A r \in Rets : r <= PRE_VARS
             PROVE  Spec => VariableKept
  OBVIOUS
<1> DEFINE Assigned == \E v \in Vals : \/ setLocal(v)
                                       \/ \E c \in 1 .. Cardinality(Scopes) : OP_SET_UPVALUE(c, v)
           Kept == \A s \in Captured \cap Captured' : Variable(s)' # Variable(s) => Assigned
<1>1. ASSUME Inv, [Next]_vars PROVE Kept
  <2> SUFFICES ASSUME NEW s \in Captured \cap Captured' PROVE Variable(s)' = Variable(s) \/ Assigned
    OBVIOUS
  <2>0. TypeOK
    BY <1>1 DEF Inv, FramesCurrent
  <2> HIDE DEF Assigned
  <2>1. ASSUME \E C \in Nat : KeepsVariables(C) PROVE Variable(s)' = Variable(s)
    BY <2>1, <1>1, VariableSame
  <2>2. ASSUME locals' = locals, stack' = stack PROVE Variable(s)' = Variable(s)
    BY <2>2 DEF Variable
  <2>3. ASSUME NEW f \in Funcs, NEW need \in Rets, NEW v \in Vals, OP_CALL(f, need, v)
        PROVE  Variable(s)' = Variable(s)
    <3>1. PICK start : start = Top.pos + NumLocals
      OBVIOUS
    <3>2. MayStart(start, FALSE) /\ callFT(f, need, v, start, FALSE)
      BY <1>1, <2>3, <3>1, CallStarts DEF OP_CALL
    <3> QED BY <1>1, <2>1, <3>2, CallKeeps
  <2>4. ASSUME NEW f \in Funcs, NEW need \in Rets, NEW v \in Vals, nestedCall(f, need, v)
        PROVE  Variable(s)' = Variable(s)
    <3>1. PICK start : start = Len(stack.values)
      OBVIOUS
    <3>2. MayStart(start, TRUE) /\ callFT(f, need, v, start, TRUE)
      BY <1>1, <2>4, <3>1, NestedCallStarts DEF nestedCall
    <3> QED BY <1>1, <2>1, <3>2, CallKeeps
  <2>5. ASSUME NEW v \in Vals, OP_RETURN(v)
        PROVE  Variable(s)' = Variable(s)
    <3>1. Running
      BY <2>5 DEF OP_RETURN
    <3>2. PICK got \in 0 .. Top.need : leave([k \in 1 .. Top.need |-> IF k <= got THEN v ELSE Null])
      BY <2>5 DEF OP_RETURN
    <3>3. PICK need \in Nat : need = Top.need /\ need <= PRE_VARS
      BY <2>0, <3>1, Calls, Sizes
    <3>4. PICK results : results = [k \in 1 .. need |-> IF k <= got THEN v ELSE Null]
      OBVIOUS
    <3>5. results \in Seq(Vals \cup {Null}) /\ Len(results) = need
      BY <3>4
    <3> QED BY <1>1, <3>1, <3>2, <3>3, <3>4, <3>5, LeaveKeepsVariables
  <2>6. ASSUME unwind
        PROVE  Variable(s)' = Variable(s)
    <3>1. Running /\ leave(Nulls(Top.need))
      BY <2>6 DEF unwind
    <3>2. PICK need \in Nat : need = Top.need /\ need <= PRE_VARS
      BY <2>0, <3>1, Calls, Sizes
    <3>3. PICK results : results = Nulls(need)
      OBVIOUS
    <3>4. results \in Seq(Vals \cup {Null}) /\ Len(results) = need
      BY <3>3, NullSlots
    <3> QED BY <1>1, <3>1, <3>2, <3>3, <3>4, LeaveKeepsVariables
  <2>7. ASSUME throw \/ exit \/ resetTerminated \/ stepTry \/ catch
        PROVE  Variable(s)' = Variable(s)
    BY <2>2, <2>7 DEF throw, exit, resetTerminated, stepTry, catch, memory
  <2>8. ASSUME NEW f \in Funcs, hold(f) \/ drop(f)
        PROVE  Variable(s)' = Variable(s)
    BY <2>2, <2>8 DEF hold, drop, memory
  <2>9. ASSUME NEW f \in Funcs, clearFunctionValue(f)
        PROVE  Variable(s)' = Variable(s)
    BY <1>1, <2>1, <2>9, CollectionKeeps
  <2>10. ASSUME NEW d \in Decls, OP_NEW_FUNCTION(d)
         PROVE  Variable(s)' = Variable(s)
    BY <1>1, <2>1, <2>10, NewFunctionKeepsVariables
  <2>11. ASSUME NEW v \in Vals, setLocal(v)
         PROVE  Assigned
    BY <2>11 DEF Assigned
  <2>12. ASSUME NEW c \in 1 .. Cardinality(Scopes), NEW v \in Vals, OP_SET_UPVALUE(c, v)
         PROVE  Assigned
    BY <2>12 DEF Assigned
  <2>13. CASE UNCHANGED vars
    BY <2>2, <2>13 DEF vars, memory
  <2>14. CASE Next
    BY <2>3, <2>4, <2>5, <2>6, <2>7, <2>8, <2>9, <2>10, <2>11, <2>12, <2>14 DEF Next
  <2> QED BY <1>1, <2>13, <2>14
<1> QED BY <1>1, InvHolds, PTL DEF Spec, VariableKept
=============================================================================
