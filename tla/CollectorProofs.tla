-------------------------- MODULE CollectorProofs --------------------------
(***************************************************************************)
(* Proofs about the collector.  RefGC, for any number of values, fields,   *)
(* strings, handles and any stack: the machine never follows a pointer to  *)
(* freed memory.  ValueGC, for any values, any stack and any first size of *)
(* the table: what the table does is a behaviour of RefGC, its chains stay *)
(* sound while a sweep walks them, and a sweep leaves only marked values.  *)
(***************************************************************************)
EXTENDS ValueGC, FiniteSetTheorems, TLAPS

-----------------------------------------------------------------------------
(* Counting the places that hold a value.                                  *)

\* A finite set and the set with one element less or more.
LEMMA CountOneMore ==
    ASSUME NEW A, IsFiniteSet(A), NEW B, NEW p
    PROVE  /\ Cardinality(A) \in Nat
           /\ B = A \ {p} /\ p \in A =>
                Cardinality(B) \in Nat /\ Cardinality(A) = Cardinality(B) + 1
           /\ B = A \cup {p} /\ p \notin A =>
                Cardinality(B) \in Nat /\ Cardinality(B) = Cardinality(A) + 1
<1>1. Cardinality(A) \in Nat
  BY FS_CardinalityType
<1>2. ASSUME B = A \ {p}, p \in A
      PROVE  Cardinality(B) \in Nat /\ Cardinality(A) = Cardinality(B) + 1
  <2>1. IsFiniteSet(B) /\ Cardinality(B) = Cardinality(A) - 1
    BY <1>2, FS_RemoveElement
  <2> QED BY <1>1, <2>1, FS_CardinalityType
<1>3. ASSUME B = A \cup {p}, p \notin A
      PROVE  Cardinality(B) \in Nat /\ Cardinality(B) = Cardinality(A) + 1
  <2>1. Cardinality(B) = Cardinality(A) + 1
    BY <1>3, FS_AddElement
  <2> QED BY <1>1, <2>1
<1> QED BY <1>1, <1>2, <1>3

\* Nothing points to w when the number of places that do is zero.
LEMMA PointingZero ==
    ASSUME NEW S, IsFiniteSet(S), NEW T, NEW F \in [S -> T], NEW w,
           Cardinality(Pointing(F, w)) = 0
    PROVE  \A p \in S : F[p] # w
<1>1. IsFiniteSet(Pointing(F, w))
  <2>1. Pointing(F, w) \subseteq S BY DEF Pointing
  <2> QED BY <2>1, FS_Subset
<1> QED BY <1>1, FS_EmptySet DEF Pointing

\* There are finitely many places a reference can be in.
LEMMA FieldsFinite == IsFiniteSet(Ids \X Fields)
BY IdsAssumption, FS_Product

\* A push adds one value to those on the stack.
LEMMA ElementsAppend ==
    ASSUME NEW S, NEW s \in Seq(S), NEW v \in S
    PROVE  Elements(Append(s, v)) = Elements(s) \cup {v}
<1> DEFINE t == Append(s, v)
<1>1. /\ DOMAIN s = 1 .. Len(s) /\ DOMAIN t = 1 .. Len(s) + 1
      /\ Len(s) \in Nat
      /\ \A i \in 1 .. Len(s) : t[i] = s[i]
      /\ t[Len(s) + 1] = v
  OBVIOUS
<1> HIDE DEF t
<1>2. \A x : x \in Elements(s) => x \in Elements(t)
  BY <1>1 DEF Elements
<1>3. v \in Elements(t)
  BY <1>1 DEF Elements
<1>4. \A x : x \in Elements(t) => x \in Elements(s) \cup {v}
  <2> SUFFICES ASSUME NEW i \in DOMAIN t
               PROVE  t[i] \in Elements(s) \cup {v}
    BY DEF Elements
  <2>1. i \in 1 .. Len(s) \/ i = Len(s) + 1
    BY <1>1
  <2> QED BY <1>1, <2>1 DEF Elements
<1> QED BY <1>2, <1>3, <1>4 DEF t

\* A pop adds none.
LEMMA ElementsPop ==
    ASSUME NEW S, NEW s \in Seq(S), s # << >>
    PROVE  /\ SubSeq(s, 1, Len(s) - 1) \in Seq(S)
           /\ Elements(SubSeq(s, 1, Len(s) - 1)) \subseteq Elements(s)
<1> DEFINE t == SubSeq(s, 1, Len(s) - 1)
<1>1. /\ DOMAIN s = 1 .. Len(s) /\ Len(s) \in Nat \ {0}
      /\ t \in Seq(S) /\ DOMAIN t = 1 .. Len(s) - 1
      /\ \A i \in 1 .. Len(s) - 1 : t[i] = s[i]
  OBVIOUS
<1> HIDE DEF t
<1>2. Elements(t) \subseteq Elements(s)
  BY <1>1 DEF Elements
<1> QED BY <1>1, <1>2 DEF t

-----------------------------------------------------------------------------
(* What the invariant says about counts that are zero, or that are not.    *)

\* The number of references to a value is a natural number.
LEMMA HoldersType ==
    ASSUME TypeOK, NEW v
    PROVE  Cardinality(Holders(v)) \in Nat
<1>1. Holders(v) \subseteq Ids \X Fields
  BY DEF TypeOK, Holders, Pointing
<1> QED BY <1>1, FieldsFinite, FS_Subset, FS_CardinalityType

\* Writing one field changes the number of references to w by at most one.
LEMMA HoldersChange ==
    ASSUME TypeOK, NEW p \in Ids \X Fields, NEW x \in IdOrNil,
           field' = [field EXCEPT ![p] = x], NEW w
    PROVE  /\ Cardinality(Holders(w)) \in Nat /\ Cardinality(Holders(w)') \in Nat
           /\ field[p] = w /\ x # w =>
                Cardinality(Holders(w)) = Cardinality(Holders(w)') + 1
           /\ field[p] # w /\ x = w =>
                Cardinality(Holders(w)') = Cardinality(Holders(w)) + 1
           /\ (field[p] = w <=> x = w) =>
                Cardinality(Holders(w)') = Cardinality(Holders(w))
<1> DEFINE A == Holders(w)
           B == Holders(w)'
<1>1. field \in [Ids \X Fields -> IdOrNil]
  BY DEF TypeOK
<1>2. A \subseteq Ids \X Fields
  BY <1>1 DEF Holders, Pointing
<1>3. /\ field[p] = w /\ x # w => B = A \ {p} /\ p \in A
      /\ field[p] # w /\ x = w => B = A \cup {p} /\ p \notin A
      /\ (field[p] = w <=> x = w) => B = A
  BY <1>1 DEF Holders, Pointing
<1>4. IsFiniteSet(A)
  BY <1>2, FieldsFinite, FS_Subset
<1> HIDE DEF A, B
<1>5. /\ Cardinality(A) \in Nat /\ Cardinality(B) \in Nat
      /\ field[p] = w /\ x # w => Cardinality(A) = Cardinality(B) + 1
      /\ field[p] # w /\ x = w => Cardinality(B) = Cardinality(A) + 1
      /\ (field[p] = w <=> x = w) => Cardinality(B) = Cardinality(A)
  BY <1>3, <1>4, CountOneMore
<1> QED BY <1>5 DEF A, B

\* The same for the handles of a string.
LEMMA PinsChange ==
    ASSUME TypeOK, NEW h \in Handles, NEW x \in IdOrNil,
           handle' = [handle EXCEPT ![h] = x], NEW w
    PROVE  /\ Cardinality(Pins(w)) \in Nat /\ Cardinality(Pins(w)') \in Nat
           /\ handle[h] = w /\ x # w =>
                Cardinality(Pins(w)) = Cardinality(Pins(w)') + 1
           /\ handle[h] # w /\ x = w =>
                Cardinality(Pins(w)') = Cardinality(Pins(w)) + 1
           /\ (handle[h] = w <=> x = w) =>
                Cardinality(Pins(w)') = Cardinality(Pins(w))
<1> DEFINE A == Pins(w)
           B == Pins(w)'
<1>1. handle \in [Handles -> IdOrNil]
  BY DEF TypeOK
<1>2. A \subseteq Handles
  BY <1>1 DEF Pins, Pointing
<1>3. /\ handle[h] = w /\ x # w => B = A \ {h} /\ h \in A
      /\ handle[h] # w /\ x = w => B = A \cup {h} /\ h \notin A
      /\ (handle[h] = w <=> x = w) => B = A
  BY <1>1 DEF Pins, Pointing
<1>4. IsFiniteSet(A)
  BY <1>2, IdsAssumption, FS_Subset
<1> HIDE DEF A, B
<1>5. /\ Cardinality(A) \in Nat /\ Cardinality(B) \in Nat
      /\ handle[h] = w /\ x # w => Cardinality(A) = Cardinality(B) + 1
      /\ handle[h] # w /\ x = w => Cardinality(B) = Cardinality(A) + 1
      /\ (handle[h] = w <=> x = w) => Cardinality(B) = Cardinality(A)
  BY <1>3, <1>4, CountOneMore
<1> QED BY <1>5 DEF A, B

\* Nobody holds an id that is not allocated.
LEMMA NoHolders ==
    ASSUME TypeOK, FieldsOK, NEW v \in Ids, v \notin Allocated
    PROVE  Cardinality(Holders(v)) = 0
<1>1. Holders(v) = {}
  BY IdsAssumption DEF TypeOK, FieldsOK, Holders, Pointing
<1> QED BY <1>1, FS_EmptySet

\* A value that is held is allocated and has a positive count (releaseValue
\* asserts it).
LEMMA HolderCounted ==
    ASSUME IndInv, NEW v \in Ids, NEW f \in Fields, field[<<v, f>>] # Nil
    PROVE  /\ field[<<v, f>>] \in Ids /\ field[<<v, f>>] \in Allocated
           /\ ref_count[field[<<v, f>>]] >= 1
<1> DEFINE w == field[<<v, f>>]
<1>1. w \in Ids /\ w \in Allocated
  BY DEF IndInv, TypeOK, IdOrNil, FieldsOK
<1>2. Cardinality(Holders(w)) # 0
  <2>1. TypeOK BY DEF IndInv
  <2>2. field \in [Ids \X Fields -> IdOrNil] BY <2>1 DEF TypeOK
  <2>3. <<v, f>> \in Ids \X Fields /\ field[<<v, f>>] = w OBVIOUS
  <2> QED BY <2>2, <2>3, FieldsFinite, PointingZero DEF Holders
<1>3. Cardinality(Holders(w)) + CoreHolds(w) <= ref_count[w]
  BY <1>1 DEF IndInv, CountsCoverHolders
<1>4. Cardinality(Holders(w)) \in Nat
  BY HoldersType DEF IndInv
<1> QED BY <1>1, <1>2, <1>3, <1>4 DEF IndInv, TypeOK, CoreHolds

\* A value with a zero count is held by no field and is not immortal.
LEMMA ZeroCount ==
    ASSUME IndInv, NEW v \in Allocated, ref_count[v] = 0
    PROVE  /\ v # Root
           /\ \A w \in Ids, f \in Fields : field[<<w, f>>] # v
<1>1. v \in Ids
  BY DEF IndInv, TypeOK, Allocated
<1>2. ASSUME NEW w \in Ids, NEW f \in Fields, field[<<w, f>>] = v
      PROVE  FALSE
  <2>1. field[<<w, f>>] # Nil
    BY <1>1, <1>2, IdsAssumption
  <2>2. ref_count[v] >= 1
    BY <1>2, <2>1, HolderCounted
  <2> QED BY <2>2
<1>3. v # Root
  <2>1. Cardinality(Holders(v)) + CoreHolds(v) <= 0
    BY DEF IndInv, CountsCoverHolders
  <2>2. Cardinality(Holders(v)) \in Nat
    BY HoldersType DEF IndInv
  <2> QED BY <2>1, <2>2 DEF CoreHolds
<1> QED BY <1>2, <1>3

\* A string that a handle pins has a positive external_ref_count.
LEMMA PinCounted ==
    ASSUME IndInv, NEW h \in Handles, handle[h] # Nil
    PROVE  handle[h] \in Ids /\ external_ref_count[handle[h]] >= 1
<1> DEFINE v == handle[h]
<1>1. v \in Ids /\ handle \in [Handles -> IdOrNil]
  BY DEF IndInv, TypeOK, IdOrNil
<1>2. Cardinality(Pins(v)) # 0
  BY <1>1, PointingZero, IdsAssumption DEF Pins
<1>3. external_ref_count[v] = Cardinality(Pins(v))
  BY <1>1 DEF IndInv, PinsOK
<1> QED BY <1>1, <1>2, <1>3 DEF IndInv, TypeOK

\* Whatever the interpreter can name between collections is registered.
LEMMA NameableLive ==
    ASSUME IndInv, phase = "idle"
    PROVE  Nameable \subseteq values
<1>1. Allocated = values /\ Root \in values /\ OnStack \subseteq values
  BY DEF IndInv, PhasesOK, CandidatesOK, Running, Allocated
<1>2. \A v \in Ids, f \in Fields : field[<<v, f>>] # Nil => field[<<v, f>>] \in values
  BY <1>1 DEF IndInv, FieldsOK
<1>3. \A h \in Handles : handle[h] # Nil => handle[h] \in values
  BY <1>1 DEF IndInv, PinsOK
<1>4. Holding \subseteq Ids
  BY <1>1 DEF IndInv, TypeOK, Holding
<1> QED BY <1>1, <1>2, <1>3, <1>4, IdsAssumption DEF Nameable, Holding

-----------------------------------------------------------------------------
(* Every action keeps the invariant.                                       *)

\* pushObjectValue keeps the invariant.
LEMMA PushObjectValueInd ==
    ASSUME IndInv, NEW v \in Ids, pushObjectValue(v)
    PROVE  IndInv'
<1> USE IdsAssumption DEF IndInv
<1>1. TypeOK'
  BY DEF pushObjectValue, registerValueAndPush, pushOnStack, TypeOK, IdOrNil,
     Phases
<1>2. PhasesOK'
  BY DEF pushObjectValue, registerValueAndPush, pushOnStack, PhasesOK,
     Allocated, Running, TypeOK, IdOrNil
<1>3. FieldsOK'
  BY DEF pushObjectValue, registerValueAndPush, pushOnStack, FieldsOK,
     Allocated, TypeOK, IdOrNil, PhasesOK, Running
<1>4. CountsCoverHolders'
  <2> SUFFICES ASSUME NEW w \in Allocated'
               PROVE  Cardinality(Holders(w)) + CoreHolds(w) <= ref_count[w]
    BY DEF CountsCoverHolders, Holders, CoreHolds, pushObjectValue,
       registerValueAndPush
  <2>1. CASE w = v
    <3>1. v \notin Allocated /\ v # Root
      BY DEF pushObjectValue, registerValueAndPush, PhasesOK, Running, Allocated
    <3> QED BY <2>1, <3>1, NoHolders DEF CoreHolds, TypeOK
  <2>2. CASE w # v
    BY <2>2 DEF pushObjectValue, registerValueAndPush, Allocated,
       CountsCoverHolders
  <2> QED BY <2>1, <2>2
<1>5. PinsOK'
  BY DEF pushObjectValue, registerValueAndPush, pushOnStack, PinsOK, Pins,
     Allocated, Running, TypeOK, IdOrNil
<1>6. StringsOK'
  BY DEF pushObjectValue, registerValueAndPush, pushOnStack, StringsOK, TypeOK,
     PhasesOK, Allocated
<1>7. CandidatesOK'
  BY ElementsAppend DEF pushObjectValue, registerValueAndPush, pushOnStack,
     CandidatesOK, OnStack, Running, Allocated, TypeOK, PhasesOK
<1>8. MarksOK'
  BY DEF pushObjectValue, registerValueAndPush, pushOnStack, MarksOK, Closed,
     OnStack, TypeOK, IdOrNil, PhasesOK
<1> QED BY <1>1, <1>2, <1>3, <1>4, <1>5, <1>6, <1>7, <1>8

\* pushNewStringValue keeps the invariant.
LEMMA PushNewStringValueInd ==
    ASSUME IndInv, NEW v \in Ids, NEW s \in Contents, pushNewStringValue(v, s)
    PROVE  IndInv'
<1> USE IdsAssumption DEF IndInv
<1>1. TypeOK'
  BY DEF pushNewStringValue, registerValueAndPush, pushOnStack, TypeOK,
     IdOrNil, Phases
<1>2. PhasesOK'
  BY DEF pushNewStringValue, registerValueAndPush, pushOnStack, PhasesOK,
     Allocated, Running, TypeOK, IdOrNil
<1>3. FieldsOK'
  BY DEF pushNewStringValue, registerValueAndPush, pushOnStack, FieldsOK,
     Allocated, TypeOK, IdOrNil, PhasesOK, Running
<1>4. CountsCoverHolders'
  <2> SUFFICES ASSUME NEW w \in Allocated'
               PROVE  Cardinality(Holders(w)) + CoreHolds(w) <= ref_count[w]
    BY DEF CountsCoverHolders, Holders, CoreHolds, pushNewStringValue,
       registerValueAndPush
  <2>1. CASE w = v
    <3>1. v \notin Allocated /\ v # Root
      BY DEF pushNewStringValue, registerValueAndPush, PhasesOK, Running,
         Allocated
    <3> QED BY <2>1, <3>1, NoHolders DEF CoreHolds, TypeOK
  <2>2. CASE w # v
    BY <2>2 DEF pushNewStringValue, registerValueAndPush, Allocated,
       CountsCoverHolders
  <2> QED BY <2>1, <2>2
<1>5. PinsOK'
  BY DEF pushNewStringValue, registerValueAndPush, pushOnStack, PinsOK, Pins,
     Allocated, Running, TypeOK, IdOrNil
<1>6. StringsOK'
  BY DEF pushNewStringValue, registerValueAndPush, pushOnStack, StringsOK,
     TypeOK, PhasesOK, Allocated
<1>7. CandidatesOK'
  BY ElementsAppend DEF pushNewStringValue, registerValueAndPush, pushOnStack,
     CandidatesOK, OnStack, Running, Allocated, TypeOK, PhasesOK
<1>8. MarksOK'
  BY DEF pushNewStringValue, registerValueAndPush, pushOnStack, MarksOK,
     Closed, OnStack, TypeOK, IdOrNil, PhasesOK
<1> QED BY <1>1, <1>2, <1>3, <1>4, <1>5, <1>6, <1>7, <1>8

\* pushFoundStringValue keeps the invariant.
LEMMA PushFoundStringValueInd ==
    ASSUME IndInv, NEW v \in Ids, pushFoundStringValue(v)
    PROVE  IndInv'
<1> USE IdsAssumption DEF IndInv
<1>1. TypeOK'
  BY DEF pushFoundStringValue, pushOnStack, TypeOK, IdOrNil, Phases
<1>2. PhasesOK'
  BY DEF pushFoundStringValue, pushOnStack, PhasesOK, Allocated, Running,
     TypeOK, IdOrNil
<1>3. FieldsOK'
  BY DEF pushFoundStringValue, pushOnStack, FieldsOK, Allocated, TypeOK,
     IdOrNil, PhasesOK, Running
<1>4. CountsCoverHolders'
  BY DEF pushFoundStringValue, pushOnStack, CountsCoverHolders, Allocated,
     Holders, CoreHolds, TypeOK, IdOrNil
<1>5. PinsOK'
  BY DEF pushFoundStringValue, pushOnStack, PinsOK, Pins, Allocated, Running,
     TypeOK, IdOrNil
<1>6. StringsOK'
  BY DEF pushFoundStringValue, pushOnStack, StringsOK, TypeOK, PhasesOK,
     Allocated
<1>7. CandidatesOK'
  <2>1. OnStack' = OnStack \cup {v}
    BY ElementsAppend DEF pushFoundStringValue, pushOnStack, OnStack, TypeOK
  <2> QED BY <2>1 DEF pushFoundStringValue, CandidatesOK, StringsOK, Running,
             Allocated
<1>8. MarksOK'
  BY DEF pushFoundStringValue, pushOnStack, MarksOK, Closed, OnStack, TypeOK,
     IdOrNil, PhasesOK
<1> QED BY <1>1, <1>2, <1>3, <1>4, <1>5, <1>6, <1>7, <1>8

\* pushValue keeps the invariant.
LEMMA PushValueInd ==
    ASSUME IndInv, NEW v \in Ids, pushValue(v)
    PROVE  IndInv'
<1> USE IdsAssumption DEF IndInv
<1>1. TypeOK'
  BY DEF pushValue, pushOnStack, TypeOK, IdOrNil, Phases
<1>2. PhasesOK'
  BY DEF pushValue, pushOnStack, Nameable, Holding, PhasesOK, Allocated,
     Running, TypeOK, IdOrNil
<1>3. FieldsOK'
  BY DEF pushValue, pushOnStack, Nameable, Holding, FieldsOK, Allocated,
     TypeOK, IdOrNil, PhasesOK, Running
<1>4. CountsCoverHolders'
  BY DEF pushValue, pushOnStack, Nameable, Holding, CountsCoverHolders,
     Allocated, Holders, CoreHolds, TypeOK, IdOrNil
<1>5. PinsOK'
  BY DEF pushValue, pushOnStack, Nameable, Holding, PinsOK, Pins, Allocated,
     Running, TypeOK, IdOrNil
<1>6. StringsOK'
  BY DEF pushValue, pushOnStack, Nameable, Holding, StringsOK, TypeOK,
     PhasesOK, Allocated
<1>7. CandidatesOK'
  <2>1. OnStack' = OnStack \cup {v}
    BY ElementsAppend DEF pushValue, pushOnStack, OnStack, TypeOK
  <2>2. v \in values
    BY NameableLive DEF pushValue
  <2> QED BY <2>1, <2>2 DEF pushValue, CandidatesOK, Running, Allocated
<1>8. MarksOK'
  BY DEF pushValue, pushOnStack, Nameable, Holding, MarksOK, Closed, OnStack,
     TypeOK, IdOrNil, PhasesOK
<1> QED BY <1>1, <1>2, <1>3, <1>4, <1>5, <1>6, <1>7, <1>8

\* pop keeps the invariant.
LEMMA PopInd ==
    ASSUME IndInv, pop
    PROVE  IndInv'
<1> USE IdsAssumption DEF IndInv
<1>1. TypeOK'
  BY DEF pop, TypeOK, IdOrNil, Phases
<1>2. PhasesOK'
  BY DEF pop, PhasesOK, Allocated, Running, TypeOK, IdOrNil
<1>3. FieldsOK'
  BY DEF pop, FieldsOK, Allocated, TypeOK, IdOrNil, PhasesOK, Running
<1>4. CountsCoverHolders'
  BY DEF pop, CountsCoverHolders, Allocated, Holders, CoreHolds, TypeOK, IdOrNil
<1>5. PinsOK'
  BY DEF pop, PinsOK, Pins, Allocated, Running, TypeOK, IdOrNil
<1>6. StringsOK'
  BY DEF pop, StringsOK, TypeOK, PhasesOK, Allocated
<1>7. CandidatesOK'
  <2>1. OnStack' \subseteq OnStack
    BY ElementsPop DEF pop, OnStack, TypeOK
  <2> QED BY <2>1 DEF pop, CandidatesOK, Running, Allocated
<1>8. MarksOK'
  BY DEF pop, MarksOK, Closed, OnStack, TypeOK, IdOrNil, PhasesOK
<1> QED BY <1>1, <1>2, <1>3, <1>4, <1>5, <1>6, <1>7, <1>8

\* One field changes hands: the counts of the old and of the new value
\* follow.
LEMMA SetValueInd ==
    ASSUME IndInv, NEW h \in Ids, NEW f \in Fields, NEW w \in IdOrNil, setValue(h, f, w)
    PROVE  IndInv'
<1> USE IdsAssumption DEF IndInv
<1> DEFINE old == field[<<h, f>>]
<1>a. /\ \A v \in Ids, g \in Fields :
           field'[<<v, g>>] = IF v = h /\ g = f THEN w ELSE field[<<v, g>>]
      /\ w # old /\ phase = "idle"
  BY DEF setValue, TypeOK
<1>b. old # Nil => old \in Ids /\ old \in Allocated /\ ref_count[old] >= 1
  BY HolderCounted
<1>c. h \in values /\ (w # Nil => w \in values) /\ str[h] = Nil
  BY DEF setValue, CandidatesOK, Running, PhasesOK, Holding
<1>1. TypeOK'
  <2>1. ref_count' \in [Ids -> Nat]
    BY <1>b DEF setValue, TypeOK
  <2>2. candidates' \subseteq Ids /\ marked' \subseteq Ids
    BY <1>b DEF setValue, saveFreeCandidateValue, keepCandidates, TypeOK
  <2> QED BY <2>1, <2>2 DEF setValue, TypeOK, Phases
<1>2. PhasesOK'
  BY DEF setValue, saveFreeCandidateValue, keepCandidates, Holding, PhasesOK,
     Allocated, Running, TypeOK, IdOrNil
<1>3. FieldsOK'
  BY <1>a, <1>c DEF setValue, FieldsOK, Allocated
<1>4. CountsCoverHolders'
  <2> SUFFICES ASSUME NEW x \in Allocated'
               PROVE  Cardinality(Holders(x)') + CoreHolds(x) <= ref_count'[x]
    BY DEF CountsCoverHolders, CoreHolds
  <2>1. x \in Allocated /\ x \in Ids
    BY DEF setValue, Allocated, TypeOK
  <2>2. Cardinality(Holders(x)) + CoreHolds(x) <= ref_count[x]
    BY <2>1 DEF CountsCoverHolders
  <2>3. /\ Cardinality(Holders(x)) \in Nat /\ Cardinality(Holders(x)') \in Nat
        /\ old = x /\ w # x => Cardinality(Holders(x)) = Cardinality(Holders(x)') + 1
        /\ old # x /\ w = x => Cardinality(Holders(x)') = Cardinality(Holders(x)) + 1
        /\ (old = x <=> w = x) => Cardinality(Holders(x)') = Cardinality(Holders(x))
    <3> DEFINE p == <<h, f>>
    <3>1. p \in Ids \X Fields /\ field' = [field EXCEPT ![p] = w] /\ old = field[p]
      BY DEF setValue
    <3>2. TypeOK /\ w \in IdOrNil
      OBVIOUS
    <3> HIDE DEF p, old, IndInv
    <3> QED BY ONLY <3>1, <3>2, HoldersChange
  <2>4. ref_count'[x] = IF x = w THEN ref_count[x] + 1
                        ELSE IF x = old THEN ref_count[x] - 1 ELSE ref_count[x]
    BY <2>1 DEF setValue
  <2>5. ref_count[x] \in Nat /\ CoreHolds(x) \in Nat
    BY <2>1 DEF TypeOK, CoreHolds
  <2> HIDE DEF old
  <2> QED BY <1>a, <2>2, <2>3, <2>4, <2>5
<1>5. PinsOK'
  BY DEF setValue, saveFreeCandidateValue, keepCandidates, Holding, PinsOK,
     Pins, Allocated, Running, TypeOK, IdOrNil
<1>6. StringsOK'
  BY DEF setValue, saveFreeCandidateValue, keepCandidates, Holding, StringsOK,
     TypeOK, PhasesOK, Allocated
<1>7. CandidatesOK'
  BY <1>a, <1>b
     DEF setValue, saveFreeCandidateValue, keepCandidates, CandidatesOK, OnStack,
         Running, Allocated
<1>8. MarksOK'
  BY DEF setValue, saveFreeCandidateValue, keepCandidates, Holding, MarksOK,
     Closed, OnStack, TypeOK, IdOrNil, PhasesOK
<1> QED BY <1>1, <1>2, <1>3, <1>4, <1>5, <1>6, <1>7, <1>8

\* newString keeps the invariant.
LEMMA NewStringInd ==
    ASSUME IndInv, NEW h \in Handles, NEW v \in Ids, newString(h, v)
    PROVE  IndInv'
<1> USE IdsAssumption DEF IndInv
<1>1. TypeOK'
  BY DEF newString, TypeOK, IdOrNil, Phases
<1>2. PhasesOK'
  BY DEF newString, Nameable, Holding, PhasesOK, Allocated, Running, TypeOK,
     IdOrNil
<1>3. FieldsOK'
  BY DEF newString, Nameable, Holding, FieldsOK, Allocated, TypeOK, IdOrNil,
     PhasesOK, Running
<1>4. CountsCoverHolders'
  BY DEF newString, Nameable, Holding, CountsCoverHolders, Allocated, Holders,
     CoreHolds, TypeOK, IdOrNil
<1>5. PinsOK'
  <2>1. \A x \in Ids : external_ref_count'[x] = Cardinality(Pins(x)')
    <3> SUFFICES ASSUME NEW x \in Ids
                 PROVE  external_ref_count'[x] = Cardinality(Pins(x)')
      OBVIOUS
    <3>1. external_ref_count[x] = Cardinality(Pins(x))
      BY DEF PinsOK
    <3>2. /\ handle \in [Handles -> IdOrNil] /\ external_ref_count[x] \in Nat
          /\ handle' = [handle EXCEPT ![h] = v]
          /\ external_ref_count'[x] = IF x = v THEN external_ref_count[x] + 1
                                      ELSE external_ref_count[x]
      BY DEF newString, TypeOK
    <3>3. /\ Cardinality(Pins(x)') \in Nat
          /\ x = v => Cardinality(Pins(x)') = Cardinality(Pins(x)) + 1
          /\ x # v => Cardinality(Pins(x)') = Cardinality(Pins(x))
      <4>1. IsFiniteSet(Handles) /\ handle[h] = Nil /\ v # Nil /\ x # Nil /\ v \in IdOrNil
        BY DEF newString, IdOrNil
      <4> QED BY <3>2, <4>1, PinsChange
    <3> QED BY <3>1, <3>2, <3>3
  <2>2. v \in values /\ str[v] # Nil
    BY NameableLive DEF newString
  <2>3. \A g \in Handles : handle'[g] = IF g = h THEN v ELSE handle[g]
    BY DEF newString, TypeOK
  <2> QED BY <2>1, <2>2, <2>3 DEF newString, PinsOK, Allocated, Running, TypeOK
<1>6. StringsOK'
  BY DEF newString, Nameable, Holding, StringsOK, TypeOK, PhasesOK, Allocated
<1>7. CandidatesOK'
  BY DEF newString, Nameable, Holding, CandidatesOK, OnStack, Running,
     Allocated, TypeOK, PhasesOK
<1>8. MarksOK'
  BY DEF newString, Nameable, Holding, MarksOK, Closed, OnStack, TypeOK,
     IdOrNil, PhasesOK
<1> QED BY <1>1, <1>2, <1>3, <1>4, <1>5, <1>6, <1>7, <1>8

\* giveString keeps the invariant.
LEMMA GiveStringInd ==
    ASSUME IndInv, NEW h \in Handles, NEW v \in Ids, giveString(h, v)
    PROVE  IndInv'
<1> USE IdsAssumption DEF IndInv
<1>1. TypeOK'
  BY DEF giveString, TypeOK, IdOrNil, Phases
<1>2. PhasesOK'
  BY DEF giveString, PhasesOK, Allocated, Running, TypeOK, IdOrNil
<1>3. FieldsOK'
  BY DEF giveString, FieldsOK, Allocated, TypeOK, IdOrNil, PhasesOK, Running
<1>4. CountsCoverHolders'
  BY DEF giveString, CountsCoverHolders, Allocated, Holders, CoreHolds, TypeOK,
     IdOrNil
<1>5. PinsOK'
  <2>1. v \in values
    BY DEF giveString, CandidatesOK, Running
  <2>2. \A g \in Handles : owner'[g] = IF g = h THEN v ELSE owner[g]
    BY DEF giveString, TypeOK
  <2> QED BY <2>1, <2>2 DEF giveString, PinsOK, Pins, Allocated, Running
<1>6. StringsOK'
  BY DEF giveString, StringsOK, TypeOK, PhasesOK, Allocated
<1>7. CandidatesOK'
  BY DEF giveString, CandidatesOK, OnStack, Running, Allocated, TypeOK, PhasesOK
<1>8. MarksOK'
  BY DEF giveString, MarksOK, Closed, OnStack, TypeOK, IdOrNil, PhasesOK
<1> QED BY <1>1, <1>2, <1>3, <1>4, <1>5, <1>6, <1>7, <1>8

\* deleteString keeps the invariant.
LEMMA DeleteStringInd ==
    ASSUME IndInv, NEW h \in Handles, deleteString(h)
    PROVE  IndInv'
<1> USE IdsAssumption DEF IndInv
<1> DEFINE old == handle[h]
<1>a. old # Nil /\ old \in Ids /\ old \in Allocated /\ external_ref_count[old] >= 1
  BY PinCounted DEF deleteString, PinsOK
<1>1. TypeOK'
  BY <1>a DEF deleteString, releaseString, saveFreeCandidateValue,
     keepCandidates, TypeOK,
              IdOrNil, Phases
<1>2. PhasesOK'
  BY DEF deleteString, releaseString, saveFreeCandidateValue, keepCandidates,
     PhasesOK, Allocated, Running, TypeOK, IdOrNil
<1>3. FieldsOK'
  BY DEF deleteString, releaseString, saveFreeCandidateValue, keepCandidates,
     FieldsOK, Allocated, TypeOK, IdOrNil, PhasesOK, Running
<1>4. CountsCoverHolders'
  BY DEF deleteString, releaseString, saveFreeCandidateValue, keepCandidates,
     CountsCoverHolders, Allocated, Holders, CoreHolds, TypeOK, IdOrNil
<1>5. PinsOK'
  <2>1. \A x \in Ids : external_ref_count'[x] = Cardinality(Pins(x)')
    <3> SUFFICES ASSUME NEW x \in Ids
                 PROVE  external_ref_count'[x] = Cardinality(Pins(x)')
      OBVIOUS
    <3>1. external_ref_count[x] = Cardinality(Pins(x))
      BY DEF PinsOK
    <3>2. /\ handle \in [Handles -> IdOrNil] /\ external_ref_count[x] \in Nat
          /\ handle' = [handle EXCEPT ![h] = Nil]
          /\ external_ref_count'[x] = IF x = old THEN external_ref_count[x] - 1
                                      ELSE external_ref_count[x]
      BY DEF deleteString, releaseString, TypeOK
    <3>3. /\ Cardinality(Pins(x)') \in Nat
          /\ x = old => Cardinality(Pins(x)) = Cardinality(Pins(x)') + 1
          /\ x # old => Cardinality(Pins(x)') = Cardinality(Pins(x))
      <4>1. IsFiniteSet(Handles) /\ x # Nil /\ Nil \in IdOrNil
        BY DEF IdOrNil
      <4> QED BY <3>2, <4>1, PinsChange
    <3> QED BY <3>1, <3>2, <3>3
  <2>2. \A g \in Handles : handle'[g] = IF g = h THEN Nil ELSE handle[g]
    BY DEF deleteString, TypeOK
  <2> QED BY <2>1, <2>2 DEF deleteString, PinsOK, Allocated, Running, TypeOK
<1>6. StringsOK'
  BY DEF deleteString, releaseString, saveFreeCandidateValue, keepCandidates,
     StringsOK, TypeOK, PhasesOK, Allocated
<1>7. CandidatesOK'
  BY <1>a DEF deleteString, releaseString, saveFreeCandidateValue,
     keepCandidates,
              CandidatesOK, OnStack, Running, Allocated, PhasesOK
<1>8. MarksOK'
  BY DEF deleteString, releaseString, saveFreeCandidateValue, keepCandidates,
     MarksOK, Closed, OnStack, TypeOK, IdOrNil, PhasesOK
<1> QED BY <1>1, <1>2, <1>3, <1>4, <1>5, <1>6, <1>7, <1>8

\* releaseValue inside clearValue; the skipped release leaves an over-count,
\* never an under-count.
LEMMA ClearFieldInd ==
    ASSUME IndInv, NEW f \in Fields, clearField(f)
    PROVE  IndInv'
<1> USE IdsAssumption DEF IndInv
<1> DEFINE w == field[<<victim, f>>]
<1>a. /\ victim \in Ids /\ victim \in values /\ w # Nil
      /\ w \in Ids /\ w \in Allocated /\ ref_count[w] >= 1
  <2>1. victim \in Ids /\ victim \in values /\ w # Nil
    BY DEF clearField, TypeOK, IdOrNil, PhasesOK
  <2> QED BY <2>1, HolderCounted
<1>b. \A v \in Ids, g \in Fields :
         field'[<<v, g>>] = IF v = victim /\ g = f THEN Nil ELSE field[<<v, g>>]
  BY <1>a DEF clearField, TypeOK
<1>c. \/ ref_count' = ref_count /\ UNCHANGED <<candidates, marked>>
      \/ /\ ref_count' = [ref_count EXCEPT ![w] = @ - 1]
         /\ candidates' \subseteq candidates \cup {w}
         /\ \/ phase = "candidates" /\ marked' = marked \cup (candidates' \ candidates)
            \/ phase # "candidates" /\ w \in marked /\ marked' = marked
  BY DEF clearField, releaseValue, saveFreeCandidateValue, keepCandidates,
         gc_fix_in_progress, PhasesOK
<1>d. /\ ref_count' \in [Ids -> Nat]
      /\ \A x \in Ids : x # w => ref_count'[x] = ref_count[x]
      /\ ref_count'[w] \in {ref_count[w], ref_count[w] - 1}
  <2>1. \/ ref_count' = ref_count
        \/ ref_count' = [ref_count EXCEPT ![w] = ref_count[w] - 1]
    BY <1>c
  <2>2. ref_count \in [Ids -> Nat] /\ w \in Ids /\ ref_count[w] >= 1
    BY <1>a DEF TypeOK
  <2> HIDE DEF w
  <2> QED BY <2>1, <2>2
<1>1. TypeOK'
  <2>1. ref_count' \in [Ids -> Nat]
    BY <1>d
  <2>2. candidates' \subseteq Ids /\ marked' \subseteq Ids
    BY <1>a, <1>c DEF TypeOK
  <2> QED BY <2>1, <2>2 DEF clearField, TypeOK, IdOrNil, Phases
<1>2. PhasesOK'
  BY DEF clearField, releaseValue, saveFreeCandidateValue, keepCandidates,
     gc_fix_in_progress, PhasesOK, Allocated, Running, TypeOK, IdOrNil
<1>3. FieldsOK'
  BY DEF clearField, releaseValue, saveFreeCandidateValue, keepCandidates,
     gc_fix_in_progress, FieldsOK, Allocated, TypeOK, IdOrNil, PhasesOK,
     Running
<1>4. CountsCoverHolders'
  <2> SUFFICES ASSUME NEW x \in Allocated'
               PROVE  Cardinality(Holders(x)') + CoreHolds(x) <= ref_count'[x]
    BY DEF CountsCoverHolders, CoreHolds
  <2>1. x \in Allocated /\ x \in Ids
    BY DEF clearField, Allocated, TypeOK
  <2>2. Cardinality(Holders(x)) + CoreHolds(x) <= ref_count[x]
    BY <2>1 DEF CountsCoverHolders
  <2>3. /\ Cardinality(Holders(x)) \in Nat /\ Cardinality(Holders(x)') \in Nat
        /\ w = x => Cardinality(Holders(x)) = Cardinality(Holders(x)') + 1
        /\ w # x => Cardinality(Holders(x)') = Cardinality(Holders(x))
    <3>1. /\ field \in [Ids \X Fields -> IdOrNil] /\ <<victim, f>> \in Ids \X Fields
          /\ field' = [field EXCEPT ![<<victim, f>>] = Nil]
          /\ x # Nil /\ Nil \in IdOrNil
      BY <1>a, <2>1 DEF clearField, TypeOK, IdOrNil
    <3> QED BY <3>1, HoldersChange
  <2>4. \/ ref_count'[x] = ref_count[x]
        \/ ref_count'[x] = IF x = w THEN ref_count[x] - 1 ELSE ref_count[x]
    BY <1>d, <2>1
  <2>5. ref_count[x] \in Nat /\ CoreHolds(x) \in Nat
    BY <2>1 DEF TypeOK, CoreHolds
  <2> HIDE DEF w
  <2> QED BY <2>2, <2>3, <2>4, <2>5
<1>5. PinsOK'
  BY DEF clearField, releaseValue, saveFreeCandidateValue, keepCandidates,
     gc_fix_in_progress, PinsOK, Pins, Allocated, Running, TypeOK, IdOrNil
<1>6. StringsOK'
  BY DEF clearField, releaseValue, saveFreeCandidateValue, keepCandidates,
     gc_fix_in_progress, StringsOK, TypeOK, PhasesOK, Allocated
<1>7. CandidatesOK'
  <2>1. CASE phase = "candidates"
    <3>1. w # victim /\ victim \notin candidates \cup OnStack /\ victim # Nil
      BY <1>a, <2>1 DEF clearField, CandidatesOK
    <3>2. ref_count'[victim] = 0
      BY <1>a, <1>c, <2>1, <3>1 DEF clearField, CandidatesOK, TypeOK
    <3> QED BY <1>a, <1>c, <2>1, <3>1, <3>2
            DEF clearField, CandidatesOK, OnStack, Running, Allocated
  <2>2. CASE phase # "candidates"
    BY <1>a, <1>c, <2>2 DEF clearField, CandidatesOK, OnStack, Running,
       Allocated
  <2> QED BY <2>1, <2>2
<1>8. MarksOK'
  <2> SUFFICES ASSUME phase = "fix"
               PROVE  MarksOK'
    BY DEF clearField, MarksOK, PhasesOK
  <2>1. marked' = marked /\ candidates' \subseteq marked
    BY <1>c DEF MarksOK
  <2>2. Closed(marked)'
    BY <1>b, <2>1 DEF Closed, MarksOK, TypeOK
  <2> QED BY <2>1, <2>2 DEF clearField, MarksOK, OnStack
<1> QED BY <1>1, <1>2, <1>3, <1>4, <1>5, <1>6, <1>7, <1>8

\* The pins of a cleared owner go; its strings may become candidates.
LEMMA ClearHandleInd ==
    ASSUME IndInv, NEW h \in Handles, clearHandle(h)
    PROVE  IndInv'
<1> USE IdsAssumption DEF IndInv
<1> DEFINE old == handle[h]
<1>a. old # Nil /\ old \in Ids /\ old \in Allocated /\ external_ref_count[old] >= 1
  <2>1. owner[h] # Host
    BY DEF clearHandle, TypeOK, IdOrNil
  <2> QED BY <2>1, PinCounted DEF PinsOK
<1>1. TypeOK'
  BY <1>a DEF clearHandle, releaseString, saveFreeCandidateValue,
     keepCandidates, TypeOK,
              IdOrNil, Phases
<1>2. PhasesOK'
  BY DEF clearHandle, releaseString, saveFreeCandidateValue, keepCandidates,
     PhasesOK, Allocated, Running, TypeOK, IdOrNil
<1>3. FieldsOK'
  BY DEF clearHandle, releaseString, saveFreeCandidateValue, keepCandidates,
     FieldsOK, Allocated, TypeOK, IdOrNil, PhasesOK, Running
<1>4. CountsCoverHolders'
  BY DEF clearHandle, releaseString, saveFreeCandidateValue, keepCandidates,
     CountsCoverHolders, Allocated, Holders, CoreHolds, TypeOK, IdOrNil
<1>5. PinsOK'
  <2>1. \A x \in Ids : external_ref_count'[x] = Cardinality(Pins(x)')
    <3> SUFFICES ASSUME NEW x \in Ids
                 PROVE  external_ref_count'[x] = Cardinality(Pins(x)')
      OBVIOUS
    <3>1. external_ref_count[x] = Cardinality(Pins(x))
      BY DEF PinsOK
    <3>2. /\ handle \in [Handles -> IdOrNil] /\ external_ref_count[x] \in Nat
          /\ handle' = [handle EXCEPT ![h] = Nil]
          /\ external_ref_count'[x] = IF x = old THEN external_ref_count[x] - 1
                                      ELSE external_ref_count[x]
      BY DEF clearHandle, releaseString, TypeOK
    <3>3. /\ Cardinality(Pins(x)') \in Nat
          /\ x = old => Cardinality(Pins(x)) = Cardinality(Pins(x)') + 1
          /\ x # old => Cardinality(Pins(x)') = Cardinality(Pins(x))
      <4>1. IsFiniteSet(Handles) /\ x # Nil /\ Nil \in IdOrNil
        BY DEF IdOrNil
      <4> QED BY <3>2, <4>1, PinsChange
    <3> QED BY <3>1, <3>2, <3>3
  <2>2. \A g \in Handles : handle'[g] = IF g = h THEN Nil ELSE handle[g]
    BY DEF clearHandle, TypeOK
  <2>3. \A g \in Handles : owner'[g] = IF g = h THEN Host ELSE owner[g]
    BY DEF clearHandle, TypeOK
  <2> QED BY <2>1, <2>2, <2>3 DEF clearHandle, PinsOK, Allocated, Running,
             TypeOK
<1>6. StringsOK'
  BY DEF clearHandle, releaseString, saveFreeCandidateValue, keepCandidates,
     StringsOK, TypeOK, PhasesOK, Allocated
<1>7. CandidatesOK'
  <2>1. phase = "candidates" => old # victim
    BY <1>a DEF clearHandle, CandidatesOK, PhasesOK, TypeOK
  <2>2. \A x \in Ids : x # old => external_ref_count'[x] = external_ref_count[x]
    BY DEF clearHandle, releaseString, TypeOK
  <2>3. victim \in Ids
    BY DEF clearHandle, TypeOK, IdOrNil
  <2> QED BY <1>a, <2>1, <2>2, <2>3
          DEF clearHandle, releaseString, saveFreeCandidateValue, keepCandidates,
              CandidatesOK, OnStack, Running, Allocated
<1>8. MarksOK'
  <2> SUFFICES ASSUME phase = "fix"
               PROVE  MarksOK'
    BY DEF clearHandle, MarksOK, PhasesOK
  <2>1. old \in values /\ old # victim /\ str[old] # Nil
    BY <1>a DEF clearHandle, MarksOK, Allocated, PinsOK, Running
  <2>2. \A f \in Fields : field[<<old, f>>] = Nil
    BY <1>a, <2>1 DEF FieldsOK
  <2>3. \A x \in Ids : x # old => external_ref_count'[x] = external_ref_count[x]
    BY DEF clearHandle, releaseString, TypeOK
  <2>4. old \notin destroy_list
    BY <2>1 DEF PhasesOK
  <2>5. /\ candidates' \subseteq candidates \cup {old} /\ marked \subseteq marked'
        /\ marked' \subseteq marked \cup {old} /\ candidates' \subseteq marked'
        /\ {Root} \cup OnStack \subseteq marked /\ marked \subseteq values
    BY DEF clearHandle, releaseString, saveFreeCandidateValue, keepCandidates,
       MarksOK
  <2>6. Closed(marked)'
    BY <2>2, <2>5 DEF clearHandle, Closed, MarksOK
  <2>7. \A v \in destroy_list \cup {victim} : v # Nil =>
           v \notin marked' /\ external_ref_count'[v] = 0
    BY <2>1, <2>3, <2>4, <2>5 DEF MarksOK, TypeOK, IdOrNil
  <2> QED BY <2>1, <2>5, <2>6, <2>7 DEF clearHandle, MarksOK, OnStack
<1> QED BY <1>1, <1>2, <1>3, <1>4, <1>5, <1>6, <1>7, <1>8

\* Nobody holds the value when the candidate sweep deletes it, because its
\* count is zero.
LEMMA EndClearInd ==
    ASSUME IndInv, endClear
    PROVE  IndInv'
<1> USE IdsAssumption DEF IndInv
<1>a. /\ victim # Nil /\ victim \in Ids /\ victim \in values \ string_refs
      /\ phase \in {"candidates", "fix", "down"}
      /\ \A f \in Fields : field[<<victim, f>>] = Nil
      /\ \A h \in Handles : owner[h] # victim
  BY DEF endClear, Cleared, TypeOK, IdOrNil, PhasesOK
<1>b. phase = "candidates" => destroy_list' = {} /\ destroy_list = {}
  BY DEF endClear, gc_fix_in_progress, PhasesOK
<1>c. phase # "candidates" =>
        destroy_list' = destroy_list \cup {victim} /\ Allocated' = Allocated
  BY <1>a DEF endClear, gc_fix_in_progress, Allocated
<1>d. phase = "candidates" =>
        /\ victim # Root
        /\ \A v \in Ids, f \in Fields : field[<<v, f>>] # victim
        /\ \A h \in Handles : handle[h] # victim
        /\ victim \notin candidates \cup OnStack
  <2> SUFFICES ASSUME phase = "candidates"
               PROVE  /\ victim # Root
                      /\ \A v \in Ids, f \in Fields : field[<<v, f>>] # victim
                      /\ \A h \in Handles : handle[h] # victim
                      /\ victim \notin candidates \cup OnStack
    OBVIOUS
  <2>1. /\ ref_count[victim] = 0 /\ external_ref_count[victim] = 0
        /\ victim \notin candidates \cup OnStack
    BY <1>a DEF CandidatesOK
  <2>2. \A h \in Handles : handle[h] # victim
    BY <1>a, <2>1, PinCounted
  <2>3. victim \in Allocated
    BY <1>a DEF Allocated
  <2> QED BY <2>1, <2>2, <2>3, ZeroCount
<1>e. phase = "fix" => victim # Root /\ victim \notin OnStack \cup candidates
  BY <1>a DEF MarksOK
<1>1. TypeOK'
  BY DEF endClear, Cleared, gc_fix_in_progress, TypeOK, IdOrNil, Phases
<1>2. PhasesOK'
  BY <1>a, <1>b, <1>c, <1>d, <1>e DEF endClear, PhasesOK, Allocated, Running
<1>3. FieldsOK'
  <2>1. \A v \in Ids : v # victim => str'[v] = str[v]
    BY DEF endClear, TypeOK
  <2>2. CASE phase = "candidates"
    BY <1>a, <1>b, <1>d, <2>1, <2>2 DEF endClear, FieldsOK, Allocated
  <2>3. CASE phase # "candidates"
    BY <1>a, <1>c, <2>1, <2>3 DEF endClear, FieldsOK
  <2> QED BY <2>2, <2>3
<1>4. CountsCoverHolders'
  <2>1. Allocated' \subseteq Allocated
    BY <1>a, <1>b, <1>c DEF endClear, Allocated
  <2> QED BY <2>1 DEF endClear, CountsCoverHolders, Holders, CoreHolds
<1>5. PinsOK'
  <2>1. \A v \in Ids : v # victim => str'[v] = str[v]
    BY DEF endClear, TypeOK
  <2>2. Running => \A h \in Handles : handle[h] # victim
    BY <1>a, <1>d, PinCounted DEF Running, MarksOK
  <2>3. \A h \in Handles : handle[h] # Nil => handle[h] \in Ids /\ handle[h] \in Allocated'
    BY <1>b, <1>c, <1>d DEF PinsOK, TypeOK, IdOrNil, endClear, Allocated
  <2>4. Running' = Running /\ external_ref_count' = external_ref_count /\ handle' = handle
        /\ owner' = owner /\ values' = values \ {victim}
    BY DEF endClear, Running
  <2> QED BY <1>a, <2>1, <2>2, <2>3, <2>4 DEF PinsOK, Pins
<1>6. StringsOK'
  BY <1>a DEF endClear, StringsOK, TypeOK
<1>7. CandidatesOK'
  <2>1. CASE phase = "candidates"
    BY <1>a, <1>b, <1>d, <2>1 DEF endClear, CandidatesOK, OnStack, Running,
       Allocated
  <2>2. CASE phase # "candidates"
    BY <1>a, <1>c, <1>e, <2>2 DEF endClear, CandidatesOK, OnStack, Running
  <2> QED BY <2>1, <2>2
<1>8. MarksOK'
  BY DEF endClear, Cleared, gc_fix_in_progress, MarksOK, Closed, OnStack,
     TypeOK, IdOrNil, PhasesOK
<1> QED BY <1>1, <1>2, <1>3, <1>4, <1>5, <1>6, <1>7, <1>8

\* gcStart keeps the invariant.
LEMMA GcStartInd ==
    ASSUME IndInv, gcStart
    PROVE  IndInv'
<1> USE IdsAssumption DEF IndInv
<1>1. TypeOK'
  BY DEF gcStart, TypeOK, IdOrNil, Phases
<1>2. PhasesOK'
  BY DEF gcStart, PhasesOK, Allocated, Running, TypeOK, IdOrNil
<1>3. FieldsOK'
  BY DEF gcStart, FieldsOK, Allocated, TypeOK, IdOrNil, PhasesOK, Running
<1>4. CountsCoverHolders'
  BY DEF gcStart, CountsCoverHolders, Allocated, Holders, CoreHolds, TypeOK,
     IdOrNil
<1>5. PinsOK'
  BY DEF gcStart, PinsOK, Pins, Allocated, Running, TypeOK, IdOrNil
<1>6. StringsOK'
  BY DEF gcStart, StringsOK, TypeOK, PhasesOK, Allocated
<1>7. CandidatesOK'
  BY DEF gcStart, CandidatesOK, OnStack, Running, Allocated, TypeOK, PhasesOK
<1>8. MarksOK'
  BY DEF gcStart, MarksOK, Closed, OnStack, TypeOK, IdOrNil, PhasesOK
<1> QED BY <1>1, <1>2, <1>3, <1>4, <1>5, <1>6, <1>7, <1>8

\* gcUnlink keeps the invariant.
LEMMA GcUnlinkInd ==
    ASSUME IndInv, NEW c \in Ids, NEW lost \in SUBSET candidates, gcUnlink(c, lost)
    PROVE  IndInv'
<1> USE IdsAssumption DEF IndInv
<1>1. TypeOK'
  BY DEF gcUnlink, TypeOK, IdOrNil, Phases
<1>2. PhasesOK'
  BY DEF gcUnlink, PhasesOK, Allocated, Running, TypeOK, IdOrNil
<1>3. FieldsOK'
  BY DEF gcUnlink, FieldsOK, Allocated, TypeOK, IdOrNil, PhasesOK, Running
<1>4. CountsCoverHolders'
  BY DEF gcUnlink, CountsCoverHolders, Allocated, Holders, CoreHolds, TypeOK,
     IdOrNil
<1>5. PinsOK'
  BY DEF gcUnlink, PinsOK, Pins, Allocated, Running, TypeOK, IdOrNil
<1>6. StringsOK'
  BY DEF gcUnlink, StringsOK, TypeOK, PhasesOK, Allocated
<1>7. CandidatesOK'
  BY DEF gcUnlink, CandidatesOK, OnStack, Running, Allocated, TypeOK, PhasesOK
<1>8. MarksOK'
  BY DEF gcUnlink, MarksOK, Closed, OnStack, TypeOK, IdOrNil, PhasesOK
<1> QED BY <1>1, <1>2, <1>3, <1>4, <1>5, <1>6, <1>7, <1>8

\* gcFree keeps the invariant.
LEMMA GcFreeInd ==
    ASSUME IndInv, NEW c \in Ids, NEW lost \in SUBSET candidates, gcFree(c, lost)
    PROVE  IndInv'
<1> USE IdsAssumption DEF IndInv
<1>1. TypeOK'
  BY DEF gcFree, startClear, TypeOK, IdOrNil, Phases
<1>2. PhasesOK'
  <2>1. c \in values
    BY DEF gcFree, CandidatesOK, PhasesOK, Allocated
  <2> QED BY <2>1 DEF gcFree, startClear, PhasesOK, Allocated, Running
<1>3. FieldsOK'
  BY DEF gcFree, startClear, FieldsOK, Allocated, TypeOK, IdOrNil, PhasesOK,
     Running
<1>4. CountsCoverHolders'
  BY DEF gcFree, startClear, CountsCoverHolders, Allocated, Holders, CoreHolds,
     TypeOK, IdOrNil
<1>5. PinsOK'
  BY DEF gcFree, startClear, PinsOK, Pins, Allocated, Running, TypeOK, IdOrNil
<1>6. StringsOK'
  BY DEF gcFree, startClear, StringsOK, TypeOK, PhasesOK, Allocated
<1>7. CandidatesOK'
  BY DEF gcFree, startClear, CandidatesOK, OnStack, Running, Allocated, TypeOK,
     PhasesOK
<1>8. MarksOK'
  BY DEF gcFree, startClear, MarksOK, Closed, OnStack, TypeOK, IdOrNil, PhasesOK
<1> QED BY <1>1, <1>2, <1>3, <1>4, <1>5, <1>6, <1>7, <1>8

\* gcEnd keeps the invariant.
LEMMA GcEndInd ==
    ASSUME IndInv, gcEnd
    PROVE  IndInv'
<1> USE IdsAssumption DEF IndInv
<1>1. TypeOK'
  BY DEF gcEnd, TypeOK, IdOrNil, Phases
<1>2. PhasesOK'
  BY DEF gcEnd, PhasesOK, Allocated, Running, TypeOK, IdOrNil
<1>3. FieldsOK'
  BY DEF gcEnd, FieldsOK, Allocated, TypeOK, IdOrNil, PhasesOK, Running
<1>4. CountsCoverHolders'
  BY DEF gcEnd, CountsCoverHolders, Allocated, Holders, CoreHolds, TypeOK,
     IdOrNil
<1>5. PinsOK'
  BY DEF gcEnd, PinsOK, Pins, Allocated, Running, TypeOK, IdOrNil
<1>6. StringsOK'
  BY DEF gcEnd, StringsOK, TypeOK, PhasesOK, Allocated
<1>7. CandidatesOK'
  BY DEF gcEnd, CandidatesOK, OnStack, Running, Allocated, TypeOK, PhasesOK
<1>8. MarksOK'
  BY DEF gcEnd, MarksOK, Closed, OnStack, TypeOK, IdOrNil, PhasesOK
<1> QED BY <1>1, <1>2, <1>3, <1>4, <1>5, <1>6, <1>7, <1>8

\* The marked set is closed under references and holds every root.
LEMMA GcMarkInd ==
    ASSUME IndInv, gcMark
    PROVE  IndInv'
<1> USE IdsAssumption DEF IndInv
<1>1. TypeOK'
  BY DEF gcMark, TypeOK, Phases, ReachableFrom
<1>2. PhasesOK'
  BY DEF gcMark, PhasesOK, Allocated, Running, TypeOK, IdOrNil
<1>3. FieldsOK'
  BY DEF gcMark, FieldsOK, Allocated, TypeOK, IdOrNil, PhasesOK, Running
<1>4. CountsCoverHolders'
  BY DEF gcMark, CountsCoverHolders, Allocated, Holders, CoreHolds, TypeOK,
     IdOrNil
<1>5. PinsOK'
  BY DEF gcMark, PinsOK, Pins, Allocated, Running, TypeOK, IdOrNil
<1>6. StringsOK'
  BY DEF gcMark, StringsOK, TypeOK, PhasesOK, Allocated
<1>7. CandidatesOK'
  BY DEF gcMark, CandidatesOK, OnStack, Running, Allocated, TypeOK, PhasesOK
<1>8. MarksOK'
  <2>1. MarkRoots \subseteq values /\ Closed(values) /\ values \subseteq Ids
    <3>1. Allocated = values
      BY DEF gcMark, PhasesOK, Allocated
    <3> QED BY <3>1 DEF gcMark, PhasesOK, CandidatesOK, FieldsOK, MarkRoots,
               Closed,
                        Running, TypeOK
  <2>2. marked' \subseteq values
    BY <2>1 DEF gcMark, ReachableFrom
  <2>3. MarkRoots \subseteq marked'
    BY <2>1 DEF gcMark, ReachableFrom
  <2>4. Closed(marked')
    <3> SUFFICES ASSUME NEW v \in marked', NEW f \in Fields, field[<<v, f>>] # Nil
                 PROVE  field[<<v, f>>] \in marked'
      BY DEF Closed
    <3>1. field[<<v, f>>] \in Ids
      BY <2>1, <2>2 DEF TypeOK, IdOrNil
    <3>2. \A S \in SUBSET Ids : MarkRoots \subseteq S /\ Closed(S) => field[<<v, f>>] \in S
      BY DEF gcMark, ReachableFrom, Closed
    <3> QED BY <3>1, <3>2 DEF gcMark, ReachableFrom
  <2> QED BY <2>2, <2>3, <2>4 DEF gcMark, MarksOK, MarkRoots, Closed, OnStack,
             PhasesOK
<1> QED BY <1>1, <1>2, <1>3, <1>4, <1>5, <1>6, <1>7, <1>8

\* A pinned string holds no reference, so the marked set stays closed.
LEMMA GcKeepExternalInd ==
    ASSUME IndInv, NEW v \in Ids, gcKeepExternal(v)
    PROVE  IndInv'
<1> USE IdsAssumption DEF IndInv
<1>1. TypeOK'
  BY DEF gcKeepExternal, TypeOK, IdOrNil, Phases
<1>2. PhasesOK'
  BY DEF gcKeepExternal, PhasesOK, Allocated, Running, TypeOK, IdOrNil
<1>3. FieldsOK'
  BY DEF gcKeepExternal, FieldsOK, Allocated, TypeOK, IdOrNil, PhasesOK, Running
<1>4. CountsCoverHolders'
  BY DEF gcKeepExternal, CountsCoverHolders, Allocated, Holders, CoreHolds,
     TypeOK, IdOrNil
<1>5. PinsOK'
  BY DEF gcKeepExternal, PinsOK, Pins, Allocated, Running, TypeOK, IdOrNil
<1>6. StringsOK'
  BY DEF gcKeepExternal, StringsOK, TypeOK, PhasesOK, Allocated
<1>7. CandidatesOK'
  BY DEF gcKeepExternal, CandidatesOK, OnStack, Running, Allocated, TypeOK,
     PhasesOK
<1>8. MarksOK'
  <2>1. PICK h \in Handles : handle[h] = v
    <3>1. Cardinality(Pins(v)) # 0
      BY DEF gcKeepExternal, PinsOK, TypeOK
    <3>2. Pins(v) # {}
      BY <3>1, FS_EmptySet
    <3> QED BY <3>2 DEF Pins, Pointing, TypeOK
  <2>2. \A f \in Fields : field[<<v, f>>] = Nil
    BY <2>1 DEF gcKeepExternal, PinsOK, FieldsOK, Running
  <2>3. Closed(marked)'
    BY <2>2 DEF gcKeepExternal, MarksOK, Closed
  <2>4. v \notin destroy_list /\ marked' = marked \cup {v} /\ v \in values
    BY DEF gcKeepExternal, PhasesOK
  <2> QED BY <2>3, <2>4 DEF gcKeepExternal, MarksOK, OnStack
<1> QED BY <1>1, <1>2, <1>3, <1>4, <1>5, <1>6, <1>7, <1>8

\* gcSweep keeps the invariant.
LEMMA GcSweepInd ==
    ASSUME IndInv, NEW v \in Ids, gcSweep(v)
    PROVE  IndInv'
<1> USE IdsAssumption DEF IndInv
<1>1. TypeOK'
  BY DEF gcSweep, startClear, TypeOK, IdOrNil, Phases
<1>2. PhasesOK'
  BY DEF gcSweep, startClear, PhasesOK, Allocated, Running, TypeOK, IdOrNil
<1>3. FieldsOK'
  BY DEF gcSweep, startClear, FieldsOK, Allocated, TypeOK, IdOrNil, PhasesOK,
     Running
<1>4. CountsCoverHolders'
  BY DEF gcSweep, startClear, CountsCoverHolders, Allocated, Holders,
     CoreHolds, TypeOK, IdOrNil
<1>5. PinsOK'
  BY DEF gcSweep, startClear, PinsOK, Pins, Allocated, Running, TypeOK, IdOrNil
<1>6. StringsOK'
  BY DEF gcSweep, startClear, StringsOK, TypeOK, PhasesOK, Allocated
<1>7. CandidatesOK'
  BY DEF gcSweep, startClear, CandidatesOK, OnStack, Running, Allocated,
     TypeOK, PhasesOK
<1>8. MarksOK'
  <2>1. Closed(marked)'
    BY DEF gcSweep, startClear, MarksOK, Closed
  <2> QED BY <2>1 DEF gcSweep, startClear, MarksOK, OnStack
<1> QED BY <1>1, <1>2, <1>3, <1>4, <1>5, <1>6, <1>7, <1>8

\* gcSweepEnd keeps the invariant.
LEMMA GcSweepEndInd ==
    ASSUME IndInv, gcSweepEnd
    PROVE  IndInv'
<1> USE IdsAssumption DEF IndInv
<1>1. TypeOK'
  BY DEF gcSweepEnd, TypeOK, IdOrNil, Phases
<1>2. PhasesOK'
  BY DEF gcSweepEnd, PhasesOK, Allocated, Running, TypeOK, IdOrNil
<1>3. FieldsOK'
  BY DEF gcSweepEnd, FieldsOK, Allocated, TypeOK, IdOrNil, PhasesOK, Running
<1>4. CountsCoverHolders'
  BY DEF gcSweepEnd, CountsCoverHolders, Allocated, Holders, CoreHolds, TypeOK,
     IdOrNil
<1>5. PinsOK'
  BY DEF gcSweepEnd, PinsOK, Pins, Allocated, Running, TypeOK, IdOrNil
<1>6. StringsOK'
  BY DEF gcSweepEnd, StringsOK, TypeOK, PhasesOK, Allocated
<1>7. CandidatesOK'
  BY DEF gcSweepEnd, CandidatesOK, OnStack, Running, Allocated, TypeOK, PhasesOK
<1>8. MarksOK'
  BY DEF gcSweepEnd, MarksOK, Closed, OnStack, TypeOK, IdOrNil, PhasesOK
<1> QED BY <1>1, <1>2, <1>3, <1>4, <1>5, <1>6, <1>7, <1>8

\* A value of the destroy list is held by no one.
LEMMA DestroyValueInd ==
    ASSUME IndInv, NEW v \in Ids, destroyValue(v)
    PROVE  IndInv'
<1> USE IdsAssumption DEF IndInv
<1>a. /\ \A w \in Ids, f \in Fields : field[<<w, f>>] # v
      /\ \A h \in Handles : handle[h] # v
      /\ \A w \in Ids : w # v => ref_count'[w] = ref_count[w]
      /\ v \notin values
  <2>1. CASE phase = "destroy"
    <3>1. v \notin marked /\ external_ref_count[v] = 0 /\ values \subseteq marked
      BY <2>1 DEF destroyValue, MarksOK
    <3>2. \A h \in Handles : handle[h] # v
      BY <3>1, PinCounted
    <3>3. \A w \in Ids, f \in Fields : field[<<w, f>>] # v
      BY <2>1, <3>1 DEF FieldsOK, MarksOK, Closed
    <3> QED BY <3>2, <3>3 DEF destroyValue, TypeOK, PhasesOK
  <2>2. CASE phase = "down_destroy"
    BY <2>2 DEF destroyValue, FieldsOK, PhasesOK, TypeOK
  <2> QED BY <2>1, <2>2 DEF destroyValue
<1>1. TypeOK'
  BY DEF destroyValue, TypeOK, IdOrNil, Phases
<1>2. PhasesOK'
  BY DEF destroyValue, PhasesOK, Allocated, Running, TypeOK, IdOrNil
<1>3. FieldsOK'
  BY <1>a DEF destroyValue, FieldsOK, Allocated
<1>4. CountsCoverHolders'
  BY <1>a DEF destroyValue, CountsCoverHolders, Holders, CoreHolds, Allocated,
     TypeOK
<1>5. PinsOK'
  BY <1>a DEF destroyValue, PinsOK, Pins, Allocated, Running
<1>6. StringsOK'
  BY DEF destroyValue, StringsOK, TypeOK, PhasesOK, Allocated
<1>7. CandidatesOK'
  BY DEF destroyValue, CandidatesOK, OnStack, Running, Allocated, TypeOK,
     PhasesOK
<1>8. MarksOK'
  <2> SUFFICES ASSUME phase = "destroy"
               PROVE  MarksOK'
    BY DEF destroyValue, MarksOK
  <2>1. v \notin marked
    BY DEF destroyValue, MarksOK
  <2>2. Closed(marked)'
    BY <2>1 DEF destroyValue, MarksOK, Closed
  <2> QED BY <2>1, <2>2 DEF destroyValue, MarksOK, OnStack
<1> QED BY <1>1, <1>2, <1>3, <1>4, <1>5, <1>6, <1>7, <1>8

\* destroyEnd keeps the invariant.
LEMMA DestroyEndInd ==
    ASSUME IndInv, destroyEnd
    PROVE  IndInv'
<1> USE IdsAssumption DEF IndInv
<1>1. TypeOK'
  BY DEF destroyEnd, TypeOK, IdOrNil, Phases
<1>2. PhasesOK'
  BY DEF destroyEnd, PhasesOK, Allocated, Running, TypeOK, IdOrNil
<1>3. FieldsOK'
  BY DEF destroyEnd, FieldsOK, Allocated, TypeOK, IdOrNil, PhasesOK, Running
<1>4. CountsCoverHolders'
  BY DEF destroyEnd, CountsCoverHolders, Allocated, Holders, CoreHolds, TypeOK,
     IdOrNil
<1>5. PinsOK'
  BY DEF destroyEnd, PinsOK, Pins, Allocated, Running, TypeOK, IdOrNil
<1>6. StringsOK'
  BY DEF destroyEnd, StringsOK, TypeOK, PhasesOK, Allocated
<1>7. CandidatesOK'
  BY DEF destroyEnd, CandidatesOK, OnStack, Running, Allocated, TypeOK, PhasesOK
<1>8. MarksOK'
  BY DEF destroyEnd, MarksOK, Closed, OnStack, TypeOK, IdOrNil, PhasesOK
<1> QED BY <1>1, <1>2, <1>3, <1>4, <1>5, <1>6, <1>7, <1>8

\* shutdown keeps the invariant.
LEMMA ShutdownInd ==
    ASSUME IndInv, shutdown
    PROVE  IndInv'
<1> USE IdsAssumption DEF IndInv
<1>1. TypeOK'
  BY DEF shutdown, TypeOK, IdOrNil, Phases
<1>2. PhasesOK'
  BY DEF shutdown, PhasesOK, Allocated, Running, TypeOK, IdOrNil
<1>3. FieldsOK'
  BY DEF shutdown, FieldsOK, Allocated, TypeOK, IdOrNil, PhasesOK, Running
<1>4. CountsCoverHolders'
  BY DEF shutdown, CountsCoverHolders, Allocated, Holders, CoreHolds, TypeOK,
     IdOrNil
<1>5. PinsOK'
  BY DEF shutdown, PinsOK, Pins, Allocated, Running, TypeOK, IdOrNil
<1>6. StringsOK'
  BY DEF shutdown, StringsOK, TypeOK, PhasesOK, Allocated
<1>7. CandidatesOK'
  BY DEF shutdown, CandidatesOK, OnStack, Running, Allocated, TypeOK, PhasesOK
<1>8. MarksOK'
  BY DEF shutdown, MarksOK, Closed, OnStack, TypeOK, IdOrNil, PhasesOK
<1> QED BY <1>1, <1>2, <1>3, <1>4, <1>5, <1>6, <1>7, <1>8

\* shutdownClear keeps the invariant.
LEMMA ShutdownClearInd ==
    ASSUME IndInv, NEW v \in Ids, shutdownClear(v)
    PROVE  IndInv'
<1> USE IdsAssumption DEF IndInv
<1>1. TypeOK'
  BY DEF shutdownClear, startClear, TypeOK, IdOrNil, Phases
<1>2. PhasesOK'
  BY DEF shutdownClear, startClear, PhasesOK, Allocated, Running, TypeOK,
     IdOrNil
<1>3. FieldsOK'
  BY DEF shutdownClear, startClear, FieldsOK, Allocated, TypeOK, IdOrNil,
     PhasesOK, Running
<1>4. CountsCoverHolders'
  BY DEF shutdownClear, startClear, CountsCoverHolders, Allocated, Holders,
     CoreHolds, TypeOK, IdOrNil
<1>5. PinsOK'
  BY DEF shutdownClear, startClear, PinsOK, Pins, Allocated, Running, TypeOK,
     IdOrNil
<1>6. StringsOK'
  BY DEF shutdownClear, startClear, StringsOK, TypeOK, PhasesOK, Allocated
<1>7. CandidatesOK'
  BY DEF shutdownClear, startClear, CandidatesOK, OnStack, Running, Allocated,
     TypeOK, PhasesOK
<1>8. MarksOK'
  BY DEF shutdownClear, startClear, MarksOK, Closed, OnStack, TypeOK, IdOrNil,
     PhasesOK
<1> QED BY <1>1, <1>2, <1>3, <1>4, <1>5, <1>6, <1>7, <1>8

\* shutdownStrings keeps the invariant.
LEMMA ShutdownStringsInd ==
    ASSUME IndInv, shutdownStrings
    PROVE  IndInv'
<1> USE IdsAssumption DEF IndInv
<1>1. TypeOK'
  BY DEF shutdownStrings, TypeOK, IdOrNil, Phases
<1>2. PhasesOK'
  BY DEF shutdownStrings, PhasesOK, Allocated, Running, TypeOK, IdOrNil
<1>3. FieldsOK'
  BY DEF shutdownStrings, FieldsOK, Allocated, TypeOK, IdOrNil, PhasesOK,
     Running
<1>4. CountsCoverHolders'
  BY DEF shutdownStrings, CountsCoverHolders, Allocated, Holders, CoreHolds,
     TypeOK, IdOrNil
<1>5. PinsOK'
  BY DEF shutdownStrings, PinsOK, Pins, Allocated, Running, TypeOK, IdOrNil
<1>6. StringsOK'
  BY DEF shutdownStrings, StringsOK, TypeOK, PhasesOK, Allocated
<1>7. CandidatesOK'
  BY DEF shutdownStrings, CandidatesOK, OnStack, Running, Allocated, TypeOK,
     PhasesOK
<1>8. MarksOK'
  BY DEF shutdownStrings, MarksOK, Closed, OnStack, TypeOK, IdOrNil, PhasesOK
<1> QED BY <1>1, <1>2, <1>3, <1>4, <1>5, <1>6, <1>7, <1>8

\* shutdownDestroy keeps the invariant.
LEMMA ShutdownDestroyInd ==
    ASSUME IndInv, shutdownDestroy
    PROVE  IndInv'
<1> USE IdsAssumption DEF IndInv
<1>1. TypeOK'
  BY DEF shutdownDestroy, TypeOK, IdOrNil, Phases
<1>2. PhasesOK'
  BY DEF shutdownDestroy, PhasesOK, Allocated, Running, TypeOK, IdOrNil
<1>3. FieldsOK'
  BY DEF shutdownDestroy, FieldsOK, Allocated, TypeOK, IdOrNil, PhasesOK,
     Running
<1>4. CountsCoverHolders'
  BY DEF shutdownDestroy, CountsCoverHolders, Allocated, Holders, CoreHolds,
     TypeOK, IdOrNil
<1>5. PinsOK'
  BY DEF shutdownDestroy, PinsOK, Pins, Allocated, Running, TypeOK, IdOrNil
<1>6. StringsOK'
  BY DEF shutdownDestroy, StringsOK, TypeOK, PhasesOK, Allocated
<1>7. CandidatesOK'
  BY DEF shutdownDestroy, CandidatesOK, OnStack, Running, Allocated, TypeOK,
     PhasesOK
<1>8. MarksOK'
  BY DEF shutdownDestroy, MarksOK, Closed, OnStack, TypeOK, IdOrNil, PhasesOK
<1> QED BY <1>1, <1>2, <1>3, <1>4, <1>5, <1>6, <1>7, <1>8

-----------------------------------------------------------------------------
\* The machine that Core::init leaves behind satisfies the invariant.
LEMMA InitInd == Init => IndInv
<1> SUFFICES ASSUME Init PROVE IndInv
  OBVIOUS
<1> USE IdsAssumption DEF Init
<1>1. TypeOK /\ PhasesOK /\ FieldsOK /\ StringsOK /\ MarksOK
  BY DEF TypeOK, IdOrNil, Phases, PhasesOK, FieldsOK, StringsOK, MarksOK,
     Allocated,
         Running
<1>2. CountsCoverHolders
  <2>1. \A v \in Allocated : Holders(v) = {}
    BY DEF Holders, Pointing, Allocated
  <2>2. \A v \in Allocated : Cardinality(Holders(v)) = 0
    BY <2>1, FS_EmptySet
  <2>3. \A v \in Allocated : v = Root /\ ref_count[v] = 1 /\ CoreHolds(v) = 1
    BY DEF CoreHolds, Allocated
  <2> QED BY <2>2, <2>3 DEF CountsCoverHolders
<1>3. PinsOK
  <2>1. \A v \in Ids : Pins(v) = {}
    BY DEF Pins, Pointing
  <2> QED BY <2>1, FS_EmptySet DEF PinsOK
<1>4. CandidatesOK
  BY DEF CandidatesOK, OnStack, Elements
<1> QED BY <1>1, <1>2, <1>3, <1>4 DEF IndInv

\* The invariant reads nothing but the variables of the machine.
LEMMA StutterInd == IndInv /\ UNCHANGED vars => IndInv'
BY DEF IndInv, vars, TypeOK, IdOrNil, Phases, PhasesOK, Allocated, Running,
   FieldsOK,
       CountsCoverHolders, Holders, CoreHolds, PinsOK, Pins, StringsOK, CandidatesOK,
       OnStack, MarksOK, Closed

\* Every step keeps the invariant.
LEMMA NextInd == IndInv /\ [Next]_vars => IndInv'
<1> SUFFICES ASSUME IndInv, [Next]_vars PROVE IndInv'
  OBVIOUS
<1>1. CASE Program
  BY <1>1, PushObjectValueInd, PushNewStringValueInd, PushFoundStringValueInd,
     PushValueInd, PopInd, SetValueInd, NewStringInd, GiveStringInd, DeleteStringInd
     DEF Program
<1>2. CASE Clearing
  BY <1>2, ClearFieldInd, ClearHandleInd, EndClearInd DEF Clearing
<1>3. CASE Collector
  BY <1>3, GcStartInd, GcUnlinkInd, GcFreeInd, GcEndInd, GcMarkInd,
     GcKeepExternalInd,
     GcSweepInd, GcSweepEndInd, DestroyValueInd, DestroyEndInd DEF Collector
<1>4. CASE Shutdown
  BY <1>4, ShutdownInd, ShutdownClearInd, ShutdownStringsInd, ShutdownDestroyInd
     DEF Shutdown
<1>5. CASE UNCHANGED vars
  BY <1>5, StutterInd
<1> QED BY <1>1, <1>2, <1>3, <1>4, <1>5 DEF Next

\* Every reachable state satisfies the inductive invariant.
THEOREM Invariance == Spec => []IndInv
<1> QED BY InitInd, NextInd, PTL DEF Spec

(***************************************************************************)
(* The variables of the machine keep their types; in particular no release *)
(* (releaseValue, ~String) takes a count below zero.                       *)
(***************************************************************************)
THEOREM TypeCorrect == Spec => []TypeOK
<1>1. IndInv => TypeOK
  BY DEF IndInv
<1> QED BY Invariance, <1>1, PTL

(***************************************************************************)
(* Memory safety of the value heap: whatever the program does and whenever *)
(* gcFreeCandidateValues or shutdown runs, no pointer the machine may      *)
(* follow leads to freed memory.                                           *)
(***************************************************************************)
THEOREM MemorySafe == Spec => []NoDangling
<1>1. IndInv => NoDangling
  BY DEF IndInv, NoDangling, CandidatesOK, StringsOK, FieldsOK, PinsOK,
     Allocated
<1> QED BY Invariance, <1>1, PTL

(***************************************************************************)
(* ref_count is at least the number of references, so releaseValue never   *)
(* finds a zero count (its assertion) and a zero count means no holder.    *)
(***************************************************************************)
THEOREM CountsAreSafe == Spec => []CountsCoverHolders
<1>1. IndInv => CountsCoverHolders
  BY DEF IndInv
<1> QED BY Invariance, <1>1, PTL

(***************************************************************************)
(* Strings stay interned: one live value per content, found by the lookup  *)
(* of pushStringValue between collections.                                 *)
(***************************************************************************)
THEOREM StringsInterned == Spec => []InternedOnce
<1>1. IndInv => InternedOnce
  BY IdsAssumption DEF IndInv, InternedOnce, StringsOK, PhasesOK, TypeOK
<1> QED BY Invariance, <1>1, PTL

(***************************************************************************)
(* Core::shutdown frees every value, whatever counts and marks say.        *)
(***************************************************************************)
THEOREM ShutdownComplete == Spec => []ShutdownFreesAll
<1>1. IndInv => ShutdownFreesAll
  BY DEF IndInv, ShutdownFreesAll, PhasesOK, StringsOK, CandidatesOK, Allocated
<1> QED BY Invariance, <1>1, PTL

-----------------------------------------------------------------------------
(* A reachable value is registered and is not the one being cleared.       *)

\* A closed set that contains the roots contains what is reachable.
LEMMA ReachableIn ==
    ASSUME NEW S \in SUBSET Ids, {Root} \cup OnStack \cup Pinned \subseteq S, Closed(S)
    PROVE  Reachable \subseteq S
BY DEF Reachable, ReachableFrom

\* What a String object pins is a live string, which holds no reference.
LEMMA PinnedStrings ==
    ASSUME IndInv, Running, NEW v \in Pinned
    PROVE  /\ v \in Ids /\ v \in Allocated /\ external_ref_count[v] >= 1
           /\ \A f \in Fields : field[<<v, f>>] = Nil
<1>1. PICK h \in Handles : handle[h] = v
  BY DEF Pinned
<1>2. v \in Ids /\ v # Nil
  BY IdsAssumption DEF Pinned
<1>3. external_ref_count[v] >= 1
  BY <1>1, <1>2, PinCounted
<1> QED BY <1>1, <1>2, <1>3 DEF IndInv, PinsOK, FieldsOK

\* Outside the mark-and-sweep: nobody holds a candidate that is being freed
LEMMA ReachableBeforeMark ==
    ASSUME IndInv, phase \in {"idle", "candidates"}, NEW c,
           c \in values => /\ ref_count[c] = 0 /\ external_ref_count[c] = 0
                           /\ c \notin OnStack
    PROVE  Reachable \subseteq values \ {c}
<1>1. Running /\ Allocated = values /\ Root \in values /\ OnStack \subseteq values
  BY DEF IndInv, PhasesOK, CandidatesOK, Running, Allocated
<1>2. values \subseteq Ids
  BY DEF IndInv, TypeOK
<1>3. Pinned \subseteq values \ {c}
  <2> SUFFICES ASSUME NEW v \in Pinned PROVE v \in values /\ v # c
    OBVIOUS
  <2>1. v \in values /\ external_ref_count[v] >= 1
    BY <1>1, PinnedStrings
  <2> QED BY <2>1
<1>4. c \in values => c # Root /\ \A w \in Ids, f \in Fields : field[<<w, f>>] # c
  BY <1>1, ZeroCount
<1>5. Closed(values \ {c})
  BY <1>1, <1>2, <1>4 DEF IndInv, FieldsOK, Closed
<1> QED BY <1>1, <1>2, <1>3, <1>4, <1>5, ReachableIn

\* From the mark on: what is neither marked nor pinned is not reachable
LEMMA ReachableAfterMark ==
    ASSUME IndInv, phase \in {"fix", "destroy"}
    PROVE  Reachable \subseteq {v \in values : v \in marked \/ external_ref_count[v] > 0}
<1> DEFINE S == {v \in values : v \in marked \/ external_ref_count[v] > 0}
<1>1. Running /\ {Root} \cup OnStack \subseteq marked /\ marked \subseteq values
      /\ Closed(marked) /\ values \subseteq Ids
  BY DEF IndInv, MarksOK, Running, TypeOK
<1>2. external_ref_count \in [Ids -> Nat]
  BY DEF IndInv, TypeOK
<1>3. Pinned \subseteq S
  <2> SUFFICES ASSUME NEW v \in Pinned PROVE v \in S
    OBVIOUS
  <2>1. v \in Ids /\ v \in Allocated /\ external_ref_count[v] >= 1
    BY <1>1, PinnedStrings
  <2>2. v \notin destroy_list
    BY <2>1, IdsAssumption DEF IndInv, MarksOK
  <2> QED BY <1>2, <2>1, <2>2 DEF Allocated
<1>4. \A v \in S : v \notin marked => \A f \in Fields : field[<<v, f>>] = Nil
  <2> SUFFICES ASSUME NEW v \in values, external_ref_count[v] > 0, NEW f \in Fields
               PROVE  field[<<v, f>>] = Nil
    OBVIOUS
  <2>1. v \in Ids /\ external_ref_count[v] = Cardinality(Pins(v))
    BY <1>1 DEF IndInv, PinsOK
  <2>2. Pins(v) # {}
    BY <2>1, FS_EmptySet
  <2>3. PICK h \in Handles : handle[h] = v
    BY <2>2 DEF Pins, Pointing, IndInv, TypeOK
  <2>4. str[v] # Nil
    BY <1>1, <2>1, <2>3, IdsAssumption DEF IndInv, PinsOK
  <2> QED BY <2>1, <2>4 DEF IndInv, FieldsOK
<1>5. Closed(S)
  BY <1>1, <1>4 DEF Closed
<1>6. {Root} \cup OnStack \subseteq S /\ S \subseteq Ids
  BY <1>1
<1> HIDE DEF S
<1>7. Reachable \subseteq S
  BY <1>3, <1>5, <1>6, ReachableIn
<1> QED BY <1>7 DEF S

\* No step takes away a value that was reachable before it.
LEMMA ReachableStep ==
    ASSUME IndInv, [Next]_vars, Running, NEW v \in Reachable
    PROVE  v \in values' /\ v # victim'
<1>1. phase \in {"idle", "candidates", "fix", "destroy"}
  BY DEF Running
<1>2. v \in values /\ v # victim
  <2>1. CASE phase \in {"idle", "candidates"}
    <3>1. victim \in values => /\ ref_count[victim] = 0 /\ external_ref_count[victim] = 0
                               /\ victim \notin OnStack
      BY <2>1, IdsAssumption DEF IndInv, PhasesOK, CandidatesOK, TypeOK
    <3> QED BY <2>1, <3>1, ReachableBeforeMark
  <2>2. CASE phase \in {"fix", "destroy"}
    <3>1. v \in values /\ (v \in marked \/ external_ref_count[v] > 0)
      BY <2>2, ReachableAfterMark
    <3>2. v # Nil
      BY <3>1, IdsAssumption DEF IndInv, TypeOK
    <3> QED BY <2>2, <3>1, <3>2 DEF IndInv, MarksOK
  <2> QED BY <1>1, <2>1, <2>2
<1>3. v # Nil
  BY <1>2, IdsAssumption DEF IndInv, TypeOK
<1>4. CASE \E c \in Ids, lost \in SUBSET candidates : gcFree(c, lost)
  <2>1. PICK c \in Ids, lost \in SUBSET candidates : gcFree(c, lost)
    BY <1>4
  <2>2. phase = "candidates" /\ victim' = c /\ values' = values
    BY <2>1 DEF gcFree, startClear
  <2>3. ref_count[c] = 0 /\ external_ref_count[c] = 0 /\ c \notin OnStack
    BY <2>1 DEF gcFree, IndInv, CandidatesOK
  <2> QED BY <1>2, <2>2, <2>3, ReachableBeforeMark
<1>5. CASE \E w \in Ids : gcSweep(w)
  <2>1. PICK w \in Ids : gcSweep(w)
    BY <1>5
  <2>2. /\ phase = "fix" /\ victim' = w /\ values' = values
        /\ w \notin marked /\ external_ref_count[w] = 0
    BY <2>1 DEF gcSweep, startClear
  <2> QED BY <1>2, <2>2, ReachableAfterMark
<1>6. CASE endClear
  BY <1>2, <1>3, <1>6 DEF endClear
<1>7. CASE Program
  BY <1>2, <1>3, <1>7
     DEF Program, pushObjectValue, pushNewStringValue, registerValueAndPush,
         pushFoundStringValue, pushValue, pop, setValue, newString, giveString,
         deleteString
<1>8. CASE (\E f \in Fields : clearField(f)) \/ (\E h \in Handles : clearHandle(h))
  BY <1>2, <1>8 DEF clearField, clearHandle
<1>9. CASE \/ gcStart \/ gcEnd \/ gcMark \/ gcSweepEnd \/ destroyEnd
           \/ \E c \in Ids, lost \in SUBSET candidates : gcUnlink(c, lost)
           \/ \E w \in Ids : gcKeepExternal(w) \/ destroyValue(w)
  BY <1>2, <1>9 DEF gcStart, gcEnd, gcMark, gcSweepEnd, destroyEnd, gcUnlink,
                    gcKeepExternal, destroyValue
<1>10. CASE Shutdown
  BY <1>1, <1>2, <1>10 DEF Shutdown, shutdown, shutdownClear, shutdownStrings,
                           shutdownDestroy
<1>11. CASE UNCHANGED vars
  BY <1>2, <1>11 DEF vars
<1> QED BY <1>4, <1>5, <1>6, <1>7, <1>8, <1>9, <1>10, <1>11
        DEF Next, Clearing, Collector

(***************************************************************************)
(* No step before shutdown frees, or begins to clear, a value that the     *)
(* program can reach from the globals, the stack or a String object: the   *)
(* candidate sweep and the mark-and-sweep only ever take garbage.          *)
(***************************************************************************)
THEOREM ReachableKept == Spec => NeverFreesReachable
<1>1. IndInv /\ [Next]_vars
        => [Running => \A v \in Reachable : v \in values' /\ v # victim']_vars
  BY ReachableStep
<1> QED BY Invariance, <1>1, PTL DEF Spec, NeverFreesReachable

-----------------------------------------------------------------------------
(* Exact counts.  During a mark-and-sweep only the values that were marked *)
(* keep an exact count: the references from values that are being cleared  *)
(* to others that will be are not released.  What was not marked is gone   *)
(* when the sweep ends, so that every count is exact again.                *)

\* A value whose count must be exact
Counted(v) ==
    /\ v \in values /\ str[v] = Nil
    /\ \/ phase \in {"idle", "candidates"}
       \/ phase \in {"fix", "destroy"} /\ v \in marked

CountedExact ==
    /\ \A v \in Ids : Counted(v) => ref_count[v] = Cardinality(Holders(v)) + CoreHolds(v)
    /\ \A v \in unused : ref_count[v] = 0

\* A string that a handle pins is a string until shutdown.
LEMMA PinnedIsString ==
    ASSUME IndInv, Running, NEW v \in Ids, external_ref_count[v] > 0
    PROVE  str[v] # Nil
<1>1. external_ref_count[v] = Cardinality(Pins(v))
  BY DEF IndInv, PinsOK
<1>2. Pins(v) # {}
  BY <1>1, FS_EmptySet
<1>3. PICK h \in Handles : handle[h] = v
  BY <1>2 DEF Pins, Pointing, IndInv, TypeOK
<1> QED BY <1>3, IdsAssumption DEF IndInv, PinsOK

\* A step that touches no reference and no count asks for no new exact count.
LEMMA NothingCounted ==
    ASSUME CountedExact, UNCHANGED <<field, ref_count, unused>>,
           \A v \in Ids : Counted(v)' => Counted(v)
    PROVE  CountedExact'
<1>1. \A v : Holders(v)' = Holders(v) /\ CoreHolds(v)' = CoreHolds(v)
  BY DEF Holders, Pointing, CoreHolds
<1> QED BY <1>1 DEF CountedExact

\* The steps of the program that only push, pop and pin.
LEMMA PlainProgramCounted ==
    ASSUME IndInv, CountedExact,
           \/ \E v \in Ids : pushFoundStringValue(v) \/ pushValue(v)
           \/ pop
           \/ \E h \in Handles, v \in Ids : newString(h, v) \/ giveString(h, v)
           \/ \E h \in Handles : deleteString(h)
    PROVE  CountedExact'
<1>1. UNCHANGED <<field, ref_count, unused, values, str, phase>>
      /\ phase \in {"idle", "down_strings"}
  BY DEF pushFoundStringValue, pushValue, pop, newString, giveString, deleteString
<1>2. \A v \in Ids : Counted(v)' => Counted(v)
  BY <1>1 DEF Counted
<1> QED BY <1>1, <1>2, NothingCounted

\* A new value has no holder and a count of zero.
LEMMA NewValueCounted ==
    ASSUME IndInv, CountedExact, NEW v \in Ids,
           pushObjectValue(v) \/ \E s \in Contents : pushNewStringValue(v, s)
    PROVE  CountedExact'
<1>1. /\ UNCHANGED <<field, ref_count, phase>> /\ phase = "idle"
      /\ v \in unused /\ unused' = unused \ {v} /\ values' = values \cup {v}
      /\ \A x \in Ids : x # v => str'[x] = str[x]
  BY DEF pushObjectValue, pushNewStringValue, registerValueAndPush, IndInv, TypeOK
<1>2. v \notin Allocated /\ v # Root /\ TypeOK /\ FieldsOK
  BY <1>1 DEF IndInv, PhasesOK, Running, Allocated
<1>3. Cardinality(Holders(v)) = 0 /\ CoreHolds(v) = 0
  BY <1>2, NoHolders DEF CoreHolds
<1>4. \A x : Holders(x)' = Holders(x) /\ CoreHolds(x)' = CoreHolds(x)
  BY <1>1 DEF Holders, Pointing, CoreHolds
<1>5. ref_count[v] = 0
  BY <1>1 DEF CountedExact
<1>6. \A x \in Ids : x # v => (Counted(x)' => Counted(x))
  BY <1>1 DEF Counted
<1> QED BY <1>1, <1>3, <1>4, <1>5, <1>6 DEF CountedExact

\* setValue retains the new value and releases the old one.
LEMMA SetValueCounted ==
    ASSUME IndInv, CountedExact, NEW h \in Ids, NEW f \in Fields, NEW w \in IdOrNil,
           setValue(h, f, w)
    PROVE  CountedExact'
<1> DEFINE old == field[<<h, f>>]
<1>0. TypeOK
  BY DEF IndInv
<1>1. /\ phase = "idle" /\ UNCHANGED <<unused, values, str, phase>> /\ w # old
      /\ \A x \in Ids : ref_count'[x] = IF x = w THEN ref_count[x] + 1
                                        ELSE IF x = old THEN ref_count[x] - 1 ELSE ref_count[x]
  BY DEF setValue
<1>2. (old # Nil => old \in Allocated) /\ (w # Nil => w \in values)
      /\ unused \cap Allocated = {} /\ unused \subseteq Ids
  <2>1. old # Nil => old \in Allocated
    BY HolderCounted
  <2>2. w # Nil => w \in values
    BY <1>1 DEF setValue, IndInv, CandidatesOK, Running
  <2> QED BY <2>1, <2>2 DEF IndInv, PhasesOK, TypeOK
<1>3. ASSUME NEW x \in Ids, Counted(x)'
      PROVE  ref_count'[x] = Cardinality(Holders(x)') + CoreHolds(x)
  <2>1. ref_count[x] = Cardinality(Holders(x)) + CoreHolds(x)
    BY <1>1, <1>3 DEF Counted, CountedExact
  <2>2. /\ Cardinality(Holders(x)) \in Nat /\ Cardinality(Holders(x)') \in Nat
        /\ old = x /\ w # x => Cardinality(Holders(x)) = Cardinality(Holders(x)') + 1
        /\ old # x /\ w = x => Cardinality(Holders(x)') = Cardinality(Holders(x)) + 1
        /\ (old = x <=> w = x) => Cardinality(Holders(x)') = Cardinality(Holders(x))
    <3> DEFINE p == <<h, f>>
    <3>1. p \in Ids \X Fields /\ field' = [field EXCEPT ![p] = w] /\ old = field[p]
      BY DEF setValue
    <3> HIDE DEF p, old
    <3> QED BY ONLY <1>0, <3>1, w \in IdOrNil, HoldersChange
  <2>3. CoreHolds(x) \in Nat
    BY DEF CoreHolds
  <2> HIDE DEF old
  <2> QED BY <1>1, <2>1, <2>2, <2>3
<1>4. \A x \in unused' : ref_count'[x] = 0
  <2> SUFFICES ASSUME NEW x \in unused PROVE ref_count'[x] = 0
    BY <1>1
  <2>1. x \in Ids /\ x \notin Allocated
    BY <1>2
  <2>2. x # w /\ x # old
    BY <1>2, <2>1, IdsAssumption DEF Allocated
  <2> HIDE DEF old
  <2> QED BY <1>1, <2>1, <2>2 DEF CountedExact
<1> QED BY <1>3, <1>4 DEF CountedExact, CoreHolds

\* clearField releases what it takes away, unless that is to be cleared too.
LEMMA ClearFieldCounted ==
    ASSUME IndInv, CountedExact, NEW f \in Fields, clearField(f)
    PROVE  CountedExact'
<1> DEFINE w == field[<<victim, f>>]
<1>0. TypeOK
  BY DEF IndInv
<1>1. victim \in Ids /\ victim \in values /\ w # Nil
  BY DEF clearField, IndInv, TypeOK, IdOrNil, PhasesOK
<1>2. w \in Ids /\ w \in Allocated
  BY <1>1, HolderCounted
<1>3. phase \in {"candidates", "fix", "down"} /\ UNCHANGED <<unused, values, str, phase>>
  BY DEF clearField, IndInv, PhasesOK
<1>4. /\ \A x \in Ids : x # w => ref_count'[x] = ref_count[x]
      /\ phase = "candidates" => ref_count'[w] = ref_count[w] - 1
      /\ phase = "fix" /\ w \in marked => ref_count'[w] = ref_count[w] - 1
      /\ phase = "fix" => marked' = marked
  <2>1. /\ releaseValue(w) /\ ref_count \in [Ids -> Nat]
    BY <1>0 DEF clearField, TypeOK
  <2>2. ref_count' = ref_count \/ ref_count' = [ref_count EXCEPT ![w] = ref_count[w] - 1]
    BY <2>1 DEF releaseValue
  <2>3. ~(gc_fix_in_progress /\ w \notin marked)
            => ref_count' = [ref_count EXCEPT ![w] = ref_count[w] - 1]
    BY <2>1 DEF releaseValue
  <2>4. phase = "fix" => marked' = marked
    BY <2>1 DEF releaseValue, saveFreeCandidateValue, keepCandidates, gc_fix_in_progress
  <2>5. phase = "candidates" => ~gc_fix_in_progress
    BY DEF gc_fix_in_progress
  <2> HIDE DEF w
  <2> QED BY <1>2, <2>1, <2>2, <2>3, <2>4, <2>5
<1>5. ASSUME NEW x \in Ids, Counted(x)'
      PROVE  ref_count'[x] = Cardinality(Holders(x)') + CoreHolds(x)
  <2>1. Counted(x) /\ (x = w => ref_count'[w] = ref_count[w] - 1)
    BY <1>3, <1>4, <1>5 DEF Counted
  <2>2. ref_count[x] = Cardinality(Holders(x)) + CoreHolds(x)
    BY <2>1 DEF CountedExact
  <2>3. /\ Cardinality(Holders(x)) \in Nat /\ Cardinality(Holders(x)') \in Nat
        /\ w = x => Cardinality(Holders(x)) = Cardinality(Holders(x)') + 1
        /\ w # x => Cardinality(Holders(x)') = Cardinality(Holders(x))
    <3> DEFINE p == <<victim, f>>
    <3>1. /\ p \in Ids \X Fields /\ field' = [field EXCEPT ![p] = Nil] /\ w = field[p]
          /\ x # Nil /\ Nil \in IdOrNil
      BY <1>1, IdsAssumption DEF clearField, IdOrNil
    <3> HIDE DEF p, w
    <3> QED BY ONLY <1>0, <3>1, HoldersChange
  <2>4. CoreHolds(x) \in Nat
    BY DEF CoreHolds
  <2> HIDE DEF w
  <2> QED BY <1>4, <2>1, <2>2, <2>3, <2>4
<1>6. \A x \in unused' : ref_count'[x] = 0
  <2> SUFFICES ASSUME NEW x \in unused PROVE ref_count'[x] = 0
    BY <1>3
  <2>1. x \in Ids /\ x # w
    BY <1>0, <1>2 DEF TypeOK, IndInv, PhasesOK
  <2> QED BY <1>4, <2>1 DEF CountedExact
<1> QED BY <1>5, <1>6 DEF CountedExact, CoreHolds

\* The rest of clearValue; a handle that goes can only mark a string.
LEMMA ClearRestCounted ==
    ASSUME IndInv, CountedExact, endClear \/ \E h \in Handles : clearHandle(h)
    PROVE  CountedExact'
<1>1. CASE endClear
  <2>1. /\ UNCHANGED <<field, ref_count, unused, phase>> /\ values' = values \ {victim}
        /\ marked' = marked \ {victim} /\ \A x \in Ids : x # victim => str'[x] = str[x]
    BY <1>1 DEF endClear, IndInv, TypeOK
  <2>2. \A v \in Ids : Counted(v)' => Counted(v)
    BY <2>1 DEF Counted
  <2> QED BY <2>1, <2>2, NothingCounted
<1>2. ASSUME NEW h \in Handles, clearHandle(h)
      PROVE  CountedExact'
  <2>1. UNCHANGED <<field, ref_count, unused, phase, values, str>>
        /\ phase \in {"candidates", "fix", "down"}
    BY <1>2 DEF clearHandle, IndInv, PhasesOK
  <2>2. marked' \subseteq marked \cup {handle[h]}
    BY <1>2 DEF clearHandle, releaseString, saveFreeCandidateValue, keepCandidates
  <2>3. phase = "fix" => str[handle[h]] # Nil
    <3>1. owner[h] # Host
      BY <1>2, IdsAssumption DEF clearHandle, IndInv, TypeOK, IdOrNil
    <3> QED BY <3>1 DEF IndInv, PinsOK, Running
  <2>4. \A v \in Ids : Counted(v)' => Counted(v)
    BY <2>1, <2>2, <2>3 DEF Counted
  <2> QED BY <2>1, <2>4, NothingCounted
<1> QED BY <1>1, <1>2

\* The collector: a mark-and-sweep begins with exact counts and ends with them.
LEMMA CollectorCounted ==
    ASSUME IndInv, CountedExact, Collector
    PROVE  CountedExact'
<1>0. Running => marked \subseteq Ids
  BY DEF IndInv, TypeOK
<1>1. ASSUME NEW v \in Ids, destroyValue(v)
      PROVE  CountedExact'
  <2>1. /\ UNCHANGED <<field, unused, phase, values, str>> /\ v \in destroy_list
        /\ marked' = marked \ {v} /\ ref_count' = [ref_count EXCEPT ![v] = 0]
    BY <1>1 DEF destroyValue
  <2>2. v \notin values /\ ref_count \in [Ids -> Nat] /\ unused \subseteq Ids
    BY <2>1 DEF IndInv, PhasesOK, TypeOK
  <2>3. \A x : Holders(x)' = Holders(x) /\ CoreHolds(x)' = CoreHolds(x)
    BY <2>1 DEF Holders, Pointing, CoreHolds
  <2>4. \A x \in Ids : Counted(x)' => Counted(x) /\ ref_count'[x] = ref_count[x]
    BY <2>1, <2>2 DEF Counted
  <2> QED BY <2>1, <2>2, <2>3, <2>4 DEF CountedExact
<1>2. ASSUME NEW v \in Ids, gcKeepExternal(v)
      PROVE  CountedExact'
  <2>1. UNCHANGED <<field, ref_count, unused, phase, values, str>> /\ phase = "fix"
        /\ marked' = marked \cup {v} /\ external_ref_count[v] > 0
    BY <1>2 DEF gcKeepExternal
  <2>2. str[v] # Nil
    BY <2>1, PinnedIsString DEF Running
  <2>3. \A x \in Ids : Counted(x)' => Counted(x)
    BY <2>1, <2>2 DEF Counted
  <2> QED BY <2>1, <2>3, NothingCounted
<1>3. CASE destroyEnd
  <2>1. UNCHANGED <<field, ref_count, unused, values, str, marked>>
        /\ phase \in {"destroy", "down_destroy"}
        /\ phase' = IF phase = "destroy" THEN "idle" ELSE "off"
    BY <1>3 DEF destroyEnd
  <2>2. phase = "destroy" => values \subseteq marked
    BY DEF IndInv, MarksOK
  <2>3. \A x \in Ids : Counted(x)' => Counted(x)
    BY <2>1, <2>2 DEF Counted
  <2> QED BY <2>1, <2>3, NothingCounted
<1>4. CASE \/ gcStart \/ gcEnd \/ gcMark \/ gcSweepEnd
           \/ \E c \in Ids, lost \in SUBSET candidates : gcUnlink(c, lost) \/ gcFree(c, lost)
           \/ \E v \in Ids : gcSweep(v)
  <2>1. /\ UNCHANGED <<field, ref_count, unused, values, str>>
        /\ phase \in {"idle", "candidates"} \/ (phase = "fix" /\ marked' = marked)
    BY <1>4 DEF gcStart, gcEnd, gcMark, gcSweepEnd, gcUnlink, gcFree, gcSweep, startClear
  <2>2. phase = "fix" => phase' \in {"fix", "destroy"}
    BY <1>4 DEF gcStart, gcEnd, gcMark, gcSweepEnd, gcUnlink, gcFree, gcSweep, startClear
  <2>3. \A x \in Ids : Counted(x)' => Counted(x)
    BY <2>1, <2>2 DEF Counted
  <2> QED BY <2>1, <2>3, NothingCounted
<1> QED BY <1>1, <1>2, <1>3, <1>4 DEF Collector

\* Nothing is asked of the counts once shutdown has begun.
LEMMA ShutdownCounted ==
    ASSUME CountedExact, Shutdown
    PROVE  CountedExact'
<1>1. UNCHANGED <<field, ref_count, unused>> /\ phase' \in {"down", "down_strings", "down_destroy"}
  BY DEF Shutdown, shutdown, shutdownClear, shutdownStrings, shutdownDestroy, startClear
<1>2. \A x \in Ids : Counted(x)' => Counted(x)
  BY <1>1 DEF Counted
<1> QED BY <1>1, <1>2, NothingCounted

\* The first state has one reference, that of the core to the immortal value.
LEMMA InitCounted == Init => CountedExact
<1> SUFFICES ASSUME Init PROVE CountedExact
  OBVIOUS
<1>1. \A v \in Ids : Holders(v) = {}
  BY IdsAssumption DEF Init, Holders, Pointing
<1>2. \A v \in Ids : Cardinality(Holders(v)) = 0
  BY <1>1, FS_EmptySet
<1> QED BY <1>2, IdsAssumption DEF Init, CountedExact, CoreHolds

LEMMA NextCounted == IndInv /\ CountedExact /\ [Next]_vars => CountedExact'
<1> SUFFICES ASSUME IndInv, CountedExact, [Next]_vars PROVE CountedExact'
  OBVIOUS
<1>1. CASE Program
  BY <1>1, NewValueCounted, PlainProgramCounted, SetValueCounted DEF Program
<1>2. CASE Clearing
  BY <1>2, ClearFieldCounted, ClearRestCounted DEF Clearing
<1>3. CASE UNCHANGED vars
  <2>1. \A x \in Ids : Counted(x)' => Counted(x)
    BY <1>3 DEF vars, Counted
  <2> QED BY <1>3, <2>1, NothingCounted DEF vars
<1> QED BY <1>1, <1>2, <1>3, CollectorCounted, ShutdownCounted DEF Next

(***************************************************************************)
(* Between two collections the count of a value that is not a string is    *)
(* the number of references to it: the releases that a mark-and-sweep      *)
(* skips leave no stray count behind.                                      *)
(***************************************************************************)
THEOREM CountsExact == Spec => []ExactCounts
<1>1. CountedExact /\ IndInv => ExactCounts
  BY DEF IndInv, TypeOK, CountedExact, Counted, ExactCounts
<1>2. Spec => []CountedExact
  BY InitCounted, NextCounted, Invariance, PTL DEF Spec
<1> QED BY Invariance, <1>1, <1>2, PTL

-----------------------------------------------------------------------------
(* Completeness.  The mark reaches exactly what is reachable; clearing the *)
(* rest takes no path away from what was marked, and only strings are      *)
(* marked later.                                                           *)

MarkedReachable ==
    phase \in {"fix", "destroy"} =>
        \A v \in marked : str[v] = Nil => v \in ReachableFrom(MarkRoots)

\* What is reachable stays so when there are as many roots and the fields of
\* a closed set stay as they are.
LEMMA ReachableStays ==
    ASSUME NEW S \in SUBSET Ids, Closed(S), MarkRoots \subseteq S, MarkRoots \subseteq MarkRoots',
           \A u \in S, f \in Fields : field'[<<u, f>>] = field[<<u, f>>]
    PROVE  ReachableFrom(MarkRoots) \subseteq ReachableFrom(MarkRoots)'
<1> SUFFICES ASSUME NEW v \in ReachableFrom(MarkRoots), NEW T \in SUBSET Ids,
                    MarkRoots' \subseteq T, Closed(T)'
             PROVE  v \in T
  BY DEF ReachableFrom
<1>1. Closed(S \cap T)
  BY DEF Closed
<1>2. MarkRoots \subseteq S \cap T /\ S \cap T \in SUBSET Ids
  OBVIOUS
<1> QED BY <1>1, <1>2 DEF ReachableFrom

\* A step of the sweep keeps the marked values, their fields and the roots.
LEMMA MarkedStays ==
    ASSUME IndInv, MarkedReachable, phase \in {"fix", "destroy"},
           stack_values' = stack_values, candidates \subseteq candidates',
           \A v \in marked, f \in Fields : field'[<<v, f>>] = field[<<v, f>>],
           \A v \in marked' : str'[v] = Nil => v \in marked /\ str[v] = Nil
    PROVE  MarkedReachable'
<1>1. /\ Closed(marked) /\ MarkRoots \subseteq marked /\ marked \in SUBSET Ids
  BY DEF IndInv, TypeOK, MarksOK, MarkRoots
<1>2. MarkRoots \subseteq MarkRoots'
  BY DEF MarkRoots, OnStack
<1>3. ReachableFrom(MarkRoots) \subseteq ReachableFrom(MarkRoots)'
  BY <1>1, <1>2, ReachableStays
<1> QED BY <1>3 DEF MarkedReachable

LEMMA NextMarked == IndInv /\ MarkedReachable /\ [Next]_vars => MarkedReachable'
<1> SUFFICES ASSUME IndInv, MarkedReachable, [Next]_vars, phase' \in {"fix", "destroy"}
             PROVE  MarkedReachable'
  BY DEF MarkedReachable
<1>0. /\ phase \in {"fix", "destroy"} => marked \subseteq values
      /\ victim # Nil => victim \notin marked \/ phase \notin {"fix", "destroy"}
      /\ victim # Nil => phase \in {"candidates", "fix", "down"}
      /\ values \cap destroy_list = {} /\ values \subseteq Ids
  BY DEF IndInv, MarksOK, PhasesOK, TypeOK
<1>1. CASE gcMark
  <2>1. marked' = ReachableFrom(MarkRoots) /\ UNCHANGED <<field, stack_values, candidates>>
    BY <1>1 DEF gcMark
  <2>2. ReachableFrom(MarkRoots)' = ReachableFrom(MarkRoots)
    BY <2>1 DEF ReachableFrom, MarkRoots, OnStack, Closed
  <2> QED BY <2>1, <2>2 DEF MarkedReachable
<1>2. ASSUME NEW f \in Fields, clearField(f) PROVE MarkedReachable'
  <2>1. /\ phase = "fix" /\ victim \notin marked /\ UNCHANGED <<stack_values, str, phase>>
        /\ field' = [field EXCEPT ![<<victim, f>>] = Nil] /\ releaseValue(field[<<victim, f>>])
    BY <1>0, <1>2 DEF clearField
  <2>2. marked' = marked /\ candidates \subseteq candidates'
    BY <2>1 DEF releaseValue, saveFreeCandidateValue, keepCandidates, gc_fix_in_progress
  <2>3. \A v \in marked, g \in Fields : field'[<<v, g>>] = field[<<v, g>>]
    BY <1>0, <2>1 DEF IndInv, TypeOK
  <2> QED BY <2>1, <2>2, <2>3, MarkedStays
<1>3. ASSUME NEW h \in Handles, clearHandle(h) PROVE MarkedReachable'
  <2>1. phase = "fix" /\ UNCHANGED <<field, stack_values, str, phase>>
    BY <1>0, <1>3 DEF clearHandle
  <2>2. marked' \subseteq marked \cup {handle[h]} /\ candidates \subseteq candidates'
    BY <1>3 DEF clearHandle, releaseString, saveFreeCandidateValue, keepCandidates
  <2>3. str[handle[h]] # Nil
    <3>1. owner[h] # Host
      BY <1>3, IdsAssumption DEF clearHandle, IndInv, TypeOK, IdOrNil
    <3> QED BY <2>1, <3>1 DEF IndInv, PinsOK, Running
  <2> QED BY <2>1, <2>2, <2>3, MarkedStays
<1>4. CASE endClear
  <2>1. /\ phase = "fix" /\ victim \notin marked /\ UNCHANGED <<field, stack_values, candidates>>
        /\ marked' = marked \ {victim} /\ \A x \in Ids : x # victim => str'[x] = str[x]
    BY <1>0, <1>4 DEF endClear, IndInv, TypeOK
  <2>2. \A v \in marked' : str'[v] = str[v] /\ v \in marked
    BY <1>0, <2>1
  <2> QED BY <2>1, <2>2, MarkedStays
<1>5. ASSUME NEW v \in Ids, gcKeepExternal(v) PROVE MarkedReachable'
  <2>1. UNCHANGED <<field, stack_values, candidates, str>> /\ phase = "fix"
        /\ marked' = marked \cup {v} /\ external_ref_count[v] > 0
    BY <1>5 DEF gcKeepExternal
  <2>2. str[v] # Nil
    BY <2>1, PinnedIsString DEF Running
  <2> QED BY <2>1, <2>2, MarkedStays
<1>6. ASSUME NEW v \in Ids, destroyValue(v) PROVE MarkedReachable'
  <2>1. UNCHANGED <<field, stack_values, str>> /\ phase = "destroy" /\ v \in destroy_list
        /\ marked' = marked \ {v} /\ candidates' = candidates \ {v}
    BY <1>6 DEF destroyValue
  <2>2. v \notin candidates
    BY <1>0, <2>1 DEF IndInv, MarksOK
  <2> QED BY <2>1, <2>2, MarkedStays
<1>7. CASE (\E v \in Ids : gcSweep(v)) \/ gcSweepEnd
  <2>1. UNCHANGED <<field, stack_values, str, candidates, marked>> /\ phase = "fix"
    BY <1>7 DEF gcSweep, gcSweepEnd, startClear
  <2> QED BY <2>1, MarkedStays
<1>8. CASE UNCHANGED vars
  <2>1. UNCHANGED <<field, stack_values, str, candidates, marked, phase>>
    BY <1>8 DEF vars
  <2> QED BY <2>1, MarkedStays
<1>9. CASE Program
  BY <1>9 DEF Program, pushObjectValue, pushNewStringValue, pushFoundStringValue, pushValue,
     pop, setValue, newString, giveString, deleteString, registerValueAndPush
<1>10. CASE \/ gcStart \/ gcEnd \/ destroyEnd \/ Shutdown
            \/ \E c \in Ids, lost \in SUBSET candidates : gcUnlink(c, lost) \/ gcFree(c, lost)
  BY <1>10 DEF gcStart, gcEnd, destroyEnd, gcUnlink, gcFree, Shutdown, shutdown,
     shutdownClear, shutdownStrings, shutdownDestroy
<1> QED BY <1>1, <1>2, <1>3, <1>4, <1>5, <1>6, <1>7, <1>8, <1>9, <1>10
        DEF Next, Clearing, Collector

(***************************************************************************)
(* When a mark-and-sweep ends, a surviving value that is not a string is   *)
(* reachable from the globals, the stack or a candidate: no cycle that the *)
(* counts cannot free is left.                                             *)
(***************************************************************************)
THEOREM CollectionComplete == Spec => FullCollectionIsComplete
<1>1. Init => MarkedReachable
  BY DEF Init, MarkedReachable
<1>2. Spec => []MarkedReachable
  BY <1>1, NextMarked, Invariance, PTL DEF Spec
<1>3. IndInv /\ MarkedReachable
        => (phase = "destroy" /\ phase' = "idle" =>
              {v \in values : str[v] = Nil} \subseteq ReachableFrom(MarkRoots))
  BY DEF IndInv, MarksOK, MarkedReachable
<1> QED BY Invariance, <1>2, <1>3, PTL DEF FullCollectionIsComplete

-----------------------------------------------------------------------------
(* Slots and remainders.                                                   *)

\* Division with a remainder.
LEMMA Division ==
    ASSUME NEW n \in Nat \ {0}, NEW v \in Nat
    PROVE  /\ v \div n \in Nat /\ v % n \in 0 .. n - 1
           /\ v = n * (v \div n) + (v % n)
OBVIOUS

\* A remainder is determined by any quotient.
LEMMA RemainderIs ==
    ASSUME NEW n \in Nat \ {0}, NEW q \in Int, NEW r \in 0 .. n - 1, NEW v \in Nat,
           v = n * q + r
    PROVE  v % n = r
<1> DEFINE p == v \div n
           s == v % n
<1>1. p \in Int /\ s \in 0 .. n - 1 /\ v = n * p + s
  OBVIOUS
<1> HIDE DEF p, s
<1>2. n * (p - q) = r - s
  BY <1>1
<1>3. p = q
  <2>1. CASE p - q >= 1
    <3>1. n * (p - q) >= n BY <1>1, <2>1
    <3> QED BY <1>1, <1>2, <3>1
  <2>2. CASE p - q <= -1
    <3>1. n * (p - q) <= -n BY <1>1, <2>2
    <3> QED BY <1>1, <1>2, <3>1
  <2> QED BY <1>1, <2>1, <2>2
<1>4. r = s
  BY <1>1, <1>2, <1>3
<1> QED BY <1>4 DEF s

\* The slot in the table of twice the size tells the slot in the old one.
LEMMA SlotOfDouble ==
    ASSUME NEW n \in Nat \ {0}, NEW m \in Nat \ {0}, m = 2 * n, NEW v \in Nat
    PROVE  /\ v % n \in 0 .. n - 1
           /\ v % m \in 0 .. m - 1
           /\ (v % m) % n = v % n
<1>1. PICK q \in Nat, s \in 0 .. m - 1 : v = m * q + s /\ s = v % m
  <2>1. v \div m \in Nat /\ v % m \in 0 .. m - 1 /\ v = m * (v \div m) + (v % m)
    BY Division
  <2> QED BY <2>1
<1>2. PICK p \in Nat, r \in 0 .. n - 1 : s = n * p + r /\ r = s % n
  <2>1. s \in Nat
    OBVIOUS
  <2>2. s \div n \in Nat /\ s % n \in 0 .. n - 1 /\ s = n * (s \div n) + (s % n)
    BY <2>1, Division
  <2> QED BY <2>2
<1>3. PICK u \in Int : u = 2 * q + p
  OBVIOUS
<1>4. v = n * u + r
  <2>1. PICK x \in Int, y \in Int : x = m * q /\ y = n * p
    OBVIOUS
  <2>2. n * u = x + y
    BY <1>3, <2>1
  <2>3. v = x + s /\ s = y + r
    BY <1>1, <1>2, <2>1
  <2> QED BY <2>2, <2>3
<1>5. v % n = r
  BY <1>4, RemainderIs
<1> QED BY <1>1, <1>2, <1>5

-----------------------------------------------------------------------------
(* Chains.                                                                 *)

\* A value is at its index.
LEMMA IndexInChain ==
    ASSUME NEW S, NEW c \in Seq(S), NEW v \in ToSet(c)
    PROVE  IndexIn(c, v) \in 1 .. Len(c) /\ c[IndexIn(c, v)] = v
<1>1. \E j \in DOMAIN c : c[j] = v
  BY DEF ToSet
<1> QED BY <1>1 DEF IndexIn

\* Two chains, one after the other.
LEMMA Concatenated ==
    ASSUME NEW S, NEW a \in Seq(S), NEW b \in Seq(S)
    PROVE  /\ a \o b \in Seq(S) /\ Len(a \o b) = Len(a) + Len(b)
           /\ \A j \in 1 .. Len(a) + Len(b) :
                 (a \o b)[j] = IF j <= Len(a) THEN a[j] ELSE b[j - Len(a)]
<1>1. a \o b \in Seq(S)
  OBVIOUS
<1>2. Len(a \o b) = Len(a) + Len(b)
  OBVIOUS
<1>3. ASSUME NEW j \in 1 .. Len(a) + Len(b)
      PROVE  (a \o b)[j] = IF j <= Len(a) THEN a[j] ELSE b[j - Len(a)]
  OBVIOUS
<1> QED BY <1>1, <1>2, <1>3

\* One element of a chain is removed.
LEMMA RemovedAt ==
    ASSUME NEW S, NEW c \in Seq(S), NEW k \in 1 .. Len(c)
    PROVE  /\ RemoveAt(c, k) \in Seq(S)
           /\ Len(RemoveAt(c, k)) = Len(c) - 1
           /\ \A j \in 1 .. Len(c) - 1 :
                 RemoveAt(c, k)[j] = IF j < k THEN c[j] ELSE c[j + 1]
<1> DEFINE a == SubSeq(c, 1, k - 1)
           b == SubSeq(c, k + 1, Len(c))
<1>1. a \in Seq(S) /\ Len(a) = k - 1 /\ \A j \in 1 .. k - 1 : a[j] = c[j]
  OBVIOUS
<1>2. /\ b \in Seq(S) /\ Len(b) = Len(c) - k
      /\ \A j \in 1 .. Len(c) - k : b[j] = c[j + k]
  OBVIOUS
<1>3. RemoveAt(c, k) = a \o b
  BY DEF RemoveAt
<1> HIDE DEF a, b
<1> DEFINE n == Len(c)
<1>0. n \in Nat /\ k \in 1 .. n
  OBVIOUS
<1> HIDE DEF n
<1>4. /\ a \o b \in Seq(S) /\ Len(a \o b) = n - 1
      /\ \A j \in 1 .. n - 1 :
            (a \o b)[j] = IF j < k THEN a[j] ELSE b[j - k + 1]
  <2>1. /\ a \o b \in Seq(S) /\ Len(a \o b) = Len(a) + Len(b)
        /\ \A j \in 1 .. Len(a) + Len(b) :
              (a \o b)[j] = IF j <= Len(a) THEN a[j] ELSE b[j - Len(a)]
    BY <1>1, <1>2, Concatenated
  <2>2. Len(a) = k - 1 /\ Len(b) = n - k
    BY <1>1, <1>2 DEF n
  <2>3. Len(a) + Len(b) = n - 1
    BY <1>0, <2>2
  <2>4. ASSUME NEW j \in 1 .. n - 1
        PROVE  (a \o b)[j] = IF j < k THEN a[j] ELSE b[j - k + 1]
    <3>1. j - Len(a) = j - k + 1 /\ (j <= Len(a) <=> j < k)
      BY <1>0, <2>2
    <3> QED BY <2>1, <2>3, <3>1
  <2> QED BY <2>1, <2>3, <2>4
<1>5. ASSUME NEW j \in 1 .. n - 1
      PROVE  (a \o b)[j] = IF j < k THEN c[j] ELSE c[j + 1]
  <2>1. CASE j < k
    <3>1. j \in 1 .. k - 1 /\ a[j] = c[j]
      BY <1>0, <1>1, <2>1
    <3> QED BY <1>4, <2>1, <3>1
  <2>2. CASE ~(j < k)
    <3>1. j - k + 1 \in 1 .. n - k /\ (j - k + 1) + k = j + 1
      BY <1>0, <2>2
    <3>2. b[j - k + 1] = c[j + 1]
      BY <1>2, <3>1 DEF n
    <3> QED BY <1>4, <2>2, <3>2
  <2> QED BY <2>1, <2>2
<1> QED BY <1>3, <1>4, <1>5 DEF n

\* What rehashing makes of a chain: the values of the new slot, each once.
LEMMA Rehashed ==
    ASSUME NEW S, NEW c \in Seq(S), IsInjective(c), NEW m, NEW s
    PROVE  /\ rehashed(c, m, s) \in Seq(S)
           /\ IsInjective(rehashed(c, m, s))
           /\ ToSet(rehashed(c, m, s)) = {v \in ToSet(c) : v % m = s}
<1> DEFINE moved == {j \in DOMAIN c : c[j] % m = s}
           behind(j) == {k \in moved : k > j}
           after(j) == Cardinality(behind(j))
           K == Cardinality(moved)
           at(p) == CHOOSE j \in moved : after(j) = p - 1
           d == [p \in 1 .. K |-> c[at(p)]]
<1>1. rehashed(c, m, s) = d
  BY DEF rehashed
<1>2. moved \subseteq 1 .. Len(c) /\ Len(c) \in Nat
  OBVIOUS
<1>3. \A v : v \in {w \in ToSet(c) : w % m = s} <=> \E j \in moved : c[j] = v
  BY DEF ToSet
<1>4. /\ \A j \in moved : c[j] \in S
      /\ \A j, k \in moved : c[j] = c[k] => j = k
  BY <1>2 DEF IsInjective
<1> HIDE DEF moved
<1>5. IsFiniteSet(moved) /\ K \in Nat
  <2>1. IsFiniteSet(1 .. Len(c))
    BY <1>2, FS_Interval
  <2> QED BY <1>2, <2>1, FS_Subset, FS_CardinalityType
<1>6. ASSUME NEW j \in moved
      PROVE  IsFiniteSet(behind(j)) /\ after(j) \in Nat /\ after(j) < K
  <2>1. behind(j) \subseteq moved \ {j}
    BY <1>2
  <2>2. IsFiniteSet(moved \ {j}) /\ Cardinality(moved \ {j}) = K - 1
    BY <1>5, FS_RemoveElement
  <2> HIDE DEF behind, K
  <2>3. IsFiniteSet(behind(j)) /\ Cardinality(behind(j)) <= K - 1
    BY <2>1, <2>2, FS_Subset
  <2> QED BY <1>5, <2>3, FS_CardinalityType
<1>7. ASSUME NEW j \in moved, NEW k \in moved, j < k
      PROVE  after(k) < after(j)
  <2>1. behind(k) \subseteq behind(j) \ {k} /\ k \in behind(j)
    <3>1. moved \subseteq Int /\ j < k
      BY <1>2, <1>7
    <3>2. \A i \in moved : i > k => i > j /\ i # k
      BY <3>1
    <3> QED BY <3>1, <3>2
  <2> HIDE DEF behind
  <2>2. /\ IsFiniteSet(behind(j) \ {k})
        /\ Cardinality(behind(j) \ {k}) = Cardinality(behind(j)) - 1
    BY <1>6, <2>1, FS_RemoveElement
  <2>3. Cardinality(behind(k)) <= Cardinality(behind(j)) - 1
    BY <2>1, <2>2, FS_Subset
  <2> QED BY <1>6, <2>3
<1>8. ASSUME NEW j \in moved, NEW k \in moved, after(j) = after(k)
      PROVE  j = k
  <2>1. j \in Int /\ k \in Int
    BY <1>2
  <2>2. after(j) \in Nat /\ after(k) \in Nat
    BY <1>6
  <2> HIDE DEF after
  <2> QED BY <1>7, <1>8, <2>1, <2>2
<1>9. ASSUME NEW p \in 1 .. K
      PROVE  \E j \in moved : after(j) = p - 1
  <2> SUFFICES ASSUME \A j \in moved : after(j) # p - 1
               PROVE  FALSE
    OBVIOUS
  <2> DEFINE T == (0 .. K - 1) \ {p - 1}
             f == [j \in moved |-> after(j)]
  <2>1. IsFiniteSet(T) /\ Cardinality(T) = K - 1
    <3>1. IsFiniteSet(0 .. K - 1) /\ Cardinality(0 .. K - 1) = K
      <4> HIDE DEF K
      <4> QED BY <1>5, FS_Interval
    <3>2. p - 1 \in 0 .. K - 1
      BY <1>5
    <3> HIDE DEF K
    <3> QED BY <3>1, <3>2, FS_RemoveElement
  <2>2. f \in [moved -> T]
    <3>1. \A j \in moved : after(j) \in Nat /\ after(j) < K
      BY <1>6
    <3> HIDE DEF after, K
    <3> QED BY <1>5, <3>1
  <2> HIDE DEF T, f
  <2>3. \E j, k \in moved : j # k /\ f[j] = f[k]
    BY <1>5, <2>1, <2>2, FS_PigeonHole
  <2> HIDE DEF after
  <2> QED BY <1>8, <2>3 DEF f
<1>10. \A p \in 1 .. K : at(p) \in moved /\ after(at(p)) = p - 1
  <2> HIDE DEF after, K
  <2> QED BY <1>9
<1>11. \A j \in moved : after(j) + 1 \in 1 .. K /\ at(after(j) + 1) = j
  <2> TAKE j \in moved
  <2>1. after(j) + 1 \in 1 .. K /\ (after(j) + 1) - 1 = after(j)
    <3>1. after(j) \in Nat /\ after(j) < K
      BY <1>6
    <3> HIDE DEF after, K
    <3> QED BY <1>5, <3>1
  <2> HIDE DEF after, at, K
  <2>2. at(after(j) + 1) \in moved /\ after(at(after(j) + 1)) = after(j)
    BY <1>10, <2>1
  <2> QED BY <1>8, <2>1, <2>2
<1> HIDE DEF after, at, K
<1>12. d \in Seq(S)
  BY <1>4, <1>5, <1>10
<1>13. IsInjective(d)
  <2> SUFFICES ASSUME NEW p \in 1 .. K, NEW q \in 1 .. K, d[p] = d[q]
               PROVE  p = q
    BY DEF IsInjective
  <2>1. at(p) = at(q)
    BY <1>4, <1>10
  <2> QED BY <1>5, <1>10, <2>1
<1>14. \A v : v \in ToSet(d) <=> \E j \in moved : c[j] = v
  <2> TAKE v
  <2>1. ASSUME NEW p \in 1 .. K, v = d[p]
        PROVE  \E j \in moved : c[j] = v
    BY <1>10, <2>1
  <2>2. ASSUME NEW j \in moved, c[j] = v
        PROVE  \E p \in 1 .. K : d[p] = v
    <3>1. d[after(j) + 1] = v
      BY <1>11, <2>2
    <3> QED BY <1>11, <3>1
  <2>3. v \in ToSet(d) <=> \E p \in 1 .. K : d[p] = v
    BY DEF ToSet
  <2> QED BY <2>1, <2>2, <2>3
<1> HIDE DEF d
<1> QED BY <1>1, <1>3, <1>12, <1>13, <1>14

-----------------------------------------------------------------------------
(* The table.                                                              *)

Size(t) == Cardinality(Slots(t))

\* A table of at least one slot, each with its own values, each value once
WellFormed(t) ==
    /\ t = [heads |-> t.heads, count |-> t.count]
    /\ t.count \in Nat
    /\ \E n \in Nat \ {0} : t.heads \in [0 .. n - 1 -> Seq(Ids)]
    /\ \A i \in Slots(t) :
          /\ IsInjective(t.heads[i])
          /\ \A v \in ToSet(t.heads[i]) : v % Size(t) = i

\* ... and a counter that covers its values
Sound(t) == WellFormed(t) /\ t.count >= Cardinality(InTable(t))

\* The slots of a table are numbered from zero.
LEMMA SlotsOf ==
    ASSUME NEW t, NEW n \in Nat \ {0}, NEW S, t.heads \in [0 .. n - 1 -> S]
    PROVE  Slots(t) = 0 .. n - 1 /\ Size(t) = n
<1>1. Slots(t) = 0 .. n - 1
  BY DEF Slots
<1>2. Cardinality(0 .. n - 1) = n
  BY FS_Interval
<1> QED BY <1>1, <1>2 DEF Size

\* A table has its slots, and a value is in the table when it is in its slot.
LEMMA InItsSlot ==
    ASSUME NEW t, WellFormed(t)
    PROVE  /\ Size(t) \in Nat \ {0} /\ Slots(t) = 0 .. Size(t) - 1
           /\ \A i \in Slots(t) : t.heads[i] \in Seq(Ids)
           /\ t.heads = [i \in Slots(t) |-> t.heads[i]]
           /\ InTable(t) \subseteq Ids
           /\ \A v \in Ids :
                 /\ v % Size(t) \in Slots(t)
                 /\ v \in InTable(t) <=> v \in ToSet(t.heads[v % Size(t)])
<1>1. PICK n \in Nat \ {0} : t.heads \in [0 .. n - 1 -> Seq(Ids)]
  BY DEF WellFormed
<1>2. Slots(t) = 0 .. n - 1 /\ Size(t) = n
  BY <1>1, SlotsOf
<1>3. \A v : v \in InTable(t) <=> \E i \in Slots(t) : v \in ToSet(t.heads[i])
  BY DEF InTable
<1>4. \A i \in Slots(t) : t.heads[i] \in Seq(Ids) /\ ToSet(t.heads[i]) \subseteq Ids
  BY <1>1, <1>2 DEF ToSet
<1>5. ASSUME NEW v \in Ids
      PROVE  v % n \in Slots(t)
  <2>1. v \in Nat
    BY ValueGCAssumption
  <2> QED BY <1>2, <2>1, Division
<1>6. ASSUME NEW v \in Ids
      PROVE  v \in InTable(t) <=> v \in ToSet(t.heads[v % n])
  BY <1>2, <1>3, <1>5 DEF WellFormed
<1>7. InTable(t) \subseteq Ids
  BY <1>3, <1>4
<1> QED BY <1>1, <1>2, <1>4, <1>5, <1>6, <1>7

\* The table with the chain c in slot i and the counter k
WithChain(t, i, c, k) == [heads |-> [t.heads EXCEPT ![i] = c], count |-> k]

\* One chain is replaced by another.
LEMMA ChainReplaced ==
    ASSUME NEW t, WellFormed(t), NEW i \in Slots(t), NEW c \in Seq(Ids),
           IsInjective(c), \A v \in ToSet(c) : v % Size(t) = i,
           NEW k \in Nat, NEW u, u = WithChain(t, i, c, k)
    PROVE  /\ WellFormed(u) /\ u.count = k /\ Slots(u) = Slots(t)
           /\ Size(u) = Size(t)
           /\ u.heads[i] = c
           /\ \A j \in Slots(t) \ {i} : u.heads[j] = t.heads[j]
           /\ InTable(u) = (InTable(t) \ ToSet(t.heads[i])) \cup ToSet(c)
<1>1. PICK n \in Nat \ {0} : t.heads \in [0 .. n - 1 -> Seq(Ids)]
  BY DEF WellFormed
<1>2. Slots(t) = 0 .. n - 1 /\ Size(t) = n
  BY <1>1, SlotsOf
<1> DEFINE h == [t.heads EXCEPT ![i] = c]
<1>3. /\ h \in [0 .. n - 1 -> Seq(Ids)] /\ h[i] = c
      /\ \A j \in Slots(t) \ {i} : h[j] = t.heads[j]
  BY <1>1, <1>2
<1>4. u.heads = h /\ u.count = k /\ u = [heads |-> u.heads, count |-> u.count]
  BY DEF WithChain
<1> HIDE DEF h
<1>5. Slots(u) = 0 .. n - 1 /\ Size(u) = n
  <2>1. u.heads \in [0 .. n - 1 -> Seq(Ids)]
    BY <1>3, <1>4
  <2> QED BY ONLY <2>1, SlotsOf
<1>6. ASSUME NEW j \in Slots(u)
      PROVE  /\ IsInjective(u.heads[j])
             /\ \A v \in ToSet(u.heads[j]) : v % Size(u) = j
  <2>1. CASE j = i
    BY <1>2, <1>3, <1>4, <1>5, <2>1
  <2>2. CASE j # i
    BY <1>2, <1>3, <1>4, <1>5, <2>2 DEF WellFormed
  <2> QED BY <2>1, <2>2
<1>7. WellFormed(u)
  BY <1>3, <1>4, <1>6 DEF WellFormed
<1>8. ASSUME NEW v
      PROVE  v \in InTable(u) <=> v \in (InTable(t) \ ToSet(t.heads[i])) \cup ToSet(c)
  <2>1. /\ v \in InTable(t) <=> \E j \in Slots(t) : v \in ToSet(t.heads[j])
        /\ v \in InTable(u) <=> \E j \in Slots(t) : v \in ToSet(u.heads[j])
    BY <1>2, <1>5 DEF InTable
  <2>2. ASSUME NEW j \in Slots(t) \ {i}, v \in ToSet(t.heads[j])
        PROVE  v \notin ToSet(t.heads[i])
    BY <2>2 DEF WellFormed
  <2> QED BY <1>3, <1>4, <2>1, <2>2
<1> QED BY <1>2, <1>3, <1>4, <1>5, <1>7, <1>8

\* Growing keeps the values of a table and its counter.
LEMMA Grown ==
    ASSUME NEW t, WellFormed(t), NEW u, u = growHeads(t)
    PROVE  /\ WellFormed(u) /\ u.count = t.count
           /\ Size(u) = 2 * Size(t)
           /\ InTable(u) = InTable(t)
<1>1. PICK n \in Nat \ {0} : t.heads \in [0 .. n - 1 -> Seq(Ids)]
  BY DEF WellFormed
<1>2. Slots(t) = 0 .. n - 1 /\ Size(t) = n /\ Cardinality(Slots(t)) = n
  BY <1>1, SlotsOf DEF Size
<1>3. PICK m \in Nat \ {0} : m = 2 * n
  OBVIOUS
<1> DEFINE h == [s \in 0 .. m - 1 |-> rehashed(t.heads[s % n], m, s)]
<1>4. u.heads = h /\ u.count = t.count /\ u = [heads |-> u.heads, count |-> u.count]
  <2>1. u = [t EXCEPT !.heads = h]
    BY <1>2, <1>3 DEF growHeads
  <2>2. t = [heads |-> t.heads, count |-> t.count]
    BY DEF WellFormed
  <2> HIDE DEF h
  <2> QED BY <2>1, <2>2
<1>5. ASSUME NEW s \in 0 .. m - 1
      PROVE  /\ s % n \in 0 .. n - 1
             /\ h[s] \in Seq(Ids) /\ IsInjective(h[s])
             /\ ToSet(h[s]) = {v \in ToSet(t.heads[s % n]) : v % m = s}
  <2>1. s % n \in 0 .. n - 1
    BY Division
  <2>2. t.heads[s % n] \in Seq(Ids) /\ IsInjective(t.heads[s % n])
    BY <1>1, <1>2, <2>1 DEF WellFormed
  <2> QED BY <2>1, <2>2, Rehashed
<1>6. h \in [0 .. m - 1 -> Seq(Ids)]
  BY <1>5
<1> HIDE DEF h
<1>7. Slots(u) = 0 .. m - 1 /\ Size(u) = m
  BY <1>4, <1>6, SlotsOf
<1>8. WellFormed(u)
  <2>1. \A s \in Slots(u) : /\ IsInjective(u.heads[s])
                            /\ \A v \in ToSet(u.heads[s]) : v % Size(u) = s
    BY <1>4, <1>5, <1>7
  <2>2. u.count \in Nat
    BY <1>4 DEF WellFormed
  <2> QED BY <1>4, <1>6, <2>1, <2>2 DEF WellFormed
<1>9. InTable(u) \subseteq Ids /\ InTable(t) \subseteq Ids
  BY <1>8, InItsSlot
<1>10. ASSUME NEW v \in Ids
       PROVE  v \in InTable(u) <=> v \in InTable(t)
  <2>1. v \in InTable(u) <=> v \in ToSet(h[v % m])
    BY <1>4, <1>7, <1>8, InItsSlot
  <2>2. v \in InTable(t) <=> v \in ToSet(t.heads[v % n])
    BY <1>2, InItsSlot
  <2>3. v % m \in 0 .. m - 1 /\ (v % m) % n = v % n
    <3>1. v \in Nat
      BY ValueGCAssumption
    <3> QED BY <1>3, <3>1, SlotOfDouble
  <2> QED BY <1>5, <2>1, <2>2, <2>3
<1> QED BY <1>2, <1>3, <1>4, <1>7, <1>8, <1>9, <1>10

\* A value that is pushed on a chain is its first element.
LEMMA PushedChain ==
    ASSUME NEW S, NEW c \in Seq(S), IsInjective(c), NEW v \in S, v \notin ToSet(c)
    PROVE  LET d == <<v>> \o c IN
           /\ d \in Seq(S) /\ Len(d) = Len(c) + 1 /\ IsInjective(d)
           /\ d[1] = v /\ \A j \in 1 .. Len(c) : d[j + 1] = c[j]
           /\ ToSet(d) = ToSet(c) \cup {v}
<1> DEFINE d == <<v>> \o c
           n == Len(c)
<1>1. d \in Seq(S) /\ Len(d) = n + 1 /\ n \in Nat /\ DOMAIN c = 1 .. n
  OBVIOUS
<1>2. d[1] = v
  OBVIOUS
<1>3. ASSUME NEW j \in 1 .. n
      PROVE  d[j + 1] = c[j]
  OBVIOUS
<1>4. DOMAIN d = 1 .. n + 1
  BY <1>1
<1> HIDE DEF d, n
<1>5. \A j \in 1 .. n : c[j] # v
  BY <1>1 DEF ToSet
<1>6. \A j \in 1 .. n + 1 : j = 1 \/ (j - 1 \in 1 .. n /\ d[j] = c[j - 1])
  <2> TAKE j \in 1 .. n + 1
  <2>1. CASE j # 1
    <3>1. j - 1 \in 1 .. n /\ (j - 1) + 1 = j
      BY <1>1, <2>1
    <3> QED BY <1>3, <3>1
  <2> QED BY <2>1
<1>7. IsInjective(d)
  <2> SUFFICES ASSUME NEW j \in 1 .. n + 1, NEW k \in 1 .. n + 1, d[j] = d[k]
               PROVE  j = k
    BY <1>4 DEF IsInjective
  <2>1. CASE j = 1 \/ k = 1
    BY <1>2, <1>5, <1>6, <2>1
  <2>2. CASE j # 1 /\ k # 1
    <3>1. j - 1 = k - 1
      BY <1>1, <1>6, <2>2 DEF IsInjective
    <3> QED BY <1>1, <3>1
  <2> QED BY <2>1, <2>2
<1>8. ToSet(d) = ToSet(c) \cup {v}
  <2>1. \A x : x \in ToSet(d) => x \in ToSet(c) \cup {v}
    BY <1>1, <1>2, <1>4, <1>6 DEF ToSet
  <2>2. v \in ToSet(d)
    BY <1>1, <1>2, <1>4 DEF ToSet
  <2>3. ASSUME NEW j \in 1 .. n
        PROVE  c[j] \in ToSet(d)
    <3>1. j + 1 \in 1 .. n + 1
      BY <1>1
    <3> QED BY <1>3, <1>4, <3>1 DEF ToSet
  <2> QED BY <1>1, <2>1, <2>2, <2>3 DEF ToSet
<1> QED BY <1>1, <1>2, <1>3, <1>7, <1>8 DEF d, n

\* A chain without one of its values.
LEMMA RemovedChain ==
    ASSUME NEW S, NEW c \in Seq(S), IsInjective(c), NEW k \in 1 .. Len(c)
    PROVE  LET d == RemoveAt(c, k) IN
           IsInjective(d) /\ ToSet(d) = ToSet(c) \ {c[k]}
<1> DEFINE d == RemoveAt(c, k)
           n == Len(c)
           old(j) == IF j < k THEN j ELSE j + 1
<1>1. n \in Nat /\ DOMAIN c = 1 .. n /\ k \in 1 .. n
  OBVIOUS
<1>2. DOMAIN d = 1 .. n - 1 /\ \A j \in 1 .. n - 1 : d[j] = c[old(j)]
  <2>1. /\ d \in Seq(S) /\ Len(d) = n - 1
        /\ \A j \in 1 .. n - 1 : d[j] = IF j < k THEN c[j] ELSE c[j + 1]
    BY RemovedAt
  <2> HIDE DEF d, n
  <2> QED BY <2>1
<1> HIDE DEF d, n
<1>3. \A j \in 1 .. n - 1 : old(j) \in 1 .. n /\ old(j) # k
  BY <1>1
<1>4. \A j, m \in 1 .. n - 1 : old(j) = old(m) => j = m
  BY <1>1
<1>5. \A m \in 1 .. n : m # k => \E j \in 1 .. n - 1 : old(j) = m
  <2> TAKE m \in 1 .. n
  <2>1. CASE m < k
    <3>1. m \in 1 .. n - 1 /\ old(m) = m
      BY <1>1, <2>1
    <3> QED BY <3>1
  <2>2. CASE m > k
    <3>1. m - 1 \in 1 .. n - 1 /\ old(m - 1) = m
      BY <1>1, <2>2
    <3> QED BY <3>1
  <2>3. m \in Int /\ k \in Int
    BY <1>1
  <2> QED BY <2>1, <2>2, <2>3
<1> HIDE DEF old
<1>6. IsInjective(d)
  BY <1>1, <1>2, <1>3, <1>4 DEF IsInjective
<1>7. \A x : x \in ToSet(d) <=> \E j \in 1 .. n - 1 : c[old(j)] = x
  BY <1>2 DEF ToSet
<1>8. \A x : x \in ToSet(c) \ {c[k]} <=> \E m \in 1 .. n : m # k /\ c[m] = x
  BY <1>1 DEF ToSet, IsInjective
<1>9. \A x : x \in ToSet(d) <=> x \in ToSet(c) \ {c[k]}
  BY <1>3, <1>5, <1>7, <1>8
<1> QED BY <1>6, <1>9 DEF d

\* The rest of a chain behind one of its values.
LEMMA CutChain ==
    ASSUME NEW S, NEW c \in Seq(S), IsInjective(c), NEW k \in 1 .. Len(c)
    PROVE  LET d == SubSeq(c, k + 1, Len(c)) IN
           /\ d \in Seq(S) /\ Len(d) = Len(c) - k /\ IsInjective(d)
           /\ \A j \in 1 .. Len(c) - k : d[j] = c[j + k]
           /\ ToSet(d) \subseteq ToSet(c) \ {c[k]}
<1> DEFINE d == SubSeq(c, k + 1, Len(c))
           n == Len(c)
<1>1. n \in Nat /\ DOMAIN c = 1 .. n /\ k \in 1 .. n
  OBVIOUS
<1>2. /\ d \in Seq(S) /\ Len(d) = n - k /\ DOMAIN d = 1 .. n - k
      /\ \A j \in 1 .. n - k : d[j] = c[j + k]
  OBVIOUS
<1> HIDE DEF d, n
<1>3. \A j \in 1 .. n - k : j + k \in 1 .. n /\ j + k # k
  BY <1>1
<1>4. IsInjective(d)
  <2> SUFFICES ASSUME NEW i \in 1 .. n - k, NEW j \in 1 .. n - k, d[i] = d[j]
               PROVE  i = j
    BY <1>2 DEF IsInjective
  <2>1. i + k = j + k
    BY <1>1, <1>2, <1>3 DEF IsInjective
  <2> QED BY <1>1, <2>1
<1>5. ASSUME NEW j \in 1 .. n - k
      PROVE  d[j] \in ToSet(c) \ {c[k]}
  BY <1>1, <1>2, <1>3 DEF IsInjective, ToSet
<1> QED BY <1>2, <1>4, <1>5 DEF d, n, ToSet

\* The values of a table are finitely many.
LEMMA TableIsFinite ==
    ASSUME NEW t, WellFormed(t)
    PROVE  IsFiniteSet(InTable(t)) /\ Cardinality(InTable(t)) \in Nat
BY InItsSlot, IdsAssumption, FS_Subset, FS_CardinalityType

\* A value is pushed on the head of its chain.
LEMMA Pushed ==
    ASSUME NEW t, Sound(t), NEW v \in Ids \ InTable(t), NEW u, u = pushHead(t, v)
    PROVE  /\ Sound(u) /\ Slots(u) = Slots(t) /\ Size(u) = Size(t)
           /\ InTable(u) = InTable(t) \cup {v}
           /\ v % Size(t) \in Slots(t)
           /\ u.heads[v % Size(t)] = <<v>> \o t.heads[v % Size(t)]
           /\ \A j \in Slots(t) \ {v % Size(t)} : u.heads[j] = t.heads[j]
<1> DEFINE s == v % Size(t)
           c == t.heads[s]
           d == <<v>> \o c
<1>1. WellFormed(t) /\ t.count \in Nat /\ t = [heads |-> t.heads, count |-> t.count]
  BY DEF Sound, WellFormed
<1>2. s \in Slots(t) /\ c \in Seq(Ids) /\ v \notin ToSet(c)
  BY <1>1, InItsSlot
<1>3. IsInjective(c) /\ \A w \in ToSet(c) : w % Size(t) = s
  BY <1>1, <1>2 DEF WellFormed
<1>4. /\ d \in Seq(Ids) /\ IsInjective(d) /\ ToSet(d) = ToSet(c) \cup {v}
  <2> HIDE DEF c
  <2> QED BY <1>2, <1>3, PushedChain
<1>5. u = [t EXCEPT !.heads[s] = d, !.count = @ + 1]
  BY DEF pushHead, Size
<1>6. u = [heads |-> [t.heads EXCEPT ![s] = d], count |-> t.count + 1]
  <2> HIDE DEF s, c, d
  <2> QED BY <1>1, <1>5
<1>7. \A w \in ToSet(d) : w % Size(t) = s
  BY <1>3, <1>4
<1> HIDE DEF d, s
<1>8. /\ WellFormed(u) /\ u.count = t.count + 1 /\ Slots(u) = Slots(t)
      /\ Size(u) = Size(t)
      /\ u.heads[s] = d
      /\ \A j \in Slots(t) \ {s} : u.heads[j] = t.heads[j]
      /\ InTable(u) = (InTable(t) \ ToSet(t.heads[s])) \cup ToSet(d)
  <2>1. PICK k \in Nat : k = t.count + 1
    BY <1>1
  <2>2. u = WithChain(t, s, d, k)
    BY <1>6, <2>1 DEF WithChain
  <2>3. WellFormed(t) /\ s \in Slots(t) /\ d \in Seq(Ids) /\ IsInjective(d)
    BY <1>1, <1>2, <1>4
  <2> QED BY ONLY <1>7, <2>1, <2>2, <2>3, ChainReplaced
<1>9. InTable(u) = InTable(t) \cup {v}
  <2>1. ToSet(c) \subseteq InTable(t)
    BY <1>2 DEF InTable
  <2> QED BY <1>4, <1>8, <2>1
<1>10. u.count >= Cardinality(InTable(u))
  <2>1. Cardinality(InTable(t)) \in Nat /\ IsFiniteSet(InTable(t))
    BY <1>1, TableIsFinite
  <2>2. Cardinality(InTable(u)) = Cardinality(InTable(t)) + 1
    BY <1>9, <2>1, FS_AddElement
  <2>3. t.count >= Cardinality(InTable(t))
    BY DEF Sound
  <2> QED BY <1>1, <1>8, <2>1, <2>2, <2>3
<1> QED BY <1>2, <1>8, <1>9, <1>10 DEF Sound, s, d

\* A new value is registered, in a table that may have grown before.
LEMMA Registered ==
    ASSUME NEW t, Sound(t), NEW v \in Ids \ InTable(t), NEW u,
           u = registerFreeCandidateValue(t, v)
    PROVE  /\ Sound(u)
           /\ InTable(u) = InTable(t) \cup {v}
           /\ Size(u) \in Nat /\ Size(u) >= Size(t)
           /\ Size(u) = Size(t) => u = pushHead(t, v)
<1>1. WellFormed(t) /\ t.count >= Cardinality(InTable(t)) /\ Size(t) \in Nat \ {0}
  BY InItsSlot DEF Sound
<1>2. CASE t.count >= Cardinality(Slots(t)) - 1
  <2>1. PICK g : g = growHeads(t)
    OBVIOUS
  <2>2. /\ WellFormed(g) /\ g.count = t.count /\ Size(g) = 2 * Size(t)
        /\ InTable(g) = InTable(t)
    BY <1>1, <2>1, Grown
  <2>3. Sound(g)
    BY <1>1, <2>2 DEF Sound
  <2>4. u = pushHead(g, v)
    BY <1>2, <2>1 DEF registerFreeCandidateValue
  <2>5. Sound(u) /\ InTable(u) = InTable(g) \cup {v} /\ Size(u) = Size(g)
    BY <2>2, <2>3, <2>4, Pushed
  <2>6. Size(u) \in Nat /\ Size(u) > Size(t)
    BY <1>1, <2>2, <2>5
  <2> QED BY <1>1, <2>2, <2>5, <2>6
<1>3. CASE ~(t.count >= Cardinality(Slots(t)) - 1)
  <2>1. u = pushHead(t, v)
    BY <1>3 DEF registerFreeCandidateValue
  <2>2. Sound(u) /\ InTable(u) = InTable(t) \cup {v} /\ Size(u) = Size(t)
    BY <2>1, Pushed
  <2> QED BY <1>1, <2>1, <2>2
<1> QED BY <1>2, <1>3

\* The table with the chain c in slot i and one value less in its counter
Fewer(t, i, c) == [t EXCEPT !.heads[i] = c, !.count = @ - 1]

\* A smaller table with a counter that is one less is sound.
LEMMA Shrunk ==
    ASSUME NEW t, Sound(t), NEW i \in Slots(t), NEW v \in ToSet(t.heads[i]),
           NEW c \in Seq(Ids), IsInjective(c), ToSet(c) \subseteq ToSet(t.heads[i]) \ {v},
           NEW u, u = Fewer(t, i, c)
    PROVE  /\ Sound(u) /\ Slots(u) = Slots(t) /\ Size(u) = Size(t)
           /\ u.heads[i] = c
           /\ \A j \in Slots(t) \ {i} : u.heads[j] = t.heads[j]
           /\ v \in InTable(t) /\ InTable(u) \subseteq InTable(t) \ {v}
           /\ InTable(u) = (InTable(t) \ ToSet(t.heads[i])) \cup ToSet(c)
<1>1. /\ WellFormed(t) /\ t.count \in Nat
      /\ t = [heads |-> t.heads, count |-> t.count]
      /\ t.count >= Cardinality(InTable(t))
  BY DEF Sound, WellFormed
<1>2. v \in InTable(t)
  BY DEF InTable
<1>3. /\ IsFiniteSet(InTable(t)) /\ Cardinality(InTable(t)) \in Nat
      /\ IsFiniteSet(InTable(t) \ {v})
      /\ Cardinality(InTable(t) \ {v}) = Cardinality(InTable(t)) - 1
      /\ Cardinality(InTable(t) \ {v}) \in Nat
  BY <1>1, <1>2, TableIsFinite, FS_RemoveElement, FS_CardinalityType
<1>4. t.count - 1 \in Nat /\ t.count - 1 >= Cardinality(InTable(t) \ {v})
  BY <1>1, <1>3
<1>5. u = [heads |-> [t.heads EXCEPT ![i] = c], count |-> t.count - 1]
  BY <1>1 DEF Fewer
<1>6. \A w \in ToSet(c) : w % Size(t) = i
  BY <1>1 DEF WellFormed
<1>7. /\ WellFormed(u) /\ u.count = t.count - 1 /\ Slots(u) = Slots(t)
      /\ Size(u) = Size(t)
      /\ u.heads[i] = c
      /\ \A j \in Slots(t) \ {i} : u.heads[j] = t.heads[j]
      /\ InTable(u) = (InTable(t) \ ToSet(t.heads[i])) \cup ToSet(c)
  <2>1. PICK k \in Nat : k = t.count - 1
    BY <1>4
  <2>2. u = WithChain(t, i, c, k)
    BY <1>5, <2>1 DEF WithChain
  <2>3. WellFormed(t) /\ i \in Slots(t) /\ c \in Seq(Ids) /\ IsInjective(c)
    BY <1>1
  <2> QED BY ONLY <1>6, <2>1, <2>2, <2>3, ChainReplaced
<1>8. ToSet(t.heads[i]) \subseteq InTable(t)
  BY DEF InTable
<1>9. InTable(u) \subseteq InTable(t) \ {v}
  BY <1>7, <1>8
<1>10. u.count >= Cardinality(InTable(u))
  <2>1. Cardinality(InTable(u)) <= Cardinality(InTable(t) \ {v})
    BY <1>3, <1>9, FS_Subset
  <2>2. Cardinality(InTable(u)) \in Nat
    BY <1>7, TableIsFinite
  <2> QED BY <1>3, <1>4, <1>7, <2>1, <2>2
<1> QED BY <1>2, <1>7, <1>9, <1>10 DEF Sound

-----------------------------------------------------------------------------
(* The walk over the chains.                                               *)

\* The candidate is in the chain of its slot, right behind prev
Position(t, l) ==
    l.candidate # Nil =>
        /\ l.i \in Slots(t)
        /\ \E k \in DOMAIN t.heads[l.i] :
              /\ t.heads[l.i][k] = l.candidate
              /\ l.prev # Nil => k > 1 /\ t.heads[l.i][k - 1] = l.prev

\* Every value of the slots before l.i, and every value of its chain before the
\* candidate, is one of the set M
Behind(t, l, M) ==
    ~l.grown =>
        /\ \A s \in Slots(t) : s < l.i => ToSet(t.heads[s]) \subseteq M
        /\ l.i \in Slots(t) =>
              \A k \in DOMAIN t.heads[l.i] :
                  \/ t.heads[l.i][k] \in M
                  \/ /\ l.candidate # Nil
                     /\ \E j \in DOMAIN t.heads[l.i] :
                           j <= k /\ t.heads[l.i][j] = l.candidate

LoopType == [i : Nat, prev : IdOrNil, candidate : IdOrNil, head_mask : Nat,
             grown : BOOLEAN]

\* A sweep that starts with a slot.
LEMMA StartedSlot ==
    ASSUME NEW t, WellFormed(t), NEW i \in Nat, NEW grown \in BOOLEAN, NEW M,
           ~grown => \A s \in Slots(t) : s < i => ToSet(t.heads[s]) \subseteq M,
           NEW l, l = startSlot(t, i, HeadMask(t), grown)
    PROVE  /\ l \in LoopType /\ l.head_mask = HeadMask(t)
           /\ Position(t, l) /\ Behind(t, l, M)
<1>1. /\ Size(t) \in Nat \ {0} /\ Slots(t) = 0 .. Size(t) - 1
      /\ HeadMask(t) = Size(t) - 1
      /\ \A s \in Slots(t) : t.heads[s] \in Seq(Ids)
  BY InItsSlot DEF HeadMask, Size
<1>2. HeadMask(t) \in Nat /\ (i <= HeadMask(t) <=> i \in Slots(t))
  BY <1>1
<1>3. /\ l.i = i /\ l.prev = Nil /\ l.head_mask = HeadMask(t) /\ l.grown = grown
      /\ l.candidate = IF i \in Slots(t) /\ t.heads[i] # << >>
                       THEN Head(t.heads[i]) ELSE Nil
      /\ l = [i |-> l.i, prev |-> l.prev, candidate |-> l.candidate,
              head_mask |-> l.head_mask, grown |-> l.grown]
  BY <1>2 DEF startSlot
<1>4. ASSUME i \in Slots(t), t.heads[i] # << >>
      PROVE  /\ 1 \in DOMAIN t.heads[i] /\ l.candidate = t.heads[i][1]
             /\ l.candidate \in Ids
             /\ \A k \in DOMAIN t.heads[i] : 1 <= k
  BY <1>1, <1>3, <1>4
<1>5. l.candidate \in IdOrNil
  BY <1>3, <1>4 DEF IdOrNil
<1>6. l \in LoopType
  BY <1>2, <1>3, <1>5 DEF LoopType, IdOrNil
<1>7. Position(t, l)
  BY <1>3, <1>4 DEF Position
<1>8. Behind(t, l, M)
  <2>1. ASSUME i \in Slots(t), NEW k \in DOMAIN t.heads[i]
        PROVE  /\ l.candidate # Nil
               /\ \E j \in DOMAIN t.heads[i] : j <= k /\ t.heads[i][j] = l.candidate
    <3>1. t.heads[i] # << >>
      BY <2>1
    <3> QED BY <1>4, <2>1, <3>1, IdsAssumption
  <2> QED BY <1>3, <2>1 DEF Behind
<1> QED BY <1>3, <1>6, <1>7, <1>8

\* Where the walk goes after the candidate v, the k-th of its chain.
LEMMA NextInChain ==
    ASSUME NEW c \in Seq(Ids), IsInjective(c), NEW k \in DOMAIN c
    PROVE  /\ IndexIn(c, c[k]) = k
           /\ k < Len(c) => Next_(c, c[k]) = c[k + 1] /\ Next_(c, c[k]) # Nil
           /\ k = Len(c) => Next_(c, c[k]) = Nil
           /\ Next_(c, c[k]) \in IdOrNil
<1>1. IndexIn(c, c[k]) = k
  BY DEF IndexIn, IsInjective
<1>2. k \in 1 .. Len(c) /\ Len(c) \in Nat
  OBVIOUS
<1>3. k < Len(c) => c[k + 1] \in Ids
  BY <1>2
<1> QED BY <1>1, <1>2, <1>3, IdsAssumption DEF Next_, IdOrNil

\* The walk goes on behind a candidate that stays in its chain.
LEMMA Kept ==
    ASSUME NEW t, WellFormed(t), NEW M, NEW l \in LoopType,
           Position(t, l), Behind(t, l, M), l.candidate # Nil, l.candidate \in M,
           NEW m, m = [l EXCEPT !.prev = l.candidate,
                                !.candidate = Next_(t.heads[l.i], l.candidate)]
    PROVE  m \in LoopType /\ Position(t, m) /\ Behind(t, m, M)
<1> DEFINE c == t.heads[l.i]
<1>1. PICK k \in DOMAIN c : c[k] = l.candidate
  BY DEF Position
<1>2. l.i \in Slots(t) /\ c \in Seq(Ids) /\ IsInjective(c)
  BY InItsSlot DEF Position, WellFormed
<1>3. /\ m.i = l.i /\ m.prev = l.candidate /\ m.head_mask = l.head_mask
      /\ m.grown = l.grown
      /\ m.candidate = Next_(c, l.candidate)
      /\ m = [i |-> m.i, prev |-> m.prev, candidate |-> m.candidate,
              head_mask |-> m.head_mask, grown |-> m.grown]
  BY DEF LoopType
<1>4. /\ k < Len(c) => m.candidate = c[k + 1] /\ m.candidate # Nil
      /\ k = Len(c) => m.candidate = Nil
      /\ m.candidate \in IdOrNil
  <2> HIDE DEF c
  <2> QED BY <1>1, <1>2, <1>3, NextInChain
<1>5. k \in 1 .. Len(c) /\ Len(c) \in Nat /\ DOMAIN c = 1 .. Len(c)
  BY <1>2
<1>6. m \in LoopType
  BY <1>3, <1>4 DEF LoopType
<1> HIDE DEF c
<1>7. Position(t, m)
  <2> SUFFICES ASSUME m.candidate # Nil
               PROVE  /\ l.i \in Slots(t)
                      /\ \E j \in DOMAIN c : /\ c[j] = m.candidate
                                             /\ j > 1 /\ c[j - 1] = l.candidate
    BY <1>3 DEF Position, c
  <2>1. k + 1 \in DOMAIN c /\ (k + 1) - 1 = k /\ k + 1 > 1 /\ c[k + 1] = m.candidate
    BY <1>4, <1>5
  <2> QED BY <1>1, <1>2, <2>1
<1>8. Behind(t, m, M)
  <2>1. ASSUME ~l.grown, NEW j \in DOMAIN c
        PROVE  \/ c[j] \in M
               \/ m.candidate # Nil /\ \E n \in DOMAIN c : n <= j /\ c[n] = m.candidate
    <3>1. CASE j > k
      <4>1. k + 1 \in DOMAIN c /\ k + 1 <= j /\ k < Len(c)
        BY <1>5, <3>1
      <4> QED BY <1>4, <4>1
    <3>2. CASE j = k
      BY <1>1, <3>2
    <3>3. CASE j < k
      <4>1. \A n \in DOMAIN c : c[n] = l.candidate => n = k
        BY <1>1, <1>2 DEF IsInjective
      <4>2. \A n \in DOMAIN c : n <= j => n # k
        BY <1>5, <3>3
      <4> QED BY <1>2, <2>1, <4>1, <4>2 DEF Behind, c
    <3> QED BY <1>5, <3>1, <3>2, <3>3
  <2>2. ~l.grown => \A s \in Slots(t) : s < l.i => ToSet(t.heads[s]) \subseteq M
    BY DEF Behind
  <2> QED BY <1>2, <1>3, <2>1, <2>2 DEF Behind, c
<1> QED BY <1>6, <1>7, <1>8

\* The candidate leaves its chain and the walk goes on behind it.
LEMMA Unlinked ==
    ASSUME NEW t, Sound(t), NEW M, NEW l \in LoopType,
           Position(t, l), Behind(t, l, M), l.candidate # Nil,
           NEW u, u = unlink(t, l.i, l.prev, l.candidate),
           NEW m, m = [l EXCEPT !.candidate = Next_(t.heads[l.i], l.candidate)]
    PROVE  /\ Sound(u) /\ Size(u) = Size(t) /\ l.i \in Slots(t)
           /\ l.candidate \in InTable(t)
           /\ InTable(u) \subseteq InTable(t) \ {l.candidate}
           /\ m \in LoopType /\ m.i = l.i /\ m.head_mask = l.head_mask
           /\ m.grown = l.grown
           /\ Position(u, m) /\ Behind(u, m, M)
<1> DEFINE c == t.heads[l.i]
           v == l.candidate
<1>1. PICK k \in DOMAIN c : /\ c[k] = v
                            /\ l.prev # Nil => k > 1 /\ c[k - 1] = l.prev
  BY DEF Position
<1>2. l.i \in Slots(t) /\ c \in Seq(Ids) /\ IsInjective(c) /\ v \in ToSet(c)
  BY <1>1, InItsSlot DEF Position, Sound, WellFormed, ToSet
<1>3. /\ m.i = l.i /\ m.prev = l.prev /\ m.head_mask = l.head_mask
      /\ m.grown = l.grown
      /\ m.candidate = Next_(c, v)
      /\ m = [i |-> m.i, prev |-> m.prev, candidate |-> m.candidate,
              head_mask |-> m.head_mask, grown |-> m.grown]
  BY DEF LoopType
<1>4. k \in 1 .. Len(c) /\ Len(c) \in Nat /\ DOMAIN c = 1 .. Len(c)
  BY <1>2
<1> HIDE DEF c
<1>5. /\ k < Len(c) => m.candidate = c[k + 1] /\ m.candidate # Nil
      /\ k = Len(c) => m.candidate = Nil
      /\ m.candidate \in IdOrNil /\ IndexIn(c, v) = k
  BY <1>1, <1>2, <1>3, NextInChain
<1> DEFINE d == IF l.prev = Nil THEN SubSeq(c, k + 1, Len(c)) ELSE RemoveAt(c, k)
<1>6. u = Fewer(t, l.i, d)
  BY <1>5 DEF unlink, c, Fewer
<1>7. d \in Seq(Ids) /\ IsInjective(d) /\ ToSet(d) \subseteq ToSet(c) \ {v}
  <2>1. CASE l.prev = Nil
    <3> DEFINE e == SubSeq(c, k + 1, Len(c))
    <3>1. e \in Seq(Ids) /\ IsInjective(e) /\ ToSet(e) \subseteq ToSet(c) \ {c[k]}
      BY <1>2, <1>4, CutChain
    <3> QED BY <1>1, <2>1, <3>1
  <2>2. CASE l.prev # Nil
    <3> DEFINE e == RemoveAt(c, k)
    <3>1. e \in Seq(Ids) /\ IsInjective(e) /\ ToSet(e) = ToSet(c) \ {c[k]}
      BY <1>2, <1>4, RemovedAt, RemovedChain
    <3> QED BY <1>1, <2>2, <3>1
  <2> QED BY <2>1, <2>2
\* What the new chain holds: after a cut its first element is the next candidate
<1>8. ASSUME l.prev = Nil
      PROVE  /\ k = Len(c) => DOMAIN d = {}
             /\ k < Len(c) => 1 \in DOMAIN d /\ d[1] = c[k + 1]
             /\ \A j \in DOMAIN d : 1 <= j /\ k < Len(c)
  <2> DEFINE e == SubSeq(c, k + 1, Len(c))
  <2>0. /\ e \in Seq(Ids) /\ Len(e) = Len(c) - k
        /\ \A j \in 1 .. Len(c) - k : e[j] = c[j + k]
    BY <1>2, <1>4, CutChain
  <2>1. /\ d \in Seq(Ids) /\ Len(d) = Len(c) - k
        /\ \A j \in 1 .. Len(c) - k : d[j] = c[j + k]
    BY <1>8, <2>0
  <2> HIDE DEF d, e
  <2>2. DOMAIN d = 1 .. Len(c) - k
    BY <2>1
  <2>3. k < Len(c) => 1 \in 1 .. Len(c) - k /\ d[1] = c[k + 1]
    <3>1. 1 + k = k + 1
      BY <1>4
    <3> QED BY <1>4, <2>1, <3>1
  <2> QED BY <1>4, <2>2, <2>3
<1>9. ASSUME l.prev # Nil
      PROVE  /\ DOMAIN d = 1 .. Len(c) - 1
             /\ \A j \in 1 .. Len(c) - 1 : d[j] = IF j < k THEN c[j] ELSE c[j + 1]
  <2>1. /\ d \in Seq(Ids) /\ Len(d) = Len(c) - 1
        /\ \A j \in 1 .. Len(c) - 1 : d[j] = IF j < k THEN c[j] ELSE c[j + 1]
    BY <1>2, <1>4, <1>9, RemovedAt
  <2> HIDE DEF d
  <2> QED BY <1>4, <2>1
<1> HIDE DEF d, v
<1>10. /\ Sound(u) /\ Slots(u) = Slots(t) /\ Size(u) = Size(t)
       /\ u.heads[l.i] = d
       /\ \A j \in Slots(t) \ {l.i} : u.heads[j] = t.heads[j]
       /\ v \in InTable(t) /\ InTable(u) \subseteq InTable(t) \ {v}
  <2>1. l.i \in Slots(t) /\ v \in ToSet(t.heads[l.i])
    BY <1>2 DEF c
  <2>2. d \in Seq(Ids) /\ IsInjective(d) /\ ToSet(d) \subseteq ToSet(t.heads[l.i]) \ {v}
    BY <1>7 DEF c
  <2>3. PICK i, w : i = l.i /\ w = v
    OBVIOUS
  <2>4. /\ Sound(t) /\ i \in Slots(t) /\ w \in ToSet(t.heads[i])
        /\ ToSet(d) \subseteq ToSet(t.heads[i]) \ {w} /\ u = Fewer(t, i, d)
    BY <1>6, <2>1, <2>2, <2>3
  <2>5. /\ Sound(u) /\ Slots(u) = Slots(t) /\ Size(u) = Size(t)
        /\ u.heads[i] = d
        /\ \A j \in Slots(t) \ {i} : u.heads[j] = t.heads[j]
        /\ w \in InTable(t) /\ InTable(u) \subseteq InTable(t) \ {w}
    BY ONLY <2>2, <2>4, Shrunk
  <2> QED BY <2>3, <2>5
<1>11. m \in LoopType
  BY <1>3, <1>5 DEF LoopType
<1>12. Position(u, m)
  <2> SUFFICES ASSUME m.candidate # Nil
               PROVE  \E j \in DOMAIN d : /\ d[j] = m.candidate
                                          /\ l.prev # Nil => j > 1 /\ d[j - 1] = l.prev
    BY <1>2, <1>3, <1>10 DEF Position
  <2>1. k < Len(c)
    BY <1>4, <1>5
  <2>2. CASE l.prev = Nil
    BY <1>5, <1>8, <2>1, <2>2
  <2>3. CASE l.prev # Nil
    <3>1. /\ k \in 1 .. Len(c) - 1 /\ k > 1
          /\ k - 1 \in 1 .. Len(c) - 1 /\ k - 1 < k /\ ~(k < k)
      BY <1>1, <1>4, <2>1, <2>3
    <3>2. d[k] = m.candidate /\ d[k - 1] = l.prev
      BY <1>1, <1>5, <1>9, <2>1, <2>3, <3>1
    <3> QED BY <1>9, <2>3, <3>1, <3>2
  <2> QED BY <2>2, <2>3
<1>13. Behind(u, m, M)
  <2>1. ASSUME ~l.grown, NEW j \in DOMAIN d
        PROVE  \/ d[j] \in M
               \/ m.candidate # Nil /\ \E n \in DOMAIN d : n <= j /\ d[n] = m.candidate
    <3>1. CASE l.prev = Nil
      BY <1>5, <1>8, <3>1
    <3>2. CASE l.prev # Nil /\ j < k
      <4>1. j \in DOMAIN c /\ d[j] = c[j]
        BY <1>4, <1>9, <3>2
      <4>2. \A n \in DOMAIN c : c[n] = v => n = k
        BY <1>1, <1>2 DEF IsInjective
      <4>3. \A n \in DOMAIN c : n <= j => n # k
        BY <1>4, <1>9, <3>2
      <4>4. c[j] \in M
        BY <1>2, <2>1, <4>1, <4>2, <4>3 DEF Behind, c, v
      <4> QED BY <4>1, <4>4
    <3>3. CASE l.prev # Nil /\ ~(j < k)
      <4>1. /\ j \in 1 .. Len(c) - 1 /\ k \in 1 .. Len(c) - 1 /\ k <= j
            /\ k < Len(c) /\ ~(k < k)
        BY <1>4, <1>9, <3>3
      <4>2. d[k] = m.candidate /\ m.candidate # Nil
        BY <1>5, <1>9, <3>3, <4>1
      <4> QED BY <1>9, <3>3, <4>1, <4>2
    <3> QED BY <3>1, <3>2, <3>3
  <2>2. ~l.grown => \A s \in Slots(u) : s < m.i => ToSet(u.heads[s]) \subseteq M
    <3>1. \A s \in Slots(t) : s < l.i => s # l.i
      BY <1>10, InItsSlot DEF LoopType, Sound
    <3> QED BY <1>3, <1>10, <3>1 DEF Behind
  <2> QED BY <1>2, <1>3, <1>10, <2>1, <2>2 DEF Behind
<1> QED BY <1>2, <1>3, <1>10, <1>11, <1>12, <1>13 DEF v

\* A value of M is pushed on the head of some chain during the walk.
LEMMA PushedUnderWalk ==
    ASSUME NEW t, Sound(t), NEW M, NEW N, M \subseteq N, NEW l \in LoopType,
           Position(t, l), Behind(t, l, M),
           NEW v \in N \cap Ids, v \notin InTable(t), NEW u, u = pushHead(t, v)
    PROVE  Position(u, l) /\ Behind(u, l, N)
<1> DEFINE s == v % Size(t)
<1>1. /\ Sound(u) /\ Slots(u) = Slots(t) /\ s \in Slots(t)
      /\ u.heads[s] = <<v>> \o t.heads[s]
      /\ \A j \in Slots(t) \ {s} : u.heads[j] = t.heads[j]
  BY Pushed
<1>2. /\ t.heads[s] \in Seq(Ids) /\ IsInjective(t.heads[s])
      /\ v \notin ToSet(t.heads[s])
  BY <1>1, InItsSlot DEF Sound, WellFormed
<1> HIDE DEF s
<1> DEFINE c == t.heads[s]
           d == u.heads[s]
<1>3. /\ d \in Seq(Ids) /\ Len(d) = Len(c) + 1
      /\ d[1] = v /\ \A j \in 1 .. Len(c) : d[j + 1] = c[j]
      /\ ToSet(d) = ToSet(c) \cup {v}
  BY <1>1, <1>2, PushedChain
<1>4. c \in Seq(Ids) /\ DOMAIN c = 1 .. Len(c) /\ Len(c) \in Nat
  BY <1>2
<1>5. DOMAIN d = 1 .. Len(c) + 1
  BY <1>3
<1> HIDE DEF c, d
<1>6. \A j \in DOMAIN c : j + 1 \in DOMAIN d /\ d[j + 1] = c[j] /\ (j + 1) - 1 = j
  BY <1>3, <1>4, <1>5
<1>7. Position(u, l)
  <2> SUFFICES ASSUME l.candidate # Nil
               PROVE  \E k \in DOMAIN u.heads[l.i] :
                         /\ u.heads[l.i][k] = l.candidate
                         /\ l.prev # Nil => k > 1 /\ u.heads[l.i][k - 1] = l.prev
    BY <1>1 DEF Position
  <2>1. CASE l.i # s
    BY <1>1, <2>1 DEF Position
  <2>2. CASE l.i = s
    <3>1. PICK k \in DOMAIN c : /\ c[k] = l.candidate
                                /\ l.prev # Nil => k > 1 /\ c[k - 1] = l.prev
      BY <2>2 DEF Position, c
    <3>2. k + 1 \in DOMAIN d /\ d[k + 1] = l.candidate /\ k + 1 > 1
      BY <1>4, <1>6, <3>1
    <3>3. ASSUME l.prev # Nil
          PROVE  d[(k + 1) - 1] = l.prev
      <4>1. k - 1 \in DOMAIN c /\ (k - 1) + 1 = (k + 1) - 1
        BY <1>4, <3>1, <3>3
      <4> QED BY <1>6, <3>1, <3>3, <4>1
    <3> QED BY <2>2, <3>2, <3>3 DEF d
  <2> QED BY <2>1, <2>2
<1>8. Behind(u, l, N)
  <2>1. ASSUME ~l.grown, NEW j \in Slots(u), j < l.i
        PROVE  ToSet(u.heads[j]) \subseteq N
    <3>1. ToSet(t.heads[j]) \subseteq N
      BY <1>1, <2>1 DEF Behind
    <3>2. CASE j = s
      BY <1>3, <3>1, <3>2 DEF c, d
    <3>3. CASE j # s
      BY <1>1, <3>1, <3>3
    <3> QED BY <3>2, <3>3
  <2>2. ASSUME ~l.grown, l.i = s, NEW k \in DOMAIN d
        PROVE  \/ d[k] \in N
               \/ l.candidate # Nil /\ \E j \in DOMAIN d : j <= k /\ d[j] = l.candidate
    <3>1. CASE k = 1
      BY <1>3, <3>1
    <3>2. CASE k # 1
      <4>1. k - 1 \in DOMAIN c /\ (k - 1) + 1 = k
        BY <1>4, <1>5, <3>2
      <4>2. d[k] = c[k - 1]
        BY <1>6, <4>1
      <4>3. ASSUME NEW j \in DOMAIN c, j <= k - 1, c[j] = l.candidate
            PROVE  j + 1 \in DOMAIN d /\ j + 1 <= k /\ d[j + 1] = l.candidate
        BY <1>4, <1>5, <1>6, <4>3
      <4>4. \/ c[k - 1] \in M
            \/ l.candidate # Nil /\ \E j \in DOMAIN c : j <= k - 1 /\ c[j] = l.candidate
        BY <1>1, <2>2, <4>1 DEF Behind, c
      <4> QED BY <4>2, <4>3, <4>4
    <3> QED BY <3>1, <3>2
  <2>3. ASSUME ~l.grown, l.i \in Slots(u), l.i # s, NEW k \in DOMAIN u.heads[l.i]
        PROVE  \/ u.heads[l.i][k] \in N
               \/ /\ l.candidate # Nil
                  /\ \E j \in DOMAIN u.heads[l.i] :
                        j <= k /\ u.heads[l.i][j] = l.candidate
    BY <1>1, <2>3 DEF Behind
  <2> QED BY <2>1, <2>2, <2>3 DEF Behind, d
<1> QED BY <1>7, <1>8

-----------------------------------------------------------------------------
(* The steps.                                                              *)

TableHolds == Sound(table) /\ InTable(table) = candidates

(***************************************************************************)
(* What the sweep keeps.  While clearValue runs the table may have grown;  *)
(* then the walk is over, and endClear starts with the next slot.          *)
(***************************************************************************)
Walk ==
    phase = "candidates" =>
        /\ loop.head_mask <= HeadMask(table)
        /\ victim = Nil => loop.head_mask = HeadMask(table)
        /\ victim # Nil => loop.i <= loop.head_mask
        /\ loop.head_mask = HeadMask(table) =>
              Position(table, loop) /\ Behind(table, loop, marked)

Inv == IndInv /\ TableHolds /\ loop \in LoopType /\ Walk

\* What registers one candidate more, and marks it, or none.
OneMore ==
    \/ candidates' = candidates
    \/ \E v \in Ids \ candidates :
          candidates' = candidates \cup {v} /\ marked' = marked \cup {v}

\* A value whose count falls to zero is registered.
LEMMA SavedIsOneMore ==
    ASSUME NEW v \in Ids, saveFreeCandidateValue(v) \/ keepCandidates
    PROVE  OneMore /\ marked \subseteq marked'
<1>1. CASE keepCandidates
  BY <1>1 DEF keepCandidates, OneMore
<1>2. CASE saveFreeCandidateValue(v) /\ v \in candidates
  BY <1>2 DEF saveFreeCandidateValue, OneMore
<1>3. CASE saveFreeCandidateValue(v) /\ v \notin candidates
  BY <1>3 DEF saveFreeCandidateValue, OneMore
<1> QED BY <1>1, <1>2, <1>3

\* The program registers one candidate at a time, and never during a sweep.
LEMMA ProgramIsOneMore ==
    ASSUME IndInv, Program
    PROVE  OneMore /\ phase' = phase /\ phase # "candidates"
<1> USE DEF IndInv, TypeOK
<1>1. ASSUME NEW v \in Ids, pushObjectValue(v)
      PROVE  OneMore /\ phase' = phase /\ phase # "candidates"
  BY <1>1 DEF pushObjectValue, registerValueAndPush, OneMore, PhasesOK, CandidatesOK
<1>2. ASSUME NEW v \in Ids, pushFoundStringValue(v) \/ pushValue(v)
      PROVE  OneMore /\ phase' = phase /\ phase # "candidates"
  BY <1>2 DEF pushFoundStringValue, pushValue, OneMore
<1>3. ASSUME NEW v \in Ids, NEW s \in Contents, pushNewStringValue(v, s)
      PROVE  OneMore /\ phase' = phase /\ phase # "candidates"
  BY <1>3 DEF pushNewStringValue, registerValueAndPush, OneMore, PhasesOK, CandidatesOK
<1>4. ASSUME pop
      PROVE  OneMore /\ phase' = phase /\ phase # "candidates"
  BY <1>4 DEF pop, OneMore
<1>5. ASSUME NEW h \in Ids, NEW f \in Fields, NEW w \in IdOrNil, setValue(h, f, w)
      PROVE  OneMore /\ phase' = phase /\ phase # "candidates"
  <2>1. CASE keepCandidates
    BY <1>5, <2>1 DEF setValue, keepCandidates, OneMore
  <2>2. CASE field[<<h, f>>] # Nil /\ saveFreeCandidateValue(field[<<h, f>>])
    <3>1. field[<<h, f>>] \in Ids
      BY <2>2 DEF IdOrNil
    <3> QED BY <1>5, <2>2, <3>1, SavedIsOneMore DEF setValue
  <2> QED BY <1>5, <2>1, <2>2 DEF setValue
<1>6. ASSUME NEW h \in Handles, NEW v \in Ids, newString(h, v) \/ giveString(h, v)
      PROVE  OneMore /\ phase' = phase /\ phase # "candidates"
  BY <1>6 DEF newString, giveString, OneMore
<1>7. ASSUME NEW h \in Handles, deleteString(h)
      PROVE  OneMore /\ phase' = phase /\ phase # "candidates"
  <2>1. handle[h] \in Ids
    BY <1>7 DEF deleteString, IdOrNil
  <2>2. saveFreeCandidateValue(handle[h]) \/ keepCandidates
    BY <1>7 DEF deleteString, releaseString
  <2> QED BY <1>7, <2>1, <2>2, SavedIsOneMore DEF deleteString
<1> QED BY <1>1, <1>2, <1>3, <1>4, <1>5, <1>6, <1>7 DEF Program

\* clearValue registers one candidate at a time, until it ends.
LEMMA ClearingIsOneMore ==
    ASSUME IndInv, Clearing
    PROVE  /\ OneMore \/ victim' = Nil
           /\ phase' = phase /\ victim # Nil
           /\ victim' # Nil => victim' = victim /\ marked \subseteq marked'
           /\ victim' = Nil => candidates' = candidates /\ marked' = marked \ {victim}
<1> USE DEF IndInv, TypeOK
<1>1. ASSUME NEW f \in Fields, clearField(f)
      PROVE  /\ OneMore /\ phase' = phase /\ victim # Nil
             /\ victim' = victim /\ marked \subseteq marked'
  <2>1. <<victim, f>> \in Ids \X Fields
    BY <1>1 DEF clearField, IdOrNil
  <2>2. field[<<victim, f>>] \in Ids
    BY <1>1, <2>1 DEF clearField, IdOrNil
  <2>3. saveFreeCandidateValue(field[<<victim, f>>]) \/ keepCandidates
    BY <1>1 DEF clearField, releaseValue
  <2> QED BY <1>1, <2>2, <2>3, SavedIsOneMore DEF clearField
<1>2. ASSUME NEW h \in Handles, clearHandle(h)
      PROVE  /\ OneMore /\ phase' = phase /\ victim # Nil
             /\ victim' = victim /\ marked \subseteq marked'
  <2>1. handle[h] \in Ids
    <3>1. owner[h] # Host
      BY <1>2, IdsAssumption DEF clearHandle, IdOrNil
    <3> QED BY <3>1 DEF PinsOK, IdOrNil
  <2>2. saveFreeCandidateValue(handle[h]) \/ keepCandidates
    BY <1>2 DEF clearHandle, releaseString
  <2> QED BY <1>2, <2>1, <2>2, SavedIsOneMore DEF clearHandle
<1>3. CASE endClear
  BY <1>3 DEF endClear
<1> QED BY <1>1, <1>2, <1>3 DEF Clearing

\* The table follows the candidates.
LEMMA AddedToTable ==
    ASSUME TableHolds, OneMore, addFreeCandidateValue
    PROVE  /\ TableHolds'
           /\ HeadMask(table) \in Nat /\ HeadMask(table') \in Nat
           /\ HeadMask(table') >= HeadMask(table)
           /\ \/ table' = table
              \/ HeadMask(table') # HeadMask(table)
              \/ \E v \in marked' \cap Ids :
                    v \notin InTable(table) /\ table' = pushHead(table, v)
<1>1. Size(table) \in Nat \ {0} /\ HeadMask(table) = Size(table) - 1
  BY InItsSlot DEF TableHolds, Sound, HeadMask, Size
<1>2. CASE candidates' = candidates
  <2>1. table' = table
    BY <1>2 DEF addFreeCandidateValue
  <2> QED BY <1>1, <1>2, <2>1 DEF TableHolds
<1>3. CASE candidates' # candidates
  <2>1. PICK v \in Ids \ candidates :
            candidates' = candidates \cup {v} /\ marked' = marked \cup {v}
    BY <1>3 DEF OneMore
  <2>2. (CHOOSE w \in candidates' : w \notin candidates) = v
    BY <2>1
  <2>3. table' = registerFreeCandidateValue(table, v)
    BY <2>1, <2>2 DEF addFreeCandidateValue
  <2>4. Sound(table) /\ v \in Ids \ InTable(table)
    BY <2>1 DEF TableHolds
  <2>5. PICK u : u = table'
    OBVIOUS
  <2>6. /\ Sound(u) /\ InTable(u) = InTable(table) \cup {v}
        /\ Size(u) \in Nat /\ Size(u) >= Size(table)
        /\ Size(u) = Size(table) => u = pushHead(table, v)
    BY <2>3, <2>4, <2>5, Registered
  <2>7. HeadMask(u) = Size(u) - 1
    BY DEF HeadMask, Size
  <2>8. HeadMask(u) \in Nat /\ HeadMask(u) >= HeadMask(table)
    BY <1>1, <2>6, <2>7
  <2>9. HeadMask(u) = HeadMask(table) => u = pushHead(table, v)
    BY <1>1, <2>6, <2>7
  <2>10. TableHolds'
    BY <2>1, <2>5, <2>6 DEF TableHolds
  <2> QED BY <1>1, <2>1, <2>4, <2>5, <2>8, <2>9, <2>10
<1> QED BY <1>2, <1>3

\* What the loop reads of a table that did not change.
LEMMA VisitingFacts ==
    ASSUME Inv
    PROVE  /\ WellFormed(table) /\ Sound(table) /\ InTable(table) = candidates
           /\ Slots(table) = 0 .. HeadMask(table) /\ HeadMask(table) \in Nat
           /\ loop \in LoopType /\ loop.i \in Nat /\ loop.head_mask \in Nat
           /\ loop.grown \in BOOLEAN
<1>1. Sound(table) /\ WellFormed(table) /\ InTable(table) = candidates
  BY DEF Inv, TableHolds, Sound
<1>2. /\ Size(table) \in Nat \ {0} /\ Slots(table) = 0 .. Size(table) - 1
      /\ HeadMask(table) = Size(table) - 1
  BY <1>1, InItsSlot DEF HeadMask, Size
<1>3. Size(table) - 1 \in Nat
  BY <1>2
<1> QED BY <1>1, <1>2, <1>3 DEF Inv, LoopType

\* The candidate leaves its chain.
LEMMA VisitUnlinkInv ==
    ASSUME Inv, visitUnlink
    PROVE  /\ TableHolds' /\ loop' \in LoopType /\ Walk'
           /\ \E c \in Ids, lost \in SUBSET candidates : gcUnlink(c, lost) \/ gcFree(c, lost)
<1>1. /\ phase = "candidates" /\ victim = Nil /\ loop.candidate # Nil
      /\ table' = unlink(table, loop.i, loop.prev, loop.candidate)
      /\ loop' = [loop EXCEPT !.candidate = Next_(table.heads[loop.i], loop.candidate)]
  BY DEF visitUnlink, Visiting, next_candidate
<1>2. /\ Sound(table) /\ InTable(table) = candidates /\ loop \in LoopType
      /\ Slots(table) = 0 .. HeadMask(table) /\ HeadMask(table) \in Nat
  BY VisitingFacts
<1>3. /\ loop.head_mask = HeadMask(table)
      /\ Position(table, loop) /\ Behind(table, loop, marked)
  BY <1>1 DEF Inv, Walk
<1>4. PICK u, m : u = table' /\ m = loop'
  OBVIOUS
<1>5. /\ Sound(u) /\ Size(u) = Size(table) /\ loop.i \in Slots(table)
      /\ loop.candidate \in InTable(table)
      /\ InTable(u) \subseteq InTable(table) \ {loop.candidate}
      /\ m \in LoopType /\ m.i = loop.i /\ m.head_mask = loop.head_mask
      /\ m.grown = loop.grown
      /\ Position(u, m) /\ Behind(u, m, marked)
  <2>1. /\ u = unlink(table, loop.i, loop.prev, loop.candidate)
        /\ m = [loop EXCEPT !.candidate = Next_(table.heads[loop.i], loop.candidate)]
    BY <1>1, <1>4
  <2> QED BY <1>1, <1>2, <1>3, <2>1, Unlinked
<1>6. PICK lost : /\ lost = InTable(table) \ InTable(table')
                  /\ gcUnlink(loop.candidate, lost) \/ gcFree(loop.candidate, lost)
  BY DEF visitUnlink
<1>7. /\ candidates' = candidates \ ({loop.candidate} \cup lost)
      /\ phase' = phase /\ marked' = marked
      /\ victim' = Nil \/ victim' = loop.candidate
  BY <1>1, <1>6 DEF gcUnlink, gcFree, startClear
<1>8. loop.candidate \in Ids /\ loop.candidate # Nil
  BY <1>1, <1>2, <1>5 DEF Inv, IndInv, TypeOK
<1>9. InTable(u) = candidates'
  BY <1>2, <1>4, <1>5, <1>6, <1>7
<1>10. TableHolds' /\ loop' \in LoopType
  BY <1>4, <1>5, <1>9 DEF TableHolds
<1>11. HeadMask(u) = HeadMask(table)
  BY <1>5 DEF HeadMask, Size
<1>12. Walk'
  <2>1. /\ loop'.i <= loop'.head_mask /\ loop'.head_mask = HeadMask(table')
        /\ loop'.head_mask <= HeadMask(table')
    BY <1>2, <1>3, <1>4, <1>5, <1>11
  <2>2. Position(table', loop') /\ Behind(table', loop', marked')
    BY <1>4, <1>5, <1>7
  <2> QED BY <2>1, <2>2 DEF Walk
<1>13. lost \subseteq candidates
  BY <1>2, <1>6
<1> QED BY <1>6, <1>8, <1>10, <1>12, <1>13

\* The candidate stays.
LEMMA VisitKeepInv ==
    ASSUME Inv, visitKeep
    PROVE  TableHolds' /\ loop' \in LoopType /\ Walk' /\ UNCHANGED vars
<1>1. /\ phase = "candidates" /\ victim = Nil /\ loop.candidate # Nil
      /\ loop.candidate \in marked
      /\ loop' = [loop EXCEPT !.prev = loop.candidate,
                              !.candidate = Next_(table.heads[loop.i], loop.candidate)]
      /\ table' = table /\ UNCHANGED vars
  BY DEF visitKeep, Visiting, next_candidate
<1>2. WellFormed(table) /\ loop \in LoopType
  BY VisitingFacts
<1>3. /\ loop.head_mask <= HeadMask(table) /\ loop.head_mask = HeadMask(table)
      /\ Position(table, loop) /\ Behind(table, loop, marked)
  BY <1>1 DEF Inv, Walk
<1>4. PICK m : m = loop'
  OBVIOUS
<1>5. m \in LoopType /\ Position(table, m) /\ Behind(table, m, marked)
  <2>1. m = [loop EXCEPT !.prev = loop.candidate,
                         !.candidate = Next_(table.heads[loop.i], loop.candidate)]
    BY <1>1, <1>4
  <2> QED BY <1>1, <1>2, <1>3, <2>1, Kept
<1>6. loop'.head_mask = loop.head_mask
  BY <1>1, <1>2 DEF LoopType
<1>7. phase' = phase /\ victim' = victim /\ marked' = marked /\ candidates' = candidates
  BY <1>1 DEF vars
<1>8. Position(table', loop') /\ Behind(table', loop', marked')
  BY <1>1, <1>4, <1>5, <1>7
<1>9. Walk'
  <2>1. victim' = Nil /\ loop'.head_mask <= HeadMask(table') /\ loop'.head_mask = HeadMask(table')
    BY <1>1, <1>3, <1>6, <1>7
  <2> QED BY <1>8, <2>1 DEF Walk
<1>10. TableHolds'
  BY <1>1, <1>7 DEF Inv, TableHolds
<1> QED BY <1>1, <1>4, <1>5, <1>9, <1>10

\* A slot begins: at the start of a sweep, and after the end of a chain.
LEMMA SlotBeginsInv ==
    ASSUME Inv, tableGcStart \/ nextSlot
    PROVE  TableHolds' /\ loop' \in LoopType /\ Walk'
<1>1. /\ WellFormed(table) /\ loop \in LoopType /\ InTable(table) = candidates
      /\ Slots(table) = 0 .. HeadMask(table) /\ HeadMask(table) \in Nat
      /\ loop.i \in Nat /\ loop.grown \in BOOLEAN
  BY VisitingFacts
<1>2. table' = table /\ candidates' = candidates /\ phase' = "candidates" /\ victim' = Nil
  <2>1. CASE tableGcStart
    <3>1. victim = Nil
      BY <2>1 DEF tableGcStart, gcStart, Inv, IndInv, PhasesOK
    <3> QED BY <2>1, <3>1 DEF tableGcStart, gcStart
  <2>2. CASE nextSlot
    BY <2>2 DEF nextSlot, vars
  <2> QED BY <2>1, <2>2
<1>3. PICK i \in Nat, grown \in BOOLEAN :
          /\ loop' = startSlot(table, i, HeadMask(table), grown)
          /\ ~grown => \A s \in Slots(table) : s < i => ToSet(table.heads[s]) \subseteq marked'
  <2>1. CASE tableGcStart
    <3>1. loop' = startSlot(table, 0, HeadMask(table), FALSE)
      BY <2>1 DEF tableGcStart
    <3>2. \A s \in Slots(table) : ~(s < 0)
      BY <1>1
    <3> QED BY <3>1, <3>2
  <2>2. CASE nextSlot
    <3>1. /\ phase = "candidates" /\ victim = Nil /\ loop.candidate = Nil
          /\ loop' = startSlot(table, loop.i + 1, loop.head_mask, loop.grown)
          /\ marked' = marked
      BY <2>2 DEF nextSlot, vars
    <3>2. loop.head_mask = HeadMask(table) /\ Behind(table, loop, marked)
      BY <3>1 DEF Inv, Walk
    <3>3. ASSUME ~loop.grown, NEW s \in Slots(table), s < loop.i + 1
          PROVE  ToSet(table.heads[s]) \subseteq marked'
      <4>1. CASE s < loop.i
        BY <3>1, <3>2, <3>3, <4>1 DEF Behind
      <4>2. CASE s = loop.i
        BY <3>1, <3>2, <3>3, <4>2 DEF Behind, ToSet
      <4> QED BY <1>1, <3>3, <4>1, <4>2
    <3>4. loop.i + 1 \in Nat
      BY <1>1
    <3> QED BY <1>1, <3>1, <3>2, <3>3, <3>4
  <2> QED BY <2>1, <2>2
<1>4. PICK l, M : l = loop' /\ M = marked'
  OBVIOUS
<1>5. /\ l \in LoopType /\ l.head_mask = HeadMask(table)
      /\ Position(table, l) /\ Behind(table, l, M)
  BY <1>1, <1>3, <1>4, StartedSlot
<1>6. Position(table', loop') /\ Behind(table', loop', marked')
  BY <1>2, <1>4, <1>5
<1>7. Walk'
  <2>1. loop'.head_mask = HeadMask(table') /\ loop'.head_mask <= HeadMask(table')
    BY <1>1, <1>2, <1>4, <1>5
  <2> QED BY <1>2, <1>6, <2>1 DEF Walk
<1>8. TableHolds'
  BY <1>2 DEF Inv, TableHolds
<1> QED BY <1>4, <1>5, <1>7, <1>8

\* clearValue registers candidates on the chains of the walk.
LEMMA ClearingInv ==
    ASSUME Inv, tableClearing
    PROVE  TableHolds' /\ loop' \in LoopType /\ Walk'
<1>1. /\ Sound(table) /\ WellFormed(table) /\ InTable(table) = candidates
      /\ loop \in LoopType /\ loop.i \in Nat /\ loop.head_mask \in Nat
      /\ Slots(table) = 0 .. HeadMask(table) /\ HeadMask(table) \in Nat
  BY VisitingFacts
<1>2. Clearing /\ addFreeCandidateValue
  BY DEF tableClearing
<1>3. /\ phase' = phase /\ victim # Nil
      /\ victim' # Nil => victim' = victim /\ marked \subseteq marked'
      /\ victim' = Nil => candidates' = candidates /\ marked' = marked \ {victim}
      /\ OneMore
  BY <1>2, ClearingIsOneMore DEF Inv, OneMore
<1>4. /\ TableHolds' /\ HeadMask(table') \in Nat /\ HeadMask(table') >= HeadMask(table)
      /\ \/ table' = table
         \/ HeadMask(table') # HeadMask(table)
         \/ \E v \in marked' \cap Ids :
               v \notin InTable(table) /\ table' = pushHead(table, v)
  BY <1>2, <1>3, AddedToTable DEF Inv
<1>5. CASE phase # "candidates"
  BY <1>3, <1>4, <1>5 DEF tableClearing, Walk, Inv
<1>6. ASSUME phase = "candidates"
      PROVE  /\ loop.head_mask <= HeadMask(table) /\ loop.i <= loop.head_mask
             /\ loop.head_mask = HeadMask(table) =>
                   Position(table, loop) /\ Behind(table, loop, marked)
  BY <1>3, <1>6 DEF Inv, Walk
<1>7. CASE phase = "candidates" /\ victim' # Nil
  <2>1. loop' = loop
    BY <1>7 DEF tableClearing
  <2>2. loop.head_mask <= HeadMask(table')
    BY <1>1, <1>4, <1>6, <1>7
  <2>3. ASSUME loop.head_mask = HeadMask(table')
        PROVE  Position(table', loop) /\ Behind(table', loop, marked')
    <3>1. HeadMask(table) = HeadMask(table') /\ loop.head_mask = HeadMask(table)
      BY <1>1, <1>4, <1>6, <1>7, <2>3
    <3>2. Position(table, loop) /\ Behind(table, loop, marked) /\ marked \subseteq marked'
      BY <1>3, <1>6, <1>7, <3>1
    <3>3. CASE table' = table
      BY <3>2, <3>3 DEF Behind
    <3>4. ASSUME NEW v \in marked' \cap Ids, v \notin InTable(table),
                 table' = pushHead(table, v)
          PROVE  Position(table', loop) /\ Behind(table', loop, marked')
      <4>1. PICK u, N : u = table' /\ N = marked'
        OBVIOUS
      <4>2. /\ u = pushHead(table, v) /\ v \in N \cap Ids /\ marked \subseteq N
        BY <3>2, <3>4, <4>1
      <4>3. Position(u, loop) /\ Behind(u, loop, N)
        BY <1>1, <3>2, <3>4, <4>2, PushedUnderWalk
      <4> QED BY <4>1, <4>3
    <3> QED BY <1>4, <3>1, <3>3, <3>4
  <2> QED BY <1>1, <1>3, <1>4, <1>6, <1>7, <2>1, <2>2, <2>3 DEF Walk
<1>8. CASE phase = "candidates" /\ victim' = Nil
  <2>1. table' = table /\ marked' = marked \ {victim}
    BY <1>2, <1>3, <1>8 DEF addFreeCandidateValue
  <2>2. CASE HeadMask(table) # loop.head_mask
    <3>1. loop' = startSlot(table, loop.i + 1, HeadMask(table), TRUE)
      BY <1>8, <2>2 DEF tableClearing
    <3>2. PICK l, M : l = loop' /\ M = marked'
      OBVIOUS
    <3>3. loop.i + 1 \in Nat
      BY <1>1
    <3>4. /\ l \in LoopType /\ l.head_mask = HeadMask(table)
          /\ Position(table, l) /\ Behind(table, l, M)
      BY <1>1, <3>1, <3>2, <3>3, StartedSlot
    <3>5. /\ Position(table', loop') /\ Behind(table', loop', marked')
          /\ loop'.head_mask = HeadMask(table') /\ loop'.head_mask <= HeadMask(table')
      BY <1>1, <2>1, <3>2, <3>4
    <3> QED BY <1>4, <1>8, <3>2, <3>4, <3>5 DEF Walk
  <2>3. CASE HeadMask(table) = loop.head_mask
    <3>1. loop' = loop
      BY <2>3 DEF tableClearing
    <3>2. victim \notin InTable(table)
      BY <1>1, <1>3, <1>8 DEF Inv, IndInv, CandidatesOK
    <3>3. Behind(table, loop, marked \ {victim})
      <4>1. \A s \in Slots(table) : victim \notin ToSet(table.heads[s])
        BY <3>2 DEF InTable
      <4>2. \A s \in Slots(table) : \A k \in DOMAIN table.heads[s] :
                table.heads[s][k] # victim
        BY <4>1 DEF ToSet
      <4>3. Behind(table, loop, marked)
        BY <1>6, <1>8, <2>3
      <4> QED BY <4>1, <4>2, <4>3 DEF Behind
    <3>4. /\ Position(table', loop') /\ Behind(table', loop', marked')
          /\ loop'.head_mask = HeadMask(table') /\ loop'.head_mask <= HeadMask(table')
      BY <1>6, <1>8, <2>1, <2>3, <3>1, <3>3
    <3> QED BY <1>1, <1>4, <1>8, <3>1, <3>4 DEF Walk
  <2> QED BY <2>2, <2>3
<1> QED BY <1>5, <1>7, <1>8

\* A destroyed value leaves the table.
LEMMA DestroyedInv ==
    ASSUME Inv, NEW v \in Ids, tableDestroyValue(v)
    PROVE  TableHolds' /\ loop' \in LoopType /\ Walk'
<1>1. /\ Sound(table) /\ WellFormed(table) /\ InTable(table) = candidates
      /\ loop \in LoopType
  BY VisitingFacts
<1>2. /\ phase' = phase /\ phase # "candidates" /\ candidates' = candidates \ {v}
      /\ table' = unregisterFreeCandidateValue(table, v) /\ loop' = loop
  BY DEF tableDestroyValue, destroyValue
<1> DEFINE s == v % Size(table)
           c == table.heads[s]
<1>3. s \in Slots(table) /\ c \in Seq(Ids) /\ (v \in InTable(table) <=> v \in ToSet(c))
  BY <1>1, InItsSlot
<1>4. IsInjective(c)
  BY <1>1, <1>3 DEF WellFormed
<1>5. CASE v \in ToSet(c)
  <2>1. IndexIn(c, v) \in 1 .. Len(c) /\ c[IndexIn(c, v)] = v
    <3> HIDE DEF c
    <3> QED BY <1>3, <1>5, IndexInChain
  <2>2. PICK d : d = RemoveAt(c, IndexIn(c, v))
    OBVIOUS
  <2>3. d \in Seq(Ids) /\ IsInjective(d) /\ ToSet(d) = ToSet(c) \ {v}
    <3> HIDE DEF c
    <3>1. PICK k \in 1 .. Len(c) : k = IndexIn(c, v) /\ c[k] = v
      BY <2>1
    <3>2. d = RemoveAt(c, k)
      BY <2>2, <3>1
    <3>3. /\ RemoveAt(c, k) \in Seq(Ids) /\ IsInjective(RemoveAt(c, k))
          /\ ToSet(RemoveAt(c, k)) = ToSet(c) \ {c[k]}
      BY <1>3, <1>4, RemovedAt, RemovedChain
    <3> QED BY <3>1, <3>2, <3>3
  <2>4. table' = Fewer(table, s, d)
    BY <1>2, <1>5, <2>2 DEF unregisterFreeCandidateValue, Fewer, Size
  <2>5. PICK t, u, i : t = table /\ u = table' /\ i = s
    OBVIOUS
  <2>6. /\ Sound(t) /\ i \in Slots(t) /\ v \in ToSet(t.heads[i])
        /\ ToSet(d) \subseteq ToSet(t.heads[i]) \ {v} /\ u = Fewer(t, i, d)
    BY <1>1, <1>3, <1>5, <2>3, <2>4, <2>5
  <2>7. /\ Sound(u) /\ v \in InTable(t)
        /\ InTable(u) = (InTable(t) \ ToSet(t.heads[i])) \cup ToSet(d)
    BY ONLY <2>3, <2>6, Shrunk
  <2>8. ToSet(t.heads[i]) \subseteq InTable(t)
    BY <2>6 DEF InTable
  <2>9. InTable(u) = InTable(t) \ {v}
    <3>1. ToSet(d) = ToSet(t.heads[i]) \ {v}
      BY <2>3, <2>5
    <3> QED BY <2>6, <2>7, <2>8, <3>1
  <2> QED BY <1>1, <1>2, <2>5, <2>7, <2>9 DEF TableHolds, Walk
<1>6. CASE v \notin ToSet(c)
  <2>1. table' = table
    BY <1>2, <1>6 DEF unregisterFreeCandidateValue, Size
  <2> QED BY <1>1, <1>2, <1>3, <1>6, <2>1 DEF TableHolds, Walk
<1> QED BY <1>5, <1>6

\* The steps that leave the table alone, outside of a sweep.
LEMMA TableFixInv ==
    ASSUME Inv, tableFix \/ tableGcEnd
    PROVE  TableHolds' /\ loop' \in LoopType /\ Walk'
<1>1. phase' # "candidates" /\ candidates' = candidates /\ table' = table
  <2>1. CASE tableFix
    BY <2>1 DEF tableFix, gcKeepExternal, gcSweep, startClear, gcSweepEnd, destroyEnd,
                Shutdown, shutdown, shutdownClear, shutdownStrings, shutdownDestroy
  <2>2. CASE tableGcEnd
    BY <2>2 DEF tableGcEnd, gcEnd, gcMark
  <2> QED BY <2>1, <2>2
<1>2. loop' = loop \/ loop' = NoLoop
  BY DEF tableFix, tableGcEnd
<1>3. NoLoop \in LoopType
  BY DEF NoLoop, LoopType, IdOrNil
<1> QED BY <1>1, <1>2, <1>3 DEF Inv, TableHolds, Walk

\* The first table is empty.
LEMMA TableInitInv == TableInit => Init /\ Inv
<1> SUFFICES ASSUME TableInit PROVE Init /\ Inv
  OBVIOUS
<1>1. /\ Init /\ loop = NoLoop /\ candidates = {} /\ phase = "idle"
      /\ table = [heads |-> [s \in 0 .. InitHeads - 1 |-> << >>], count |-> 0]
  BY DEF TableInit, Init
<1>2. PICK t : t = table
  OBVIOUS
<1>3. /\ t = [heads |-> t.heads, count |-> t.count] /\ t.count = 0
      /\ t.heads \in [0 .. InitHeads - 1 -> Seq(Ids)]
      /\ \A s \in 0 .. InitHeads - 1 : t.heads[s] = << >>
  BY <1>1, <1>2
<1>4. Slots(t) = 0 .. InitHeads - 1
  BY <1>3 DEF Slots
<1>5. \A s \in Slots(t) : DOMAIN t.heads[s] = {}
  BY <1>3, <1>4
<1>6. WellFormed(t) /\ InTable(t) = {}
  BY <1>3, <1>4, <1>5, ValueGCAssumption DEF WellFormed, InTable, ToSet, IsInjective
<1>7. Sound(t)
  BY <1>3, <1>6, FS_EmptySet DEF Sound
<1>8. loop \in LoopType
  BY <1>1 DEF NoLoop, LoopType, IdOrNil
<1> QED BY <1>1, <1>2, <1>6, <1>7, <1>8, InitInd DEF Inv, TableHolds, Walk

\* What the table does is a step of RefGC.
LEMMA TableStep == Inv /\ [TableNext]_tableVars => [Next]_vars
<1> SUFFICES ASSUME Inv, [TableNext]_tableVars PROVE [Next]_vars
  OBVIOUS
<1>1. CASE TableProgram
  BY <1>1 DEF TableProgram, Next
<1>2. CASE tableGcStart
  BY <1>2 DEF tableGcStart, Next, Collector
<1>3. CASE visitUnlink
  BY <1>3, VisitUnlinkInv DEF Next, Collector
<1>4. CASE visitKeep
  BY <1>4 DEF visitKeep
<1>5. CASE tableClearing
  BY <1>5 DEF tableClearing, Next
<1>6. CASE nextSlot
  BY <1>6 DEF nextSlot
<1>7. CASE tableGcEnd
  BY <1>7 DEF tableGcEnd, Next, Collector
<1>8. CASE tableFix
  BY <1>8 DEF tableFix, Next, Collector
<1>9. CASE \E v \in Ids : tableDestroyValue(v)
  BY <1>9 DEF tableDestroyValue, Next, Collector
<1>10. CASE UNCHANGED tableVars
  BY <1>10 DEF tableVars
<1> QED BY <1>1, <1>2, <1>3, <1>4, <1>5, <1>6, <1>7, <1>8, <1>9, <1>10 DEF TableNext

\* Every step keeps the table and the walk.
LEMMA TableNextInv == Inv /\ [TableNext]_tableVars => Inv'
<1> SUFFICES ASSUME Inv, [TableNext]_tableVars PROVE Inv'
  OBVIOUS
<1>1. IndInv'
  BY TableStep, NextInd DEF Inv
<1>2. TableHolds' /\ loop' \in LoopType /\ Walk'
  <2>1. CASE TableProgram
    <3>1. OneMore /\ phase' # "candidates" /\ addFreeCandidateValue /\ loop' = loop
      BY <2>1, ProgramIsOneMore DEF TableProgram, Inv
    <3>2. TableHolds'
      BY <3>1, AddedToTable DEF Inv
    <3> QED BY <3>1, <3>2 DEF Inv, Walk
  <2>2. CASE tableGcStart \/ nextSlot
    BY <2>2, SlotBeginsInv
  <2>3. CASE visitUnlink
    BY <2>3, VisitUnlinkInv
  <2>4. CASE visitKeep
    BY <2>4, VisitKeepInv
  <2>5. CASE tableClearing
    BY <2>5, ClearingInv
  <2>6. CASE tableFix \/ tableGcEnd
    BY <2>6, TableFixInv
  <2>7. CASE \E v \in Ids : tableDestroyValue(v)
    BY <2>7, DestroyedInv
  <2>8. CASE UNCHANGED tableVars
    BY <2>8 DEF tableVars, vars, Inv, TableHolds, Walk
  <2> QED BY <2>1, <2>2, <2>3, <2>4, <2>5, <2>6, <2>7, <2>8 DEF TableNext
<1> QED BY <1>1, <1>2 DEF Inv

(***************************************************************************)
(* The table and the walk of FreeCandidateValues keep the invariant of the *)
(* protocol and their own.                                                 *)
(***************************************************************************)
THEOREM TableInvariance == TableSpec => []Inv
<1>1. TableInit => Inv
  BY TableInitInv
<1> QED BY <1>1, TableNextInv, PTL DEF TableSpec

(***************************************************************************)
(* The hash table of chains and the walk of the sweep implement the        *)
(* protocol of RefGC, where the candidates are a set of which a sweep may  *)
(* lose some: whatever holds of every behaviour of RefGC holds of the code *)
(* of gcFreeCandidateValues and registerFreeCandidateValue as it is.       *)
(***************************************************************************)
THEOREM TableImplementsRefGC == TableSpec => Spec
<1>1. TableInit => Init
  BY TableInitInv
<1> QED BY <1>1, TableStep, TableInvariance, PTL DEF TableSpec, Spec

(***************************************************************************)
(* The table holds exactly the candidates, each in its slot and once; the  *)
(* sweep never leaves the chain it walks; and the counter covers the       *)
(* values, so that the assertions count > 0 hold.                          *)
(***************************************************************************)
THEOREM ChainsAreSound == TableSpec => []ChainsSound
<1>1. Inv => ChainsSound
  <2> SUFFICES ASSUME Inv PROVE ChainsSound
    OBVIOUS
  <2>1. TableIsCandidates /\ CountCoversTable
    BY VisitingFacts
    DEF Sound, WellFormed, TableIsCandidates, CountCoversTable, Size
  <2>2. SweepStaysInChain
    <3> SUFFICES ASSUME phase = "candidates", victim = Nil, loop.candidate # Nil
                 PROVE  LET chain == table.heads[loop.i] IN
                        /\ loop.candidate \in ToSet(chain)
                        /\ loop.prev # Nil =>
                              \E j \in 1 .. Len(chain) - 1 :
                                  chain[j] = loop.prev /\ chain[j + 1] = loop.candidate
      BY DEF SweepStaysInChain
    <3>1. Position(table, loop)
      BY DEF Inv, Walk
    <3> DEFINE c == table.heads[loop.i]
    <3>2. PICK k \in DOMAIN c : /\ c[k] = loop.candidate
                                /\ loop.prev # Nil => k > 1 /\ c[k - 1] = loop.prev
      BY <3>1 DEF Position
    <3>3. c \in Seq(Ids)
      BY <3>1, VisitingFacts, InItsSlot DEF Position
    <3> HIDE DEF c
    <3>4. k \in 1 .. Len(c) /\ Len(c) \in Nat
      BY <3>3
    <3>5. loop.candidate \in ToSet(c)
      BY <3>2 DEF ToSet
    <3>6. ASSUME loop.prev # Nil
          PROVE  \E j \in 1 .. Len(c) - 1 : c[j] = loop.prev /\ c[j + 1] = loop.candidate
      <4>1. k - 1 \in 1 .. Len(c) - 1 /\ (k - 1) + 1 = k
        BY <3>2, <3>4, <3>6
      <4> QED BY <3>2, <3>6, <4>1
    <3> QED BY <3>5, <3>6 DEF c
  <2> QED BY <2>1, <2>2 DEF ChainsSound
<1> QED BY <1>1, TableInvariance, PTL

(***************************************************************************)
(* A sweep under which the table did not grow leaves no candidate that was *)
(* not on the stack or registered meanwhile: it passed over every chain    *)
(* from its head to its end.                                               *)
(***************************************************************************)
THEOREM SweepIsComplete == TableSpec => []SweepLeavesOnlyMarked
<1>1. Inv => SweepLeavesOnlyMarked
  <2> SUFFICES ASSUME Inv, phase = "candidates", SweepDone, ~loop.grown
               PROVE  candidates \subseteq marked
    BY DEF SweepLeavesOnlyMarked
  <2>1. /\ Slots(table) = 0 .. HeadMask(table) /\ HeadMask(table) \in Nat
        /\ loop.i \in Nat /\ loop.head_mask \in Nat /\ loop.i > loop.head_mask
        /\ InTable(table) = candidates
    BY VisitingFacts DEF SweepDone
  <2>2. victim = Nil
    BY <2>1 DEF Inv, Walk
  <2>3. loop.head_mask = HeadMask(table) /\ Behind(table, loop, marked)
    BY <2>2 DEF Inv, Walk
  <2>4. \A s \in Slots(table) : ToSet(table.heads[s]) \subseteq marked
    BY <2>1, <2>3 DEF Behind
  <2> QED BY <2>1, <2>4 DEF InTable
<1> QED BY <1>1, TableInvariance, PTL
=============================================================================
