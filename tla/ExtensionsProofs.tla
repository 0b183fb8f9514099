-------------------------- MODULE ExtensionsProofs --------------------------
(***************************************************************************)
(* Proofs about the extensions.                                            *)
(*                                                                         *)
(* CallbacksKept is an invariant of Curl, for any number of objects,       *)
(* functions and nested transfers.  The pool is related to the callbacks   *)
(* through Ids, which says for every callback of every object the id it    *)
(* keeps.  Each operation is one or two moves of a single id, and Retained *)
(* and Released say that retaining and releasing follow such a move.       *)
(*                                                                         *)
(* ObjectsOwned is an invariant of Sqlite, for any set of addresses, any   *)
(* number of values and any first size of userptr_refs.  It is proved from *)
(* OwnedInv: the same with the table told chain by chain, so that each     *)
(* operation of UserPointers has a lemma of its own, and with the objects  *)
(* and the values related in both directions.                              *)
(***************************************************************************)
EXTENDS Curl, Sqlite, FiniteSetTheorems, SequenceTheorems, WellFoundedInduction, TLAPS

-----------------------------------------------------------------------------
(* Curl: the slots that keep an id.                                        *)

Slots == Objs \X Kinds

Ids == [x \in Slots |-> obj[x[1]].cb[x[2]].id]

HoldersIn(f, v) == {x \in Slots : f[x] = v}

\* p counts for every value the slots of f that keep it
Counts(p, f) == p \in [Vals -> Int] /\ \A v \in Vals : p[v] = Cardinality(HoldersIn(f, v))

-----------------------------------------------------------------------------
(* The retain pool.                                                        *)

\* Sets of slots are finite, and there are two slots for an object.
LEMMA SlotsFinite ==
  /\ IsFiniteSet(Slots)
  /\ \A S \in SUBSET Slots : IsFiniteSet(S) /\ Cardinality(S) \in 0 .. 2 * Cardinality(Objs)
<1>1. IsFiniteSet(Kinds) /\ Cardinality(Kinds) = 2
  <2>1. IsFiniteSet({"write"}) /\ Cardinality({"write"}) = 1
    BY FS_Singleton
  <2>2. Kinds = {"write"} \cup {"debug"} /\ "debug" \notin {"write"}
    BY DEF Kinds
  <2> QED BY <2>1, <2>2, FS_AddElement
<1>2. IsFiniteSet(Slots) /\ Cardinality(Slots) = Cardinality(Objs) * 2
  BY <1>1, CurlAssumption, FS_Product DEF Slots
<1>3. Cardinality(Objs) \in Nat
  BY CurlAssumption, FS_CardinalityType
<1>4. ASSUME NEW S \in SUBSET Slots
      PROVE  IsFiniteSet(S) /\ Cardinality(S) \in 0 .. 2 * Cardinality(Objs)
  BY <1>2, <1>3, FS_Subset, FS_CardinalityType
<1> QED BY <1>2, <1>4

\* retainValueById follows a slot that gets an id.
LEMMA Retained ==
  ASSUME live \subseteq Vals, NEW f \in [Slots -> Vals \cup {NoId}], NEW x \in Slots, f[x] = NoId,
         NEW v \in live \cup {NoId}, NEW p, Counts(p, f)
  PROVE  Counts(retainValueById(p, v), [f EXCEPT ![x] = v])
<1> DEFINE g == [f EXCEPT ![x] = v]
           q == retainValueById(p, v)
<1>1. NoId \notin Vals /\ NoId \notin live
  BY CurlAssumption
<1>2. q \in [Vals -> Int]
  BY DEF Counts, retainValueById
<1>3. ASSUME NEW w \in Vals PROVE q[w] = Cardinality(HoldersIn(g, w))
  <2>1. IsFiniteSet(HoldersIn(f, w)) /\ x \notin HoldersIn(f, w) /\ p[w] \in Int
    BY <1>1, SlotsFinite DEF HoldersIn, Counts
  <2>2. CASE w = v
    <3>1. HoldersIn(g, w) = HoldersIn(f, w) \cup {x}
      BY <2>2 DEF HoldersIn
    <3>2. q[w] = p[w] + 1
      BY <2>2, <1>1 DEF retainValueById, Counts
    <3>3. Cardinality(HoldersIn(g, w)) = Cardinality(HoldersIn(f, w)) + 1
      BY <3>1, <2>1, FS_AddElement
    <3> QED BY <3>2, <3>3 DEF Counts
  <2>3. CASE w # v
    <3>1. HoldersIn(g, w) = HoldersIn(f, w)
      BY <2>3, <2>1 DEF HoldersIn
    <3>2. q[w] = p[w]
      BY <2>3 DEF retainValueById, Counts
    <3> QED BY <3>1, <3>2 DEF Counts
  <2> QED BY <2>2, <2>3
<1> QED BY <1>2, <1>3 DEF Counts

\* releaseValueById follows a slot that loses its id.
LEMMA Released ==
  ASSUME live \subseteq Vals, NEW f \in [Slots -> Vals \cup {NoId}], NEW x \in Slots,
         f[x] \in live \cup {NoId}, NEW p, Counts(p, f)
  PROVE  Counts(releaseValueById(p, f[x]), [f EXCEPT ![x] = NoId])
<1> DEFINE g == [f EXCEPT ![x] = NoId]
           q == releaseValueById(p, f[x])
<1>1. NoId \notin Vals /\ NoId \notin live
  BY CurlAssumption
<1>2. q \in [Vals -> Int]
  BY DEF Counts, releaseValueById
<1>3. ASSUME NEW w \in Vals PROVE q[w] = Cardinality(HoldersIn(g, w))
  <2>1. IsFiniteSet(HoldersIn(f, w)) /\ p[w] \in Int
    BY <1>1, SlotsFinite DEF HoldersIn, Counts
  <2>2. CASE w = f[x]
    <3>1. HoldersIn(g, w) = HoldersIn(f, w) \ {x} /\ x \in HoldersIn(f, w)
      BY <2>2, <1>1 DEF HoldersIn
    <3>2. q[w] = p[w] - 1
      BY <2>2, <1>1 DEF releaseValueById, Counts
    <3>3. Cardinality(HoldersIn(g, w)) = Cardinality(HoldersIn(f, w)) - 1
      BY <3>1, <2>1, FS_RemoveElement
    <3> QED BY <3>2, <3>3 DEF Counts
  <2>3. CASE w # f[x]
    <3>1. HoldersIn(g, w) = HoldersIn(f, w)
      BY <2>3, <1>1 DEF HoldersIn
    <3>2. q[w] = p[w]
      BY <2>3 DEF releaseValueById, Counts
    <3> QED BY <3>1, <3>2 DEF Counts
  <2> QED BY <2>2, <2>3
<1> QED BY <1>2, <1>3 DEF Counts

\* The pool is the type's when it counts slots.
LEMMA CountsBounded ==
  ASSUME NEW p, NEW f, Counts(p, f)
  PROVE  p \in [Vals -> 0 .. 2 * Cardinality(Objs)]
<1>1. ASSUME NEW v \in Vals PROVE p[v] \in 0 .. 2 * Cardinality(Objs)
  BY SlotsFinite DEF Counts, HoldersIn
<1> QED BY <1>1 DEF Counts

\* What the invariant says of the slots.
LEMMA SlotsKeep ==
  ASSUME CallbacksKept
  PROVE  /\ Ids \in [Slots -> Vals \cup {NoId}]
         /\ \A o \in Objs, k \in Kinds : Ids[<<o, k>>] = obj[o].cb[k].id
         /\ \A x \in Slots : Ids[x] \in live \cup {NoId}
         /\ Counts(pool, Ids)
         /\ live \subseteq Vals
<1> USE DEF CallbacksKept
<1>1. ASSUME NEW x \in Slots
      PROVE  /\ x[1] \in Objs /\ x[2] \in Kinds
             /\ obj[x[1]].cb[x[2]].id \in Vals \cup {NoId}
             /\ Ids[x] \in live \cup {NoId}
  BY DEF Slots, Ids, TypeOK, Object, Callback, HeldLive
<1>2. Ids \in [Slots -> Vals \cup {NoId}]
  BY <1>1 DEF Ids
<1>3. \A o \in Objs, k \in Kinds : Ids[<<o, k>>] = obj[o].cb[k].id
  BY DEF Ids, Slots
<1>4. ASSUME NEW v \in Vals PROVE pool[v] = Cardinality(HoldersIn(Ids, v))
  <2>1. HoldersIn(Ids, v) = Holders(v)
    BY DEF HoldersIn, Holders, Ids, Slots
  <2> QED BY <2>1 DEF PoolExact
<1>5. Counts(pool, Ids)
  <2>1. Cardinality(Objs) \in Nat
    BY CurlAssumption, FS_CardinalityType
  <2> QED BY <2>1, <1>4 DEF Counts, TypeOK
<1> QED BY <1>1, <1>2, <1>3, <1>5 DEF TypeOK

-----------------------------------------------------------------------------
(* Steps that change one object.                                           *)

\* What has to be shown of a step that makes n of the object o, and nothing of others.
ObjectStep(o, n) ==
    /\ obj' = [obj EXCEPT ![o] = n]
    /\ Counts(pool', Ids')
    /\ UNCHANGED live
    /\ \A k \in Kinds : n.cb[k].id \in live \cup {NoId}
    /\ script' \subseteq script \cup {o}
    /\ o \in script' \cup InUse' => n.state = "live"
    /\ n.state = "absent" => n = Absent
    /\ performing' \in Seq(Transfer) /\ OnStack' \subseteq OnStack
    /\ InUse \ {o} \subseteq InUse' /\ InUse' \subseteq InUse
    /\ dirty \subseteq dirty' /\ dirty' \subseteq Objs
    /\ n.buf = "old" => o \in dirty'
    /\ n.buf = "own" => o \in InUse' /\ (n.cb["write"].behavior = "return" \/ o \in dirty')

LEMMA OneObjectKeeps ==
  ASSUME CallbacksKept, NEW o \in Objs, NEW n \in Object, ObjectStep(o, n)
  PROVE  CallbacksKept'
<1> USE DEF ObjectStep
<1> USE DEF CallbacksKept
<1>1. \A p \in Objs : obj'[p] = IF p = o THEN n ELSE obj[p]
  BY DEF TypeOK
<1>2. TypeOK'
  <2>1. obj' \in [Objs -> Object]
    BY DEF TypeOK
  <2>2. pool' \in [Vals -> 0 .. 2 * Cardinality(Objs)]
    BY CountsBounded
  <2> QED BY <2>1, <2>2 DEF TypeOK
<1>3. PoolExact'
  <2>1. ASSUME NEW v \in Vals PROVE HoldersIn(Ids', v) = Holders(v)'
    BY DEF HoldersIn, Holders, Ids, Slots
  <2> QED BY <2>1 DEF PoolExact, Counts
<1>4. HeldLive'
  BY <1>1 DEF HeldLive
<1>5. OldDataExplained'
  BY <1>1 DEF OldDataExplained
<1>6. ScriptLive'
  <2>1. o \notin Vals
    BY CurlAssumption
  <2> QED BY <2>1, <1>1 DEF ScriptLive
<1>7. OwnDataReturned'
  BY <1>1 DEF OwnDataReturned
<1> QED BY <1>2, <1>3, <1>4, <1>5, <1>6, <1>7

\* A function that is changed at a and set at b to what it has there.
LEMMA ChangedOnce ==
  ASSUME NEW S, NEW T, NEW f \in [S -> T], NEW a \in S, NEW b \in S, a # b, NEW u, NEW v
  PROVE  /\ [[f EXCEPT ![a] = v] EXCEPT ![b] = f[b]] = [[f EXCEPT ![a] = u] EXCEPT ![a] = v]
         /\ [[f EXCEPT ![b] = f[b]] EXCEPT ![a] = v] = [[f EXCEPT ![a] = u] EXCEPT ![a] = v]
OBVIOUS

\* The ids after a step that changes one object.
LEMMA IdsAfter ==
  ASSUME CallbacksKept, NEW o \in Objs, NEW n \in Object, obj' = [obj EXCEPT ![o] = n]
  PROVE  Ids' = [[Ids EXCEPT ![<<o, "write">>] = n.cb["write"].id]
                      EXCEPT ![<<o, "debug">>] = n.cb["debug"].id]
<1> DEFINE f == [[Ids EXCEPT ![<<o, "write">>] = n.cb["write"].id]
                      EXCEPT ![<<o, "debug">>] = n.cb["debug"].id]
<1>1. Ids \in [Slots -> Vals \cup {NoId}]
  BY SlotsKeep
<1>2. ASSUME NEW x \in Slots PROVE f[x] = obj'[x[1]].cb[x[2]].id
  <2>1. PICK p \in Objs, k \in Kinds : x = <<p, k>>
    BY DEF Slots
  <2>2. Ids[x] = obj[p].cb[k].id
    BY <2>1, SlotsKeep
  <2>3. <<o, "write">> \in Slots /\ <<o, "debug">> \in Slots
    BY DEF Slots, Kinds
  <2>4. obj'[p] = IF p = o THEN n ELSE obj[p]
    BY DEF CallbacksKept, TypeOK
  <2> QED BY <1>1, <2>1, <2>2, <2>3, <2>4 DEF Kinds
<1>3. DOMAIN f = Slots
  BY <1>1
<1>4. f \in [Slots -> {f[x] : x \in Slots}]
  BY <1>1, <1>3
<1> HIDE DEF f
<1>5. Ids' = [x \in Slots |-> f[x]]
  BY <1>2 DEF Ids
<1>6. f = [x \in Slots |-> f[x]]
  BY <1>4
<1> QED BY <1>5, <1>6 DEF f

\* Options: the old id is released, the new one, if any, retained.
LEMMA OptionKeeps ==
  ASSUME CallbacksKept, NEW o \in Objs, NEW k \in Kinds,
         \/ \E v \in Vals : setOption(o, k, v)
         \/ setOptionNull(o, k)
  PROVE  CallbacksKept'
<1>1. PICK v \in Vals \cup {NoId}, b \in {"return", "value"}, d \in BOOLEAN :
        /\ obj' = [obj EXCEPT ![o] = setCallback(obj[o], k, [behavior |-> b, id |-> v], d)]
        /\ pool' = retainValueById(releaseValueById(pool, obj[o].cb[k].id), v)
        /\ v \in live \cup {NoId}
  <2>1. CASE setOptionNull(o, k)
    <3>1. NoId \notin live
      BY CurlAssumption DEF CallbacksKept, TypeOK
    <3>2. retainValueById(releaseValueById(pool, obj[o].cb[k].id), NoId)
            = releaseValueById(pool, obj[o].cb[k].id)
      BY <3>1 DEF retainValueById
    <3>3. (obj[o].debugOn /\ k # "debug") \in BOOLEAN
      OBVIOUS
    <3> QED BY <2>1, <3>2, <3>3 DEF setOptionNull, Return
  <2>2. ASSUME NEW v \in Vals, setOption(o, k, v)
        PROVE  /\ obj' = [obj EXCEPT ![o] = setCallback(obj[o], k, [behavior |-> "value", id |-> v],
                                                obj[o].debugOn \/ (k = "debug" /\ obj[o].handle))]
               /\ pool' = retainValueById(releaseValueById(pool, obj[o].cb[k].id), v)
               /\ v \in live
    BY <2>2 DEF setOption, setOptionPool, CallbacksKept, ScriptLive
  <2>3. (obj[o].debugOn \/ (k = "debug" /\ obj[o].handle)) \in BOOLEAN
    OBVIOUS
  <2> QED BY <2>1, <2>2, <2>3
<1> DEFINE n == setCallback(obj[o], k, [behavior |-> b, id |-> v], d)
           x == <<o, k>>
           f == [Ids EXCEPT ![x] = NoId]
<1>2. obj[o] \in Object /\ obj[o].cb \in [Kinds -> Callback]
  BY DEF CallbacksKept, TypeOK, Object
<1>3. n \in Object /\ n.cb[k].id = v /\ n.cb[k].behavior = b /\ n.state = obj[o].state /\ n.buf = obj[o].buf
      /\ \A j \in Kinds : j # k => n.cb[j] = obj[o].cb[j]
  BY <1>2 DEF Object, Callback, setCallback
<1>4. obj' = [obj EXCEPT ![o] = n]
  BY <1>1
<1>5. o \in script /\ UNCHANGED <<live, script, performing>> /\ dirty' = dirty \cup turned(o)
  BY DEF setOption, setOptionNull
<1> HIDE DEF n
<1>6. Ids' = [f EXCEPT ![x] = v]
  <2>1. Ids \in [Slots -> Vals \cup {NoId}] /\ \A j \in Kinds : Ids[<<o, j>>] = obj[o].cb[j].id
    BY SlotsKeep
  <2>2. Ids' = [[Ids EXCEPT ![<<o, "write">>] = n.cb["write"].id]
                     EXCEPT ![<<o, "debug">>] = n.cb["debug"].id]
    BY <1>3, <1>4, IdsAfter
  <2>3. <<o, "write">> \in Slots /\ <<o, "debug">> \in Slots /\ <<o, "write">> # <<o, "debug">>
    BY DEF Slots, Kinds
  <2>4. CASE k = "write"
    <3>1. n.cb["write"].id = v /\ n.cb["debug"].id = Ids[<<o, "debug">>]
      BY <1>3, <2>1, <2>4 DEF Kinds
    <3> QED BY <2>1, <2>2, <2>3, <2>4, <3>1, ChangedOnce
  <2>5. CASE k = "debug"
    <3>1. n.cb["debug"].id = v /\ n.cb["write"].id = Ids[<<o, "write">>]
      BY <1>3, <2>1, <2>5 DEF Kinds
    <3> QED BY <2>1, <2>2, <2>3, <2>5, <3>1, ChangedOnce
  <2> QED BY <2>4, <2>5 DEF Kinds
<1>7. Counts(pool', Ids')
  <2>1. x \in Slots /\ Ids[x] = obj[o].cb[k].id
    BY SlotsKeep DEF Slots
  <2>2. Counts(releaseValueById(pool, obj[o].cb[k].id), f)
    BY <2>1, SlotsKeep, Released
  <2>3. f \in [Slots -> Vals \cup {NoId}] /\ f[x] = NoId
    BY <2>1, SlotsKeep
  <2>4. live \subseteq Vals
    BY SlotsKeep
  <2> HIDE DEF f, x
  <2> QED BY <1>1, <1>6, <2>1, <2>2, <2>3, <2>4, Retained
<1>8. \A j \in Kinds : n.cb[j].id \in live \cup {NoId}
  BY <1>1, <1>3 DEF CallbacksKept, HeldLive
<1>9. n.state = "live"
  BY <1>3, <1>5 DEF CallbacksKept, ScriptLive
<1>10. InUse' = InUse /\ OnStack' = OnStack /\ performing' \in Seq(Transfer)
  BY <1>5 DEF InUse, OnStack, CallbacksKept, TypeOK
<1>11. /\ dirty \subseteq dirty' /\ dirty' \subseteq Objs
       /\ n.buf = "old" => o \in dirty'
       /\ n.buf = "own" => o \in InUse' /\ o \in dirty'
  BY <1>3, <1>5, <1>10
     DEF turned, CallbacksKept, TypeOK, OldDataExplained, OwnDataReturned
<1>12. script' \subseteq script \cup {o}
  BY <1>5
<1>13. ObjectStep(o, n)
  BY <1>3, <1>4, <1>5, <1>7, <1>8, <1>9, <1>10, <1>11, <1>12 DEF ObjectStep
<1> QED BY <1>3, <1>13, OneObjectKeeps

\* An object that is created has no id yet.
LEMMA NewKeeps ==
  ASSUME CallbacksKept, NEW o \in Objs, newInstance(o)
  PROVE  CallbacksKept'
<1> DEFINE n == [init(obj[o]) EXCEPT !.state = "live"]
<1> HIDE DEF n
<1>1. obj[o] = Absent
  BY DEF newInstance, CallbacksKept, ScriptLive
<1>2. n \in Object /\ n.state = "live" /\ n.buf = "none" /\ \A k \in Kinds : n.cb[k].id = NoId
  <2>1. n = [Absent EXCEPT !.state = "live", !.handle = TRUE, !.cb["write"] = Return]
    BY <1>1 DEF init, n, Absent
  <2>2. /\ Absent \in Object /\ Absent.buf = "none" /\ Return \in Callback /\ Return.id = NoId
        /\ Absent.cb \in [Kinds -> Callback] /\ \A k \in Kinds : Absent.cb[k].id = NoId
        /\ "write" \in Kinds
    BY DEF Absent, Unset, Return, Object, Callback, Kinds
  <2> QED BY <2>1, <2>2 DEF Object
<1>3. obj' = [obj EXCEPT ![o] = n]
  BY DEF newInstance, n
<1>4. UNCHANGED <<pool, live, performing, dirty>> /\ script' = script \cup {o}
  BY DEF newInstance
<1>5. Ids' = Ids
  <2>1. "write" \in Kinds /\ "debug" \in Kinds
    BY DEF Kinds
  <2>2. /\ Ids \in [Slots -> Vals \cup {NoId}]
        /\ Ids[<<o, "write">>] = NoId /\ Ids[<<o, "debug">>] = NoId
    BY <1>1, <2>1, SlotsKeep DEF Absent, Unset
  <2>3. Ids' = [[Ids EXCEPT ![<<o, "write">>] = n.cb["write"].id]
                     EXCEPT ![<<o, "debug">>] = n.cb["debug"].id]
    BY <1>2, <1>3, IdsAfter
  <2> QED BY <1>2, <2>1, <2>2, <2>3 DEF Slots
<1>6. Counts(pool', Ids')
  BY <1>4, <1>5, SlotsKeep
<1>7. InUse' = InUse /\ OnStack' = OnStack /\ performing' \in Seq(Transfer) /\ dirty' \subseteq Objs
  BY <1>4 DEF InUse, OnStack, CallbacksKept, TypeOK
<1>8. ObjectStep(o, n)
  BY <1>2, <1>3, <1>4, <1>6, <1>7 DEF ObjectStep
<1> QED BY <1>2, <1>8, OneObjectKeeps

\* A clone shares the function of its original, and the pool counts it again.
LEMMA CloneKeeps ==
  ASSUME CallbacksKept, NEW o \in Objs, NEW c \in Objs, clone(o, c)
  PROVE  CallbacksKept'
<1> DEFINE n == [copyFrom(o) EXCEPT !.state = "live"]
           v == obj[o].cb["write"].id
           x == <<c, "write">>
<1>1. obj[c] = Absent /\ "write" \in Kinds /\ "debug" \in Kinds
  BY DEF clone, CallbacksKept, ScriptLive, Kinds
<1>2. obj[o] \in Object /\ obj[o].cb["write"] \in Callback
  BY <1>1 DEF CallbacksKept, TypeOK, Object
<1>3. /\ n \in Object /\ n.state = "live" /\ n.buf = "none"
      /\ n.cb["write"].id = v /\ n.cb["debug"].id = NoId
  BY <1>1, <1>2 DEF copyFrom, Absent, Unset, Object, Callback, Kinds
<1>4. obj' = [obj EXCEPT ![c] = n]
  BY DEF clone
<1> HIDE DEF n
<1>5. UNCHANGED <<live, performing, dirty>> /\ script' = script \cup {c}
      /\ pool' = retainValueById(pool, v)
  BY DEF clone, copyPool
<1>6. v \in live \cup {NoId}
  BY <1>1 DEF CallbacksKept, HeldLive
<1>7. Counts(pool', Ids')
  <2>1. /\ Ids \in [Slots -> Vals \cup {NoId}]
        /\ Ids[x] = NoId /\ Ids[<<c, "debug">>] = NoId
    BY <1>1, SlotsKeep DEF Absent, Unset
  <2>2. Ids' = [[Ids EXCEPT ![x] = v] EXCEPT ![<<c, "debug">>] = NoId]
    <3>1. Ids' = [[Ids EXCEPT ![x] = n.cb["write"].id] EXCEPT ![<<c, "debug">>] = n.cb["debug"].id]
      BY <1>3, <1>4, IdsAfter
    <3> QED BY <1>3, <3>1
  <2>3. x \in Slots /\ <<c, "debug">> \in Slots /\ x # <<c, "debug">>
    BY <1>1 DEF Slots
  <2> HIDE DEF v, x
  <2>4. Ids' = [Ids EXCEPT ![x] = v]
    BY <2>1, <2>2, <2>3, ChangedOnce
  <2>5. Counts(pool, Ids) /\ live \subseteq Vals
    BY SlotsKeep
  <2> QED BY <1>5, <1>6, <2>1, <2>3, <2>4, <2>5, Retained
<1>8. InUse' = InUse /\ OnStack' = OnStack /\ performing' \in Seq(Transfer) /\ dirty' \subseteq Objs
  BY <1>5 DEF InUse, OnStack, CallbacksKept, TypeOK
<1>9. \A k \in Kinds : n.cb[k].id \in live \cup {NoId}
  BY <1>3, <1>6 DEF Kinds
<1>10. ObjectStep(c, n)
  BY <1>3, <1>4, <1>5, <1>7, <1>8, <1>9 DEF ObjectStep
<1> QED BY <1>3, <1>10, OneObjectKeeps

\* Closing an object, at the end of perform or in the destructor, releases both ids.
LEMMA CloseCounts ==
  ASSUME CallbacksKept, NEW o \in Objs, NEW n \in Object, obj' = [obj EXCEPT ![o] = n],
         \A k \in Kinds : n.cb[k].id = NoId,
         pool' = releaseAll(pool, obj[o].cb)
  PROVE  Counts(pool', Ids')
<1> DEFINE x == <<o, "write">>
           y == <<o, "debug">>
           f == [Ids EXCEPT ![x] = NoId]
           p == releaseValueById(pool, Ids[x])
<1>1. x \in Slots /\ y \in Slots /\ x # y
  BY DEF Slots, Kinds
<1>2. Ids[x] = obj[o].cb["write"].id /\ Ids[y] = obj[o].cb["debug"].id
  BY SlotsKeep DEF Kinds
<1>3. /\ Ids \in [Slots -> Vals \cup {NoId}] /\ live \subseteq Vals
      /\ Ids[x] \in live \cup {NoId} /\ Ids[y] \in live \cup {NoId}
      /\ Counts(pool, Ids)
  BY <1>1, SlotsKeep
<1>4. Ids' = [f EXCEPT ![y] = NoId]
  <2>1. n.cb["write"].id = NoId /\ n.cb["debug"].id = NoId
    BY DEF Kinds
  <2>2. Ids' = [[Ids EXCEPT ![x] = n.cb["write"].id] EXCEPT ![y] = n.cb["debug"].id]
    BY IdsAfter
  <2> QED BY <2>1, <2>2
<1>5. pool' = releaseValueById(p, Ids[y])
  BY <1>2 DEF releaseAll
<1> HIDE DEF x, y, p
<1>6. Counts(p, f)
  BY <1>1, <1>3, Released DEF p
<1>7. f \in [Slots -> Vals \cup {NoId}] /\ f[y] = Ids[y]
  BY <1>1, <1>3
<1> HIDE DEF f
<1>8. Counts(releaseValueById(p, f[y]), [f EXCEPT ![y] = NoId])
  BY <1>1, <1>3, <1>6, <1>7, Released
<1> QED BY <1>4, <1>5, <1>7, <1>8

\* The innermost transfer, and the ones around it.
LEMMA Innermost ==
  ASSUME CallbacksKept, performing # << >>
  PROVE  /\ Len(performing) \in Nat \ {0} /\ Len(performing) \in DOMAIN performing
         /\ Last(performing) = performing[Len(performing)]
         /\ current \in Objs /\ current \in InUse
         /\ Front(performing) \in Seq(Transfer)
         /\ DOMAIN Front(performing) = 1 .. Len(performing) - 1
         /\ \A i \in DOMAIN Front(performing) : Front(performing)[i] = performing[i]
<1>1. performing \in Seq(Transfer)
  BY DEF CallbacksKept, TypeOK
<1>2. /\ Len(performing) \in Nat \ {0} /\ Len(performing) \in DOMAIN performing
      /\ Last(performing) = performing[Len(performing)]
  BY <1>1 DEF Last
<1>3. performing[Len(performing)] \in Transfer
  BY <1>1, <1>2
<1>4. current \in Objs /\ current \in InUse
  BY <1>2, <1>3 DEF current, InUse, Transfer
<1>5. Front(performing) \in Seq(Transfer)
  BY <1>1, <1>2 DEF Front
<1>6. /\ DOMAIN Front(performing) = 1 .. Len(performing) - 1
      /\ \A i \in DOMAIN Front(performing) : Front(performing)[i] = performing[i]
  BY <1>1, <1>2 DEF Front
<1> QED BY <1>2, <1>4, <1>5, <1>6

LEMMA BufferKeeps ==
  ASSUME CallbacksKept, writeToBuffer
  PROVE  CallbacksKept'
<1> DEFINE o == current
           n == [obj[o] EXCEPT !.buf = IF obj[o].buf = "none" THEN "own" ELSE obj[o].buf]
<1>1. o \in Objs /\ o \in InUse
  BY Innermost DEF writeToBuffer, inTransfer
<1>2. obj[o] \in Object
  BY <1>1 DEF CallbacksKept, TypeOK
<1>3. /\ n \in Object /\ n.state = obj[o].state /\ n.cb = obj[o].cb
      /\ n.buf = "old" => obj[o].buf = "old"
      /\ n.buf # "none"
  BY <1>2 DEF Object
<1>4. obj' = [obj EXCEPT ![o] = n]
  BY <1>1, <1>2 DEF writeToBuffer, CallbacksKept, TypeOK, Object
<1> HIDE DEF n, o
<1>5. UNCHANGED <<pool, live, script, performing, dirty>> /\ n.cb["write"].behavior = "return"
  BY <1>3 DEF writeToBuffer, o
<1>6. Counts(pool', Ids')
  <2>1. Ids' = Ids
    <3>1. \A p \in Objs : obj'[p].cb = obj[p].cb
      BY <1>1, <1>3, <1>4 DEF CallbacksKept, TypeOK
    <3> QED BY <3>1 DEF Ids, Slots
  <2> QED BY <1>5, <2>1, SlotsKeep
<1>7. \A k \in Kinds : n.cb[k].id \in live \cup {NoId}
  BY <1>1, <1>3 DEF CallbacksKept, HeldLive
<1>8. n.state = "live"
  BY <1>1, <1>3 DEF CallbacksKept, ScriptLive
<1>9. InUse' = InUse /\ OnStack' = OnStack /\ performing' \in Seq(Transfer) /\ dirty' \subseteq Objs
  BY <1>5 DEF InUse, OnStack, CallbacksKept, TypeOK
<1>10. n.buf = "old" => o \in dirty'
  BY <1>1, <1>3, <1>5 DEF CallbacksKept, OldDataExplained
<1>11. ObjectStep(o, n)
  BY <1>1, <1>3, <1>4, <1>5, <1>6, <1>7, <1>8, <1>9, <1>10 DEF ObjectStep
<1> QED BY <1>1, <1>3, <1>11, OneObjectKeeps

\* What Closed leaves of an object.
LEMMA ClosedObject ==
  ASSUME NEW c \in Object
  PROVE  /\ Closed(c) \in Object /\ Closed(c).buf = "none" /\ Closed(c).state = c.state
         /\ \A k \in Kinds : Closed(c).cb[k].id = NoId
<1> DEFINE cb == [k \in Kinds |-> [c.cb[k] EXCEPT !.id = NoId]]
<1>1. ASSUME NEW k \in Kinds
      PROVE  [c.cb[k] EXCEPT !.id = NoId] \in Callback /\ [c.cb[k] EXCEPT !.id = NoId].id = NoId
  <2>1. c.cb[k] \in Callback
    BY DEF Object
  <2> QED BY <2>1 DEF Callback
<1>2. cb \in [Kinds -> Callback] /\ \A k \in Kinds : cb[k].id = NoId
  BY <1>1
<1>3. Closed(c) = [c EXCEPT !.buf = "none", !.cb = cb, !.handle = FALSE, !.debugOn = FALSE]
  BY DEF Closed, resetData, Object
<1> HIDE DEF cb
<1> QED BY <1>2, <1>3 DEF Object

\* perform ends: data that the transfer has not returned is old from now on, and somebody
\* has failed or changed the option.
LEMMA EndKeeps ==
  ASSUME CallbacksKept, NEW ok \in BOOLEAN, performEnds(ok)
  PROVE  CallbacksKept'
<1> DEFINE o == current
           n == IF Last(performing).close THEN Closed(obj[o]) ELSE Kept(obj[o], ok)
<1>1. performing # << >> /\ o \in Objs /\ obj[o] \in Object
  BY Innermost DEF performEnds, inTransfer, CallbacksKept, TypeOK
<1>2. /\ obj' = [obj EXCEPT ![o] = n]
      /\ performing' = Front(performing)
      /\ dirty' = IF ok THEN dirty ELSE dirty \cup {o}
      /\ UNCHANGED <<live, script>>
  BY DEF performEnds
<1>3. /\ Kept(obj[o], ok) \in Object
      /\ Kept(obj[o], ok).cb = obj[o].cb
      /\ Kept(obj[o], ok).state = obj[o].state
      /\ Kept(obj[o], ok).buf \in {"none", "old"}
      /\ Kept(obj[o], ok).buf = "old" =>
           obj[o].buf # "none" /\ ~(ok /\ obj[o].cb["write"].behavior = "return")
  BY <1>1 DEF Kept, Object
<1>4. /\ n \in Object /\ n.state = obj[o].state
      /\ n.buf = "old" => /\ obj[o].buf # "none"
                          /\ ~(ok /\ obj[o].cb["write"].behavior = "return")
      /\ n.buf # "own"
      /\ n.cb = obj[o].cb \/ \A k \in Kinds : n.cb[k].id = NoId
  BY <1>1, <1>3, ClosedObject
<1>5. n.state = "live"
  BY <1>1, <1>4, Innermost DEF CallbacksKept, ScriptLive
<1>6. Counts(pool', Ids')
  <2>1. CASE Last(performing).close
    <3>1. pool' = releaseAll(pool, obj[o].cb) /\ n = Closed(obj[o])
      BY <2>1 DEF performEnds
    <3> HIDE DEF n, o
    <3> QED BY <1>1, <1>2, <1>4, <3>1, ClosedObject, CloseCounts
  <2>2. CASE ~Last(performing).close
    <3>1. pool' = pool /\ n.cb = obj[o].cb
      BY <1>3, <2>2 DEF performEnds
    <3> HIDE DEF n, o
    <3>2. \A p \in Objs : obj'[p].cb = obj[p].cb
      BY <1>1, <1>2, <3>1 DEF CallbacksKept, TypeOK
    <3>3. Ids' = Ids
      BY <3>2 DEF Ids, Slots
    <3> QED BY <3>1, <3>3, SlotsKeep
  <2> QED BY <2>1, <2>2
<1> HIDE DEF n, o
<1>7. \A k \in Kinds : n.cb[k].id \in live \cup {NoId}
  BY <1>1, <1>4 DEF CallbacksKept, HeldLive
<1>8. /\ performing' \in Seq(Transfer)
      /\ InUse \ {o} \subseteq InUse' /\ InUse' \subseteq InUse
      /\ OnStack' \subseteq OnStack
  <2>1. DOMAIN performing = 1 .. Len(performing)
    BY DEF CallbacksKept, TypeOK
  <2> QED BY <1>1, <1>2, <2>1, Innermost DEF InUse, OnStack, o, current
<1>9. /\ dirty \subseteq dirty' /\ dirty' \subseteq Objs
      /\ n.buf = "old" => o \in dirty'
  BY <1>1, <1>2, <1>4 DEF CallbacksKept, TypeOK, Object, OldDataExplained, OwnDataReturned
<1>10. UNCHANGED live /\ script' \subseteq script \cup {o} /\ obj' = [obj EXCEPT ![o] = n]
  BY <1>2
<1>11. ObjectStep(o, n)
  BY <1>4, <1>5, <1>6, <1>7, <1>8, <1>9, <1>10 DEF ObjectStep
<1> QED BY <1>1, <1>4, <1>11, OneObjectKeeps

\* The destructor of an object.
LEMMA DestroyKeeps ==
  ASSUME CallbacksKept, NEW o \in Objs, destroy(o)
  PROVE  CallbacksKept'
<1> DEFINE c == IF obj[o].handle THEN Closed(obj[o]) ELSE obj[o]
           n == [c EXCEPT !.state = "dead"]
<1>1. obj[o] \in Object /\ o \notin script \cup InUse
  BY DEF destroy, CallbacksKept, TypeOK
<1>2. /\ c \in Object
      /\ c.buf = "none" \/ c.buf = obj[o].buf
      /\ c.cb = obj[o].cb \/ \A k \in Kinds : c.cb[k].id = NoId
  BY <1>1, ClosedObject
<1>3. obj' = [obj EXCEPT ![o] = n] /\ UNCHANGED <<live, script, performing, dirty>>
  BY DEF destroy
<1>4. n \in Object /\ n.state = "dead" /\ n.buf = c.buf /\ n.cb = c.cb
  <2> HIDE DEF c
  <2> QED BY <1>2 DEF Object
<1>5. Counts(pool', Ids')
  <2>1. CASE obj[o].handle
    <3>1. pool' = releaseAll(pool, obj[o].cb)
      BY <2>1 DEF destroy
    <3>2. \A k \in Kinds : n.cb[k].id = NoId
      BY <1>1, <1>4, <2>1, ClosedObject
    <3> HIDE DEF n
    <3> QED BY <1>3, <1>4, <3>1, <3>2, CloseCounts
  <2>2. CASE ~obj[o].handle
    <3>1. pool' = pool /\ n.cb = obj[o].cb
      BY <1>4, <2>2 DEF destroy
    <3> HIDE DEF n
    <3>2. \A p \in Objs : obj'[p].cb = obj[p].cb
      BY <1>3, <3>1 DEF CallbacksKept, TypeOK
    <3>3. Ids' = Ids
      BY <3>2 DEF Ids, Slots
    <3> QED BY <3>1, <3>3, SlotsKeep
  <2> QED BY <2>1, <2>2
<1> HIDE DEF n, c
<1>6. \A k \in Kinds : n.cb[k].id \in live \cup {NoId}
  BY <1>2, <1>4 DEF CallbacksKept, HeldLive
<1>7. InUse' = InUse /\ OnStack' = OnStack /\ performing' \in Seq(Transfer) /\ dirty' \subseteq Objs
  BY <1>3 DEF InUse, OnStack, CallbacksKept, TypeOK
<1>8. n.buf # "own" /\ (n.buf = "old" => o \in dirty')
  BY <1>1, <1>2, <1>3, <1>4 DEF CallbacksKept, OldDataExplained, OwnDataReturned
<1>9. ObjectStep(o, n)
  BY <1>1, <1>3, <1>4, <1>5, <1>6, <1>7, <1>8 DEF ObjectStep
<1> QED BY <1>4, <1>9, OneObjectKeeps

-----------------------------------------------------------------------------
(* Steps that change no object.                                            *)

\* Transfers that begin, call a function and return from it.
LEMMA TransferKeeps ==
  ASSUME CallbacksKept, UNCHANGED <<obj, pool, live, script, dirty>>,
         performing' \in Seq(Transfer), InUse \subseteq InUse',
         InUse' \subseteq InUse \cup script, OnStack' \subseteq live
  PROVE  CallbacksKept'
<1> USE DEF CallbacksKept
<1>1. TypeOK'
  BY DEF TypeOK
<1>2. PoolExact'
  BY DEF PoolExact, Holders
<1>3. HeldLive'
  BY DEF HeldLive
<1>4. OldDataExplained' /\ ScriptLive' /\ OwnDataReturned'
  BY DEF OldDataExplained, ScriptLive, OwnDataReturned
<1> QED BY <1>1, <1>2, <1>3, <1>4

LEMMA PerformKeeps ==
  ASSUME CallbacksKept, NEW o \in Objs, NEW close \in BOOLEAN, perform(o, close)
  PROVE  CallbacksKept'
<1> DEFINE t == [obj |-> o, close |-> close, calling |-> NoId]
<1>1. performing \in Seq(Transfer) /\ t \in Transfer /\ t.obj = o /\ t.calling = NoId
  BY DEF CallbacksKept, TypeOK, Transfer
<1>2. UNCHANGED <<obj, pool, live, script, dirty>> /\ performing' = Append(performing, t) /\ o \in script
  BY DEF perform
<1> HIDE DEF t
<1>3. /\ performing' \in Seq(Transfer)
      /\ DOMAIN performing = 1 .. Len(performing)
      /\ DOMAIN performing' = 1 .. Len(performing) + 1
      /\ performing'[Len(performing) + 1] = t
      /\ \A i \in 1 .. Len(performing) : performing'[i] = performing[i]
  BY <1>1, <1>2
<1>4. Len(performing) \in Nat
  BY <1>1
<1>5. \A i \in DOMAIN performing' : i \in DOMAIN performing \/ performing'[i] = t
  BY <1>3, <1>4
<1>6. \A i \in DOMAIN performing : i \in DOMAIN performing'
  BY <1>3, <1>4
<1>7. InUse \subseteq InUse' /\ InUse' \subseteq InUse \cup {o} /\ OnStack' \subseteq OnStack
  BY <1>1, <1>3, <1>5, <1>6 DEF InUse, OnStack
<1> QED BY <1>2, <1>3, <1>7, TransferKeeps DEF CallbacksKept, HeldLive

\* The library calls a function, and the function returns.
LEMMA CallKeeps ==
  ASSUME CallbacksKept, (\E k \in Kinds : callback(k)) \/ callbackReturns
  PROVE  CallbacksKept'
<1>1. /\ performing # << >>
      /\ UNCHANGED <<obj, pool, live, script, dirty>>
  BY DEF callback, callbackReturns, inTransfer
<1>2. PICK v \in live \cup {NoId} :
        performing' = [performing EXCEPT ![Len(performing)] = [@ EXCEPT !.calling = v]]
  <2>1. CASE callbackReturns
    BY <2>1 DEF callbackReturns
  <2>2. ASSUME NEW k \in Kinds, callback(k)
        PROVE  /\ performing' = [performing EXCEPT ![Len(performing)] =
                                    [@ EXCEPT !.calling = obj[current].cb[k].id]]
               /\ obj[current].cb[k].id \in live \cup {NoId}
    BY <1>1, <2>2, Innermost DEF callback, CallbacksKept, HeldLive
  <2> QED BY <2>1, <2>2
<1> DEFINE t == [performing[Len(performing)] EXCEPT !.calling = v]
<1>3. /\ performing \in Seq(Transfer) /\ live \subseteq Vals
      /\ Len(performing) \in DOMAIN performing
      /\ performing[Len(performing)] \in Transfer
  BY <1>1, Innermost DEF CallbacksKept, TypeOK
<1>4. t \in Transfer /\ t.obj = performing[Len(performing)].obj /\ t.calling = v
  BY <1>3 DEF Transfer
<1>5. performing' = [performing EXCEPT ![Len(performing)] = t]
  BY <1>2
<1> HIDE DEF t
<1>6. performing' \in Seq(Transfer) /\ DOMAIN performing' = DOMAIN performing
      /\ \A i \in DOMAIN performing :
            performing'[i] = IF i = Len(performing) THEN t ELSE performing[i]
  BY <1>3, <1>4, <1>5
<1>7. InUse' = InUse /\ OnStack' \subseteq live
  BY <1>3, <1>4, <1>6 DEF InUse, OnStack, CallbacksKept, HeldLive
<1> QED BY <1>1, <1>6, <1>7, TransferKeeps

\* Scripts forget and the collector frees what nobody holds.
LEMMA CollectKeeps ==
  ASSUME CallbacksKept,
         (\E x \in Objs \cup Vals : drop(x)) \/ (\E v \in Vals : collect(v)) \/ UNCHANGED vars
  PROVE  CallbacksKept'
<1> USE DEF CallbacksKept
<1>1. UNCHANGED <<obj, pool, performing, dirty>> /\ script' \subseteq script /\ live' \subseteq live
  BY DEF drop, collect, vars
<1>2. InUse' = InUse /\ OnStack' = OnStack
  BY <1>1 DEF InUse, OnStack
<1>3. TypeOK'
  BY <1>1 DEF TypeOK
<1>4. PoolExact'
  BY <1>1 DEF PoolExact, Holders
<1>5. OldDataExplained' /\ OwnDataReturned'
  BY <1>1, <1>2 DEF OldDataExplained, OwnDataReturned
<1>6. CASE UNCHANGED live
  BY <1>1, <1>2, <1>3, <1>4, <1>5, <1>6 DEF HeldLive, ScriptLive
<1>7. ASSUME NEW v \in Vals, collect(v) PROVE CallbacksKept'
  <2>1. live' = live \ {v} /\ v \notin script /\ v \notin OnStack /\ pool[v] = 0 /\ UNCHANGED script
    BY <1>7 DEF collect, unheld
  <2>2. ASSUME NEW o \in Objs, NEW k \in Kinds PROVE obj[o].cb[k].id # v
    <3>1. Cardinality(Holders(v)) = 0 /\ IsFiniteSet(Holders(v))
      BY <2>1, SlotsFinite DEF PoolExact, Holders, Slots
    <3>2. Holders(v) = {}
      BY <3>1, FS_EmptySet
    <3>3. <<o, k>> \in Objs \X Kinds /\ <<o, k>> \notin Holders(v)
      BY <3>2
    <3> QED BY <3>3 DEF Holders
  <2>3. HeldLive'
    BY <1>1, <1>2, <2>1, <2>2 DEF HeldLive
  <2>4. ScriptLive'
    BY <1>1, <1>2, <2>1 DEF ScriptLive
  <2> QED BY <1>3, <1>4, <1>5, <2>3, <2>4
<1> QED BY <1>6, <1>7 DEF drop, vars

-----------------------------------------------------------------------------

\* Whatever scripts do with options, clones and transfers, in callbacks of other transfers
\* too, every function the library may call is alive and counted once for each callback
\* that keeps it, and data left over from an earlier transfer is never returned unnoticed.
THEOREM CallbacksAreKept == Spec => []CallbacksKept
<1>1. Init => CallbacksKept
  <2> SUFFICES ASSUME Init PROVE CallbacksKept
    OBVIOUS
  <2>1. /\ Absent \in Object /\ Absent.buf = "none" /\ Absent.state = "absent"
        /\ \A k \in Kinds : Absent.cb[k].id = NoId
    BY DEF Absent, Unset, Object, Callback, Kinds
  <2>2. \A o \in Objs : obj[o] = Absent
    BY DEF Init
  <2>3. InUse = {} /\ OnStack = {}
    BY DEF Init, InUse, OnStack
  <2>4. ASSUME NEW v \in Vals PROVE Cardinality(Holders(v)) = 0
    <3>1. Holders(v) = {}
      BY <2>1, <2>2, CurlAssumption DEF Holders
    <3> QED BY <3>1, FS_EmptySet
  <2>5. TypeOK
    <3>1. Cardinality(Objs) \in Nat
      BY CurlAssumption, FS_CardinalityType
    <3> QED BY <2>1, <3>1 DEF Init, TypeOK
  <2>6. PoolExact
    BY <2>4 DEF Init, PoolExact
  <2>7. HeldLive /\ OldDataExplained /\ OwnDataReturned
    BY <2>1, <2>2, <2>3 DEF HeldLive, OldDataExplained, OwnDataReturned
  <2>8. ScriptLive
    BY <2>2, <2>3, CurlAssumption DEF Init, ScriptLive
  <2> QED BY <2>5, <2>6, <2>7, <2>8 DEF CallbacksKept
<1>2. CallbacksKept /\ [Next]_vars => CallbacksKept'
  BY NewKeeps, DestroyKeeps, OptionKeeps, CloneKeeps, PerformKeeps, BufferKeeps, CallKeeps,
     EndKeeps, CollectKeeps DEF Next
<1> QED BY <1>1, <1>2, PTL DEF Spec

-----------------------------------------------------------------------------
(* Sqlite: objects, values and the table of pointers.                      *)

\* What an entry of userptr_refs is
Entry == [ptr : Addrs, id : Nat]

\* The table t is well formed and its entries are those of E
TableHolds(t, E) ==
    /\ t = [heads |-> t.heads, count |-> t.count]
    /\ t.heads \in Seq(Seq(Entry)) /\ t.count \in Nat
    /\ t.heads = <<>> => t.count = 0
    /\ \A i \in 1 .. Len(t.heads) :
            /\ IsInjective(t.heads[i])
            /\ \A e \in ToSet(t.heads[i]) : SlotOf(t, e.ptr) = i
    /\ Entries(t) = E

LiveIn(vs) == {v \in 1 .. Len(vs) : vs[v].state = "live"}

EntriesFor(vs) == {[ptr |-> vs[v].ptr, id |-> v] : v \in LiveIn(vs)}

\* The lists of the connections of o are exact
Attached(o) ==
    /\ \A c \in Addrs : o[c].kind = "conn" =>
            /\ \A s \in Addrs : s \in ToSet(o[c].list) <=> o[s].kind = "stmt" /\ o[s].owner = c
            /\ IsInjective(o[c].list)
    /\ \A s \in Addrs : o[s].kind = "stmt" =>
            /\ o[s].owner # Null => o[o[s].owner].kind = "conn"
            /\ o[s].stmt => o[s].owner # Null

\* Values and objects belong to each other
Matched(o, vs) ==
    /\ \A v \in LiveIn(vs) : vs[v].ptr \in Addrs /\ o[vs[v].ptr].kind # "free" /\ o[vs[v].ptr].val = v
    /\ \A a \in Addrs : o[a].kind # "free" => o[a].val \in LiveIn(vs) /\ vs[o[a].val].ptr = a

OwnedInv ==
    /\ ObjectsTyped
    /\ Attached(objects)
    /\ Matched(objects, values)
    /\ TableHolds(refs, EntriesFor(values))
    /\ refs.count = Cardinality(LiveIn(values))

-----------------------------------------------------------------------------
(* Chains.                                                                 *)

\* Division with a remainder.
LEMMA Division ==
    ASSUME NEW n \in Nat \ {0}, NEW v \in Nat
    PROVE  /\ v \div n \in Nat /\ v % n \in 0 .. n - 1
           /\ v = n * (v \div n) + (v % n)
OBVIOUS

\* A remainder is determined by any quotient.
LEMMA RemainderIs ==
    ASSUME NEW n \in Nat \ {0}, NEW q \in Int, NEW r \in 0 .. n - 1, NEW v \in Nat,
           v = n * q + r
    PROVE  v % n = r
<1> DEFINE p == v \div n
           s == v % n
<1>1. p \in Int /\ s \in 0 .. n - 1 /\ v = n * p + s
  OBVIOUS
<1> HIDE DEF p, s
<1>2. n * (p - q) = r - s
  BY <1>1
<1>3. p = q
  <2>1. CASE p - q >= 1
    <3>1. n * (p - q) >= n BY <1>1, <2>1
    <3> QED BY <1>1, <1>2, <3>1
  <2>2. CASE p - q <= -1
    <3>1. n * (p - q) <= -n BY <1>1, <2>2
    <3> QED BY <1>1, <1>2, <3>1
  <2> QED BY <1>1, <2>1, <2>2
<1>4. r = s
  BY <1>1, <1>2, <1>3
<1> QED BY <1>4 DEF s

\* The slot in the table of twice the size tells the slot in the old one.
LEMMA SlotOfDouble ==
    ASSUME NEW n \in Nat \ {0}, NEW m \in Nat \ {0}, m = 2 * n, NEW v \in Nat
    PROVE  /\ v % n \in 0 .. n - 1
           /\ v % m \in 0 .. m - 1
           /\ (v % m) % n = v % n
<1>1. PICK q \in Nat, s \in 0 .. m - 1 : v = m * q + s /\ s = v % m
  <2>1. v \div m \in Nat /\ v % m \in 0 .. m - 1 /\ v = m * (v \div m) + (v % m)
    BY Division
  <2> QED BY <2>1
<1>2. PICK p \in Nat, r \in 0 .. n - 1 : s = n * p + r /\ r = s % n
  <2>1. s \in Nat
    OBVIOUS
  <2>2. s \div n \in Nat /\ s % n \in 0 .. n - 1 /\ s = n * (s \div n) + (s % n)
    BY <2>1, Division
  <2> QED BY <2>2
<1>3. PICK u \in Int : u = 2 * q + p
  OBVIOUS
<1>4. v = n * u + r
  <2>1. PICK x \in Int, y \in Int : x = m * q /\ y = n * p
    OBVIOUS
  <2>2. n * u = x + y
    BY <1>3, <2>1
  <2>3. v = x + s /\ s = y + r
    BY <1>1, <1>2, <2>1
  <2> QED BY <2>2, <2>3
<1>5. v % n = r
  BY <1>4, RemainderIs
<1> QED BY <1>1, <1>2, <1>5

\* Two chains, one after the other.
LEMMA Concatenated ==
    ASSUME NEW S, NEW a \in Seq(S), NEW b \in Seq(S)
    PROVE  /\ a \o b \in Seq(S) /\ Len(a \o b) = Len(a) + Len(b)
           /\ \A j \in 1 .. Len(a) + Len(b) :
                 (a \o b)[j] = IF j <= Len(a) THEN a[j] ELSE b[j - Len(a)]
<1>1. a \o b \in Seq(S)
  OBVIOUS
<1>2. Len(a \o b) = Len(a) + Len(b)
  OBVIOUS
<1>3. ASSUME NEW j \in 1 .. Len(a) + Len(b)
      PROVE  (a \o b)[j] = IF j <= Len(a) THEN a[j] ELSE b[j - Len(a)]
  OBVIOUS
<1> QED BY <1>1, <1>2, <1>3

\* One element of a chain is removed.
LEMMA RemovedAt ==
    ASSUME NEW S, NEW c \in Seq(S), NEW k \in 1 .. Len(c)
    PROVE  /\ RemoveAt(c, k) \in Seq(S)
           /\ Len(RemoveAt(c, k)) = Len(c) - 1
           /\ \A j \in 1 .. Len(c) - 1 :
                 RemoveAt(c, k)[j] = IF j < k THEN c[j] ELSE c[j + 1]
<1> DEFINE a == SubSeq(c, 1, k - 1)
           b == SubSeq(c, k + 1, Len(c))
<1>1. a \in Seq(S) /\ Len(a) = k - 1 /\ \A j \in 1 .. k - 1 : a[j] = c[j]
  OBVIOUS
<1>2. /\ b \in Seq(S) /\ Len(b) = Len(c) - k
      /\ \A j \in 1 .. Len(c) - k : b[j] = c[j + k]
  OBVIOUS
<1>3. RemoveAt(c, k) = a \o b
  BY DEF RemoveAt
<1> HIDE DEF a, b
<1> DEFINE n == Len(c)
<1>0. n \in Nat /\ k \in 1 .. n
  OBVIOUS
<1> HIDE DEF n
<1>4. /\ a \o b \in Seq(S) /\ Len(a \o b) = n - 1
      /\ \A j \in 1 .. n - 1 :
            (a \o b)[j] = IF j < k THEN a[j] ELSE b[j - k + 1]
  <2>1. /\ a \o b \in Seq(S) /\ Len(a \o b) = Len(a) + Len(b)
        /\ \A j \in 1 .. Len(a) + Len(b) :
              (a \o b)[j] = IF j <= Len(a) THEN a[j] ELSE b[j - Len(a)]
    BY <1>1, <1>2, Concatenated
  <2>2. Len(a) = k - 1 /\ Len(b) = n - k
    BY <1>1, <1>2 DEF n
  <2>3. Len(a) + Len(b) = n - 1
    BY <1>0, <2>2
  <2>4. ASSUME NEW j \in 1 .. n - 1
        PROVE  (a \o b)[j] = IF j < k THEN a[j] ELSE b[j - k + 1]
    <3>1. j - Len(a) = j - k + 1 /\ (j <= Len(a) <=> j < k)
      BY <1>0, <2>2
    <3> QED BY <2>1, <2>3, <3>1
  <2> QED BY <2>1, <2>3, <2>4
<1>5. ASSUME NEW j \in 1 .. n - 1
      PROVE  (a \o b)[j] = IF j < k THEN c[j] ELSE c[j + 1]
  <2>1. CASE j < k
    <3>1. j \in 1 .. k - 1 /\ a[j] = c[j]
      BY <1>0, <1>1, <2>1
    <3> QED BY <1>4, <2>1, <3>1
  <2>2. CASE ~(j < k)
    <3>1. j - k + 1 \in 1 .. n - k /\ (j - k + 1) + k = j + 1
      BY <1>0, <2>2
    <3>2. b[j - k + 1] = c[j + 1]
      BY <1>2, <3>1 DEF n
    <3> QED BY <1>4, <2>2, <3>2
  <2> QED BY <2>1, <2>2
<1> QED BY <1>3, <1>4, <1>5 DEF n

\* What rehashing makes of a chain: the entries of the new slot, each once.
LEMMA RehashedChain ==
    ASSUME NEW S, NEW c \in Seq(S), IsInjective(c), NEW m, NEW s
    PROVE  /\ Rehashed(c, m, s) \in Seq(S)
           /\ IsInjective(Rehashed(c, m, s))
           /\ ToSet(Rehashed(c, m, s)) = {v \in ToSet(c) : SlotIn(m, v.ptr) = s}
<1> DEFINE moved == {j \in DOMAIN c : SlotIn(m, c[j].ptr) = s}
           behind(j) == {k \in moved : k > j}
           after(j) == Cardinality(behind(j))
           K == Cardinality(moved)
           at(p) == CHOOSE j \in moved : after(j) = p - 1
           d == [p \in 1 .. K |-> c[at(p)]]
<1>1. Rehashed(c, m, s) = d
  BY DEF Rehashed
<1>2. moved \subseteq 1 .. Len(c) /\ Len(c) \in Nat
  OBVIOUS
<1>3. \A v : v \in {w \in ToSet(c) : SlotIn(m, w.ptr) = s} <=> \E j \in moved : c[j] = v
  BY DEF ToSet
<1>4. /\ \A j \in moved : c[j] \in S
      /\ \A j, k \in moved : c[j] = c[k] => j = k
  BY <1>2 DEF IsInjective
<1> HIDE DEF moved
<1>5. IsFiniteSet(moved) /\ K \in Nat
  <2>1. IsFiniteSet(1 .. Len(c))
    BY <1>2, FS_Interval
  <2> QED BY <1>2, <2>1, FS_Subset, FS_CardinalityType
<1>6. ASSUME NEW j \in moved
      PROVE  IsFiniteSet(behind(j)) /\ after(j) \in Nat /\ after(j) < K
  <2>1. behind(j) \subseteq moved \ {j}
    BY <1>2
  <2>2. IsFiniteSet(moved \ {j}) /\ Cardinality(moved \ {j}) = K - 1
    BY <1>5, FS_RemoveElement
  <2> HIDE DEF behind, K
  <2>3. IsFiniteSet(behind(j)) /\ Cardinality(behind(j)) <= K - 1
    BY <2>1, <2>2, FS_Subset
  <2> QED BY <1>5, <2>3, FS_CardinalityType
<1>7. ASSUME NEW j \in moved, NEW k \in moved, j < k
      PROVE  after(k) < after(j)
  <2>1. behind(k) \subseteq behind(j) \ {k} /\ k \in behind(j)
    <3>1. moved \subseteq Int /\ j < k
      BY <1>2, <1>7
    <3>2. \A i \in moved : i > k => i > j /\ i # k
      BY <3>1
    <3> QED BY <3>1, <3>2
  <2> HIDE DEF behind
  <2>2. /\ IsFiniteSet(behind(j) \ {k})
        /\ Cardinality(behind(j) \ {k}) = Cardinality(behind(j)) - 1
    BY <1>6, <2>1, FS_RemoveElement
  <2>3. Cardinality(behind(k)) <= Cardinality(behind(j)) - 1
    BY <2>1, <2>2, FS_Subset
  <2> QED BY <1>6, <2>3
<1>8. ASSUME NEW j \in moved, NEW k \in moved, after(j) = after(k)
      PROVE  j = k
  <2>1. j \in Int /\ k \in Int
    BY <1>2
  <2>2. after(j) \in Nat /\ after(k) \in Nat
    BY <1>6
  <2> HIDE DEF after
  <2> QED BY <1>7, <1>8, <2>1, <2>2
<1>9. ASSUME NEW p \in 1 .. K
      PROVE  \E j \in moved : after(j) = p - 1
  <2> SUFFICES ASSUME \A j \in moved : after(j) # p - 1
               PROVE  FALSE
    OBVIOUS
  <2> DEFINE T == (0 .. K - 1) \ {p - 1}
             f == [j \in moved |-> after(j)]
  <2>1. IsFiniteSet(T) /\ Cardinality(T) = K - 1
    <3>1. IsFiniteSet(0 .. K - 1) /\ Cardinality(0 .. K - 1) = K
      <4> HIDE DEF K
      <4> QED BY <1>5, FS_Interval
    <3>2. p - 1 \in 0 .. K - 1
      BY <1>5
    <3> HIDE DEF K
    <3> QED BY <3>1, <3>2, FS_RemoveElement
  <2>2. f \in [moved -> T]
    <3>1. \A j \in moved : after(j) \in Nat /\ after(j) < K
      BY <1>6
    <3> HIDE DEF after, K
    <3> QED BY <1>5, <3>1
  <2> HIDE DEF T, f
  <2>3. \E j, k \in moved : j # k /\ f[j] = f[k]
    BY <1>5, <2>1, <2>2, FS_PigeonHole
  <2> HIDE DEF after
  <2> QED BY <1>8, <2>3 DEF f
<1>10. \A p \in 1 .. K : at(p) \in moved /\ after(at(p)) = p - 1
  <2> HIDE DEF after, K
  <2> QED BY <1>9
<1>11. \A j \in moved : after(j) + 1 \in 1 .. K /\ at(after(j) + 1) = j
  <2> TAKE j \in moved
  <2>1. after(j) + 1 \in 1 .. K /\ (after(j) + 1) - 1 = after(j)
    <3>1. after(j) \in Nat /\ after(j) < K
      BY <1>6
    <3> HIDE DEF after, K
    <3> QED BY <1>5, <3>1
  <2> HIDE DEF after, at, K
  <2>2. at(after(j) + 1) \in moved /\ after(at(after(j) + 1)) = after(j)
    BY <1>10, <2>1
  <2> QED BY <1>8, <2>1, <2>2
<1> HIDE DEF after, at, K
<1>12. d \in Seq(S)
  BY <1>4, <1>5, <1>10
<1>13. IsInjective(d)
  <2> SUFFICES ASSUME NEW p \in 1 .. K, NEW q \in 1 .. K, d[p] = d[q]
               PROVE  p = q
    BY DEF IsInjective
  <2>1. at(p) = at(q)
    BY <1>4, <1>10
  <2> QED BY <1>5, <1>10, <2>1
<1>14. \A v : v \in ToSet(d) <=> \E j \in moved : c[j] = v
  <2> TAKE v
  <2>1. ASSUME NEW p \in 1 .. K, v = d[p]
        PROVE  \E j \in moved : c[j] = v
    BY <1>10, <2>1
  <2>2. ASSUME NEW j \in moved, c[j] = v
        PROVE  \E p \in 1 .. K : d[p] = v
    <3>1. d[after(j) + 1] = v
      BY <1>11, <2>2
    <3> QED BY <1>11, <3>1
  <2>3. v \in ToSet(d) <=> \E p \in 1 .. K : d[p] = v
    BY DEF ToSet
  <2> QED BY <2>1, <2>2, <2>3
<1> HIDE DEF d
<1> QED BY <1>1, <1>3, <1>12, <1>13, <1>14

\* An entry that is pushed on a chain is its first element.
LEMMA PushedChain ==
    ASSUME NEW S, NEW c \in Seq(S), IsInjective(c), NEW v \in S, v \notin ToSet(c)
    PROVE  LET d == <<v>> \o c IN
           /\ d \in Seq(S) /\ Len(d) = Len(c) + 1 /\ IsInjective(d)
           /\ d[1] = v /\ \A j \in 1 .. Len(c) : d[j + 1] = c[j]
           /\ ToSet(d) = ToSet(c) \cup {v}
<1> DEFINE d == <<v>> \o c
           n == Len(c)
<1>1. d \in Seq(S) /\ Len(d) = n + 1 /\ n \in Nat /\ DOMAIN c = 1 .. n
  OBVIOUS
<1>2. d[1] = v
  OBVIOUS
<1>3. ASSUME NEW j \in 1 .. n
      PROVE  d[j + 1] = c[j]
  OBVIOUS
<1>4. DOMAIN d = 1 .. n + 1
  BY <1>1
<1> HIDE DEF d, n
<1>5. \A j \in 1 .. n : c[j] # v
  BY <1>1 DEF ToSet
<1>6. \A j \in 1 .. n + 1 : j = 1 \/ (j - 1 \in 1 .. n /\ d[j] = c[j - 1])
  <2> TAKE j \in 1 .. n + 1
  <2>1. CASE j # 1
    <3>1. j - 1 \in 1 .. n /\ (j - 1) + 1 = j
      BY <1>1, <2>1
    <3> QED BY <1>3, <3>1
  <2> QED BY <2>1
<1>7. IsInjective(d)
  <2> SUFFICES ASSUME NEW j \in 1 .. n + 1, NEW k \in 1 .. n + 1, d[j] = d[k]
               PROVE  j = k
    BY <1>4 DEF IsInjective
  <2>1. CASE j = 1 \/ k = 1
    BY <1>2, <1>5, <1>6, <2>1
  <2>2. CASE j # 1 /\ k # 1
    <3>1. j - 1 = k - 1
      BY <1>1, <1>6, <2>2 DEF IsInjective
    <3> QED BY <1>1, <3>1
  <2> QED BY <2>1, <2>2
<1>8. ToSet(d) = ToSet(c) \cup {v}
  <2>1. \A x : x \in ToSet(d) => x \in ToSet(c) \cup {v}
    BY <1>1, <1>2, <1>4, <1>6 DEF ToSet
  <2>2. v \in ToSet(d)
    BY <1>1, <1>2, <1>4 DEF ToSet
  <2>3. ASSUME NEW j \in 1 .. n
        PROVE  c[j] \in ToSet(d)
    <3>1. j + 1 \in 1 .. n + 1
      BY <1>1
    <3> QED BY <1>3, <1>4, <3>1 DEF ToSet
  <2> QED BY <1>1, <2>1, <2>2, <2>3 DEF ToSet
<1> QED BY <1>1, <1>2, <1>3, <1>7, <1>8 DEF d, n

\* A chain without one of its entries.
LEMMA RemovedChain ==
    ASSUME NEW S, NEW c \in Seq(S), IsInjective(c), NEW k \in 1 .. Len(c)
    PROVE  LET d == RemoveAt(c, k) IN
           IsInjective(d) /\ ToSet(d) = ToSet(c) \ {c[k]}
<1> DEFINE d == RemoveAt(c, k)
           n == Len(c)
           old(j) == IF j < k THEN j ELSE j + 1
<1>1. n \in Nat /\ DOMAIN c = 1 .. n /\ k \in 1 .. n
  OBVIOUS
<1>2. DOMAIN d = 1 .. n - 1 /\ \A j \in 1 .. n - 1 : d[j] = c[old(j)]
  <2>1. /\ d \in Seq(S) /\ Len(d) = n - 1
        /\ \A j \in 1 .. n - 1 : d[j] = IF j < k THEN c[j] ELSE c[j + 1]
    BY RemovedAt
  <2> HIDE DEF d, n
  <2> QED BY <2>1
<1> HIDE DEF d, n
<1>3. \A j \in 1 .. n - 1 : old(j) \in 1 .. n /\ old(j) # k
  BY <1>1
<1>4. \A j, m \in 1 .. n - 1 : old(j) = old(m) => j = m
  BY <1>1
<1>5. \A m \in 1 .. n : m # k => \E j \in 1 .. n - 1 : old(j) = m
  <2> TAKE m \in 1 .. n
  <2>1. CASE m < k
    <3>1. m \in 1 .. n - 1 /\ old(m) = m
      BY <1>1, <2>1
    <3> QED BY <3>1
  <2>2. CASE m > k
    <3>1. m - 1 \in 1 .. n - 1 /\ old(m - 1) = m
      BY <1>1, <2>2
    <3> QED BY <3>1
  <2>3. m \in Int /\ k \in Int
    BY <1>1
  <2> QED BY <2>1, <2>2, <2>3
<1> HIDE DEF old
<1>6. IsInjective(d)
  BY <1>1, <1>2, <1>3, <1>4 DEF IsInjective
<1>7. \A x : x \in ToSet(d) <=> \E j \in 1 .. n - 1 : c[old(j)] = x
  BY <1>2 DEF ToSet
<1>8. \A x : x \in ToSet(c) \ {c[k]} <=> \E m \in 1 .. n : m # k /\ c[m] = x
  BY <1>1 DEF ToSet, IsInjective
<1>9. \A x : x \in ToSet(d) <=> x \in ToSet(c) \ {c[k]}
  BY <1>3, <1>5, <1>7, <1>8
<1> QED BY <1>6, <1>9 DEF d

-----------------------------------------------------------------------------
(* The table.                                                              *)

\* The slot of an address, and the one it has in the array of twice the size.
LEMMA SlotInDouble ==
    ASSUME NEW n \in Nat \ {0}, NEW m \in Nat \ {0}, m = 2 * n, NEW p \in Nat
    PROVE  /\ SlotIn(n, p) \in 1 .. n /\ SlotIn(m, p) \in 1 .. m
           /\ SlotIn(n, SlotIn(m, p) - 1) = SlotIn(n, p)
<1>1. p % n \in 0 .. n - 1 /\ p % m \in 0 .. m - 1 /\ (p % m) % n = p % n
  BY SlotOfDouble
<1> DEFINE a == p % n
           b == p % m
<1>2. a \in 0 .. n - 1 /\ b \in 0 .. m - 1 /\ b % n = a
  BY <1>1
<1>3. SlotIn(n, p) = a + 1 /\ SlotIn(m, p) = b + 1
  BY DEF SlotIn
<1> HIDE DEF a, b
<1>4. (b + 1) - 1 = b
  BY <1>2
<1>5. SlotIn(n, SlotIn(m, p) - 1) = a + 1
  BY <1>2, <1>3, <1>4 DEF SlotIn
<1> QED BY <1>2, <1>3, <1>5

\* What TableHolds says of the array of chains.
LEMMA TableFacts ==
    ASSUME SqliteAssumption, NEW t, NEW E, TableHolds(t, E)
    PROVE  /\ Len(t.heads) \in Nat /\ DOMAIN t.heads = 1 .. Len(t.heads)
           /\ t.heads = <<>> <=> Len(t.heads) = 0
           /\ t.heads \in [1 .. Len(t.heads) -> Seq(Entry)]
           /\ t.count \in Nat /\ E \subseteq Entry
           /\ \A e \in E : Len(t.heads) > 0
           /\ Len(t.heads) > 0 => \A e \in Entry :
                 /\ SlotOf(t, e.ptr) \in 1 .. Len(t.heads)
                 /\ e \in E <=> e \in ToSet(t.heads[SlotOf(t, e.ptr)])
<1> DEFINE n == Len(t.heads)
           S == Seq(Entry)
<1>1. /\ t.heads \in Seq(S) /\ t.count \in Nat /\ Entries(t) = E
      /\ \A i \in 1 .. n : \A e \in ToSet(t.heads[i]) : SlotOf(t, e.ptr) = i
  BY DEF TableHolds
<1> HIDE DEF S
<1>2. n \in Nat /\ DOMAIN t.heads = 1 .. n /\ (t.heads = <<>> <=> n = 0) /\ t.heads \in [1 .. n -> S]
  BY <1>1, LenProperties, EmptySeq
<1>3. \A e : e \in E <=> \E i \in 1 .. n : e \in ToSet(t.heads[i])
  BY <1>1 DEF Entries
<1>4. ASSUME NEW i \in 1 .. n, NEW e \in ToSet(t.heads[i])
      PROVE  e \in Entry
  <2>1. t.heads[i] \in Seq(Entry)
    BY <1>2 DEF S
  <2> QED BY <1>4, <2>1 DEF ToSet
<1>5. ASSUME n > 0, NEW e \in Entry
      PROVE  SlotOf(t, e.ptr) \in 1 .. n
  <2>1. e.ptr \in Nat
    BY SqliteAssumption DEF Entry
  <2>2. PICK p \in Nat : p = e.ptr
    BY <2>1
  <2>3. n \in Nat \ {0} /\ 2 * n \in Nat \ {0}
    BY <1>2, <1>5
  <2> HIDE DEF n
  <2>4. SlotIn(n, p) \in 1 .. n
    BY <2>3, SlotInDouble
  <2> QED BY <2>2, <2>4 DEF SlotOf, n
<1>6. \A e \in E : n > 0
  BY <1>2, <1>3
<1>7. E \subseteq Entry
  BY <1>3, <1>4
<1> QED BY <1>1, <1>2, <1>3, <1>5, <1>6, <1>7 DEF S

\* The table with the chain c in slot i and the counter k
WithChain(t, i, c, k) == [heads |-> [t.heads EXCEPT ![i] = c], count |-> k]

\* One chain is replaced by another.
LEMMA ChainReplaced ==
    ASSUME SqliteAssumption, NEW t, NEW E, TableHolds(t, E), NEW i \in 1 .. Len(t.heads),
           NEW c \in Seq(Entry), IsInjective(c), \A e \in ToSet(c) : SlotOf(t, e.ptr) = i,
           NEW k \in Nat
    PROVE  TableHolds(WithChain(t, i, c, k), (E \ ToSet(t.heads[i])) \cup ToSet(c))
<1>0. PICK u : u = WithChain(t, i, c, k)
  OBVIOUS
<1> DEFINE n == Len(t.heads)
           S == Seq(Entry)
           h == [t.heads EXCEPT ![i] = c]
           F == (E \ ToSet(t.heads[i])) \cup ToSet(c)
<1>1. /\ n \in Nat /\ t.heads \in [1 .. n -> S] /\ Entries(t) = E
      /\ \A j \in 1 .. n : /\ IsInjective(t.heads[j])
                           /\ \A e \in ToSet(t.heads[j]) : SlotOf(t, e.ptr) = j
  BY TableFacts DEF TableHolds
<1>2. u.heads = h /\ u.count = k /\ u = [heads |-> u.heads, count |-> u.count]
  BY <1>0 DEF WithChain
<1>3. c \in S
  OBVIOUS
<1> HIDE DEF S, n
<1>4. h \in [1 .. n -> S] /\ h[i] = c /\ \A j \in 1 .. n : j # i => h[j] = t.heads[j]
  BY <1>1, <1>3 DEF n
<1> HIDE DEF h
<1>5. h \in Seq(S) /\ Len(h) = n /\ h # <<>>
  <2>1. h \in Seq(S) /\ Len(h) = n
    BY <1>1, <1>4, IsASeq, LenProperties
  <2>2. n # 0
    BY <1>1 DEF n
  <2> QED BY <2>1, <2>2, EmptySeq
<1>6. \A e : SlotOf(u, e.ptr) = SlotOf(t, e.ptr)
  BY <1>2, <1>5 DEF SlotOf, n
<1>7. ASSUME NEW j \in 1 .. n
      PROVE  IsInjective(u.heads[j]) /\ \A e \in ToSet(u.heads[j]) : SlotOf(u, e.ptr) = j
  <2>1. CASE j = i
    BY <1>2, <1>4, <1>6, <2>1
  <2>2. CASE j # i
    BY <1>1, <1>2, <1>4, <1>6, <2>2
  <2> QED BY <2>1, <2>2
<1>8. ASSUME NEW e
      PROVE  e \in Entries(u) <=> e \in F
  <2>1. /\ e \in E <=> \E j \in 1 .. n : e \in ToSet(t.heads[j])
        /\ e \in Entries(u) <=> \E j \in 1 .. n : e \in ToSet(h[j])
    BY <1>1, <1>2, <1>5 DEF Entries, n
  <2>2. ASSUME NEW j \in 1 .. n, j # i, e \in ToSet(t.heads[j])
        PROVE  e \notin ToSet(t.heads[i])
    BY <1>1, <2>2 DEF n
  <2>3. i \in 1 .. n
    BY DEF n
  <2> QED BY <1>4, <2>1, <2>2, <2>3
<1>9. Entries(u) = F
  BY <1>8
<1> HIDE DEF F
<1>10. TableHolds(u, F)
  <2>1. u.heads \in Seq(Seq(Entry)) /\ Len(u.heads) = n /\ u.heads # <<>>
    BY <1>2, <1>5 DEF S
  <2> QED BY <1>2, <1>7, <1>9, <2>1 DEF TableHolds
<1> QED BY <1>0, <1>10 DEF F

\* Growing keeps the entries of a table and its counter.
LEMMA GrownTable ==
    ASSUME SqliteAssumption, InitSlotsAssumption, NEW t, NEW E, TableHolds(t, E),
           NEW u, u = Grow(t)
    PROVE  TableHolds(u, E) /\ u.count = t.count /\ Len(u.heads) > 0
<1> DEFINE n == Len(t.heads)
           S == Seq(Entry)
<1>1. /\ n \in Nat /\ t.heads \in [1 .. n -> S] /\ t.count \in Nat /\ E \subseteq Entry
      /\ t = [heads |-> t.heads, count |-> t.count]
      /\ \A e \in E : n > 0
  BY TableFacts DEF TableHolds
<1>2. CASE n = 0
  <2> DEFINE h == [s \in 1 .. InitSlots |-> <<>>]
  <2>1. u = [t EXCEPT !.heads = h]
    BY <1>2 DEF Grow
  <2>2. h \in [1 .. InitSlots -> S] /\ \A s \in 1 .. InitSlots : h[s] = <<>>
    OBVIOUS
  <2> HIDE DEF h, S
  <2>3. u.heads = h /\ u.count = t.count /\ u = [heads |-> u.heads, count |-> u.count]
    BY <1>1, <2>1
  <2>4. InitSlots \in Nat /\ InitSlots > 0
    BY InitSlotsAssumption
  <2>5. h \in Seq(S) /\ Len(h) = InitSlots
    BY <2>2, <2>4, IsASeq, LenProperties
  <2>6. IsInjective(<<>>) /\ ToSet(<<>>) = {}
    BY DEF IsInjective, ToSet
  <2>7. Entries(u) = {}
    BY <2>2, <2>3, <2>5, <2>6 DEF Entries
  <2>8. E = {}
    BY <1>1, <1>2
  <2>9. \A i \in 1 .. Len(u.heads) : u.heads[i] = <<>>
    BY <2>2, <2>3, <2>5
  <2>10. u.heads # <<>>
    BY <2>3, <2>4, <2>5, EmptySeq
  <2>11. TableHolds(u, E)
    BY <1>1, <2>3, <2>5, <2>6, <2>7, <2>8, <2>9, <2>10 DEF TableHolds, S
  <2> QED BY <2>3, <2>4, <2>5, <2>11
<1>3. CASE n # 0
  <2>1. PICK m \in Nat \ {0} : m = 2 * n
    BY <1>1, <1>3
  <2> DEFINE h == [s \in 1 .. m |-> Rehashed(t.heads[SlotIn(n, s - 1)], m, s)]
  <2>2. u = [t EXCEPT !.heads = h]
    BY <1>3, <2>1 DEF Grow
  <2>3. n \in Nat \ {0}
    BY <1>1, <1>3
  <2>4. ASSUME NEW s \in 1 .. m
        PROVE  /\ SlotIn(n, s - 1) \in 1 .. n
               /\ h[s] \in Seq(Entry) /\ IsInjective(h[s])
               /\ ToSet(h[s]) = {e \in ToSet(t.heads[SlotIn(n, s - 1)]) : SlotIn(m, e.ptr) = s}
    <3>1. SlotIn(n, s - 1) \in 1 .. n
      <4>1. s - 1 \in Nat
        OBVIOUS
      <4> HIDE DEF n
      <4> QED BY <2>1, <2>3, <4>1, SlotInDouble
    <3>2. PICK i \in 1 .. n : i = SlotIn(n, s - 1)
      BY <3>1
    <3>3. t.heads[i] \in Seq(Entry) /\ IsInjective(t.heads[i])
      BY <1>1 DEF TableHolds
    <3>4. h[s] = Rehashed(t.heads[i], m, s)
      BY <3>2
    <3> HIDE DEF h, n
    <3>5. PICK c : c = t.heads[i]
      OBVIOUS
    <3>6. /\ Rehashed(c, m, s) \in Seq(Entry) /\ IsInjective(Rehashed(c, m, s))
          /\ ToSet(Rehashed(c, m, s)) = {e \in ToSet(c) : SlotIn(m, e.ptr) = s}
      BY <3>3, <3>5, RehashedChain
    <3> QED BY <3>1, <3>2, <3>4, <3>5, <3>6
  <2>5. h \in [1 .. m -> S]
    BY <2>4
  <2> HIDE DEF h, S, n
  <2>6. u.heads = h /\ u.count = t.count /\ u = [heads |-> u.heads, count |-> u.count]
    BY <1>1, <2>2
  <2>7. h \in Seq(S) /\ Len(h) = m
    BY <2>1, <2>5, IsASeq, LenProperties
  <2>8. ASSUME NEW e \in Entry
        PROVE  /\ SlotIn(m, e.ptr) \in 1 .. m
               /\ SlotIn(n, SlotIn(m, e.ptr) - 1) = SlotIn(n, e.ptr)
    <3>1. PICK p \in Nat : p = e.ptr
      BY SqliteAssumption DEF Entry
    <3> QED BY <2>1, <2>3, <3>1, SlotInDouble
  <2>9. ASSUME NEW e \in Entry
        PROVE  e \in Entries(u) <=> e \in E
    <3>1. e \in Entries(u) <=> \E s \in 1 .. m : e \in ToSet(h[s])
      BY <2>6, <2>7 DEF Entries
    <3>2. (\E s \in 1 .. m : e \in ToSet(h[s])) <=> e \in ToSet(h[SlotIn(m, e.ptr)])
      BY <2>4, <2>8
    <3>3. e \in ToSet(h[SlotIn(m, e.ptr)]) <=> e \in ToSet(t.heads[SlotIn(n, e.ptr)])
      BY <2>4, <2>8
    <3>4. e \in E <=> e \in ToSet(t.heads[SlotIn(n, e.ptr)])
      BY <2>3, TableFacts DEF SlotOf, n
    <3> QED BY <3>1, <3>2, <3>3, <3>4
  <2>10. Entries(u) \subseteq Entry
    <3>1. ASSUME NEW s \in 1 .. m, NEW e \in ToSet(h[s]) PROVE e \in Entry
      BY <2>4, <3>1 DEF ToSet
    <3> QED BY <2>6, <2>7, <3>1 DEF Entries
  <2>11. Entries(u) = E
    BY <1>1, <2>9, <2>10
  <2>12. ASSUME NEW s \in 1 .. Len(u.heads)
         PROVE  /\ IsInjective(u.heads[s])
                /\ \A e \in ToSet(u.heads[s]) : SlotOf(u, e.ptr) = s
    BY <2>4, <2>6, <2>7 DEF SlotOf
  <2>13. u.heads # <<>>
    BY <2>1, <2>6, <2>7, EmptySeq
  <2>14. TableHolds(u, E)
    BY <1>1, <2>6, <2>7, <2>11, <2>12, <2>13 DEF TableHolds, S
  <2> QED BY <2>1, <2>6, <2>7, <2>14
<1> QED BY <1>2, <1>3

\* An entry is pushed on the head of its chain.
LEMMA PushedEntry ==
    ASSUME SqliteAssumption, NEW t, NEW E, TableHolds(t, E), Len(t.heads) > 0,
           NEW e \in Entry, e \notin E, NEW u, u = PushHead(t, e)
    PROVE  TableHolds(u, E \cup {e}) /\ u.count = t.count + 1
<1>1. PICK s \in 1 .. Len(t.heads) : s = SlotOf(t, e.ptr)
  BY TableFacts
<1>2. PICK c \in Seq(Entry) : c = t.heads[s]
  BY TableFacts
<1>3. PICK d : d = <<e>> \o c
  OBVIOUS
<1>4. /\ t = [heads |-> t.heads, count |-> t.count] /\ t.count \in Nat
      /\ IsInjective(c) /\ \A f \in ToSet(c) : SlotOf(t, f.ptr) = s
  BY <1>2 DEF TableHolds
<1>5. e \notin ToSet(c)
  BY <1>1, <1>2, TableFacts
<1>6. d \in Seq(Entry) /\ IsInjective(d) /\ ToSet(d) = ToSet(c) \cup {e}
  BY <1>3, <1>4, <1>5, PushedChain
<1>7. PICK k \in Nat : k = t.count + 1
  BY <1>4
<1>8. u = WithChain(t, s, d, k)
  <2>1. u = [t EXCEPT !.heads[s] = d, !.count = @ + 1]
    BY <1>1, <1>2, <1>3 DEF PushHead
  <2>2. u = [heads |-> [t.heads EXCEPT ![s] = d], count |-> t.count + 1]
    BY <1>4, <2>1
  <2> QED BY <1>7, <2>2 DEF WithChain
<1>9. \A f \in ToSet(d) : SlotOf(t, f.ptr) = s
  BY <1>1, <1>4, <1>6
<1>10. TableHolds(u, (E \ ToSet(t.heads[s])) \cup ToSet(d)) /\ u.count = k
  <2>1. /\ TableHolds(t, E) /\ s \in 1 .. Len(t.heads) /\ k \in Nat
        /\ d \in Seq(Entry) /\ IsInjective(d)
    BY <1>6
  <2>2. TableHolds(WithChain(t, s, d, k), (E \ ToSet(t.heads[s])) \cup ToSet(d))
    BY ONLY SqliteAssumption, <2>1, <1>9, ChainReplaced
  <2>3. u.count = k
    BY <1>8 DEF WithChain
  <2> QED BY ONLY <1>8, <2>2, <2>3
<1>11. ToSet(c) \subseteq E
  BY <1>2 DEF TableHolds, Entries
<1>12. (E \ ToSet(t.heads[s])) \cup ToSet(d) = E \cup {e}
  BY <1>2, <1>6, <1>11
<1> QED BY <1>7, <1>10, <1>12

\* A new value is registered, in a table that may have grown before.
LEMMA RegisteredEntry ==
    ASSUME SqliteAssumption, InitSlotsAssumption, NEW t, NEW E, TableHolds(t, E),
           NEW e \in Entry, e \notin E, NEW u, u = RegisterUserptrRef(t, e)
    PROVE  TableHolds(u, E \cup {e}) /\ u.count = t.count + 1
<1>1. t.count \in Nat /\ (t.heads = <<>> <=> Len(t.heads) = 0) /\ Len(t.heads) \in Nat
      /\ (t.heads = <<>> => t.count = 0)
  BY TableFacts DEF TableHolds
<1>2. PICK g : u = PushHead(g, e) /\ (g = Grow(t) \/ (g = t /\ Len(t.heads) > 0))
  <2>1. CASE t.heads = <<>>
    <3>1. t.count >= 0
      BY <1>1
    <3> QED BY <2>1, <3>1 DEF RegisterUserptrRef
  <2>2. CASE t.heads # <<>>
    <3>1. Len(t.heads) > 0
      BY <1>1, <2>2
    <3> QED BY <2>2, <3>1 DEF RegisterUserptrRef
  <2> QED BY <2>1, <2>2
<1>3. TableHolds(g, E) /\ g.count = t.count /\ Len(g.heads) > 0
  BY <1>2, GrownTable
<1> QED BY <1>2, <1>3, PushedEntry

\* A set of numbers has a least element.
LEMMA LeastElement ==
    ASSUME NEW T \in SUBSET Nat, T # {}
    PROVE  \E x \in T : \A y \in T : x <= y
<1> DEFINE R == OpToRel(<, Nat)
<1>1. IsWellFoundedOn(R, Nat)
  BY NatLessThanWellFounded
<1>2. \A x, y \in Nat : <<y, x>> \in R <=> y < x
  BY DEF OpToRel
<1> HIDE DEF R
<1>3. PICK x \in T : \A y \in T : ~(<<y, x>> \in R)
  BY <1>1, WFMin
<1>4. \A y \in T : x \in Nat /\ y \in Nat /\ ~(y < x)
  BY <1>2, <1>3
<1> QED BY <1>4

\* The first position of a set, or 0.
LEMMA FirstPosition ==
    ASSUME NEW n \in Nat, NEW I \in SUBSET (1 .. n), NEW k, k = IF I # {} THEN Min(I) ELSE 0
    PROVE  (k = 0 /\ I = {}) \/ (k \in 1 .. n /\ k \in I)
<1>1. I \in SUBSET Nat
  OBVIOUS
<1>2. CASE I = {}
  BY <1>2
<1>3. CASE I # {}
  BY <1>1, <1>3, LeastElement DEF Min
<1> QED BY <1>2, <1>3

\* What a search of a chain by value_id finds.
LEMMA FoundById ==
    ASSUME NEW c \in Seq(Entry), NEW id, NEW k, k = AtId(c, id)
    PROVE  \/ k = 0 /\ \A e \in ToSet(c) : e.id # id
           \/ k \in 1 .. Len(c) /\ c[k].id = id /\ c[k] \in ToSet(c)
<1> DEFINE I == {i \in 1 .. Len(c) : c[i].id = id}
<1>1. Len(c) \in Nat /\ DOMAIN c = 1 .. Len(c)
  BY LenProperties
<1>2. k = IF I # {} THEN Min(I) ELSE 0
  BY DEF AtId, SelectInSeq
<1>3. I \in SUBSET (1 .. Len(c))
  OBVIOUS
<1>4. (k = 0 /\ I = {}) \/ (k \in 1 .. Len(c) /\ k \in I)
  <2> HIDE DEF I
  <2> QED BY <1>1, <1>2, <1>3, FirstPosition
<1> QED BY <1>1, <1>4 DEF ToSet

\* What a search of a chain by address finds.
LEMMA FoundByPtr ==
    ASSUME NEW c \in Seq(Entry), NEW ptr, NEW k, k = AtPtr(c, ptr)
    PROVE  \/ k = 0 /\ \A e \in ToSet(c) : e.ptr # ptr
           \/ k \in 1 .. Len(c) /\ c[k].ptr = ptr /\ c[k] \in ToSet(c)
<1> DEFINE I == {i \in 1 .. Len(c) : c[i].ptr = ptr}
<1>1. Len(c) \in Nat /\ DOMAIN c = 1 .. Len(c)
  BY LenProperties
<1>2. k = IF I # {} THEN Min(I) ELSE 0
  BY DEF AtPtr, SelectInSeq
<1>3. I \in SUBSET (1 .. Len(c))
  OBVIOUS
<1>4. (k = 0 /\ I = {}) \/ (k \in 1 .. Len(c) /\ k \in I)
  <2> HIDE DEF I
  <2> QED BY <1>1, <1>2, <1>3, FirstPosition
<1> QED BY <1>1, <1>4 DEF ToSet

\* A value is taken out of the table.
LEMMA UnregisteredEntry ==
    ASSUME SqliteAssumption, NEW t, NEW E, TableHolds(t, E), t.count > 0,
           NEW e \in E, \A f \in E : f.id = e.id => f = e,
           NEW u, u = UnregisterUserptrRef(t, e.ptr, e.id)
    PROVE  TableHolds(u, E \ {e}) /\ u.count = t.count - 1
<1>1. e \in Entry /\ Len(t.heads) > 0
  BY TableFacts
<1>2. PICK s \in 1 .. Len(t.heads) : s = SlotOf(t, e.ptr)
  BY <1>1, TableFacts
<1>3. PICK c \in Seq(Entry) : c = t.heads[s]
  <2>1. t.heads \in [1 .. Len(t.heads) -> Seq(Entry)]
    BY TableFacts
  <2> QED BY <2>1
<1>4. /\ t = [heads |-> t.heads, count |-> t.count] /\ t.count \in Nat
      /\ IsInjective(c) /\ \A f \in ToSet(c) : SlotOf(t, f.ptr) = s
      /\ ToSet(c) \subseteq E
  BY <1>3 DEF TableHolds, Entries
<1>5. e \in ToSet(c)
  BY <1>1, <1>2, <1>3, TableFacts
<1>6. PICK k : k = AtId(c, e.id)
  OBVIOUS
<1>7. k # 0 /\ k \in 1 .. Len(c) /\ c[k] = e
  <2>1. \/ k = 0 /\ \A f \in ToSet(c) : f.id # e.id
        \/ k \in 1 .. Len(c) /\ c[k].id = e.id /\ c[k] \in ToSet(c)
    BY <1>6, FoundById
  <2> QED BY <1>4, <1>5, <2>1
<1>8. PICK d : d = RemoveAt(c, k)
  OBVIOUS
<1>9. d \in Seq(Entry) /\ IsInjective(d) /\ ToSet(d) = ToSet(c) \ {e}
  BY <1>4, <1>7, <1>8, RemovedAt, RemovedChain
<1>10. PICK m \in Nat : m = t.count - 1
  BY <1>4
<1>11. u = WithChain(t, s, d, m)
  <2>1. u = [t EXCEPT !.heads[s] = d, !.count = @ - 1]
    <3>1. t.count # 0
      BY <1>4
    <3> QED BY <1>2, <1>3, <1>6, <1>7, <1>8, <3>1 DEF UnregisterUserptrRef
  <2>2. u = [heads |-> [t.heads EXCEPT ![s] = d], count |-> t.count - 1]
    BY <1>4, <2>1
  <2> QED BY <1>10, <2>2 DEF WithChain
<1>12. \A f \in ToSet(d) : SlotOf(t, f.ptr) = s
  BY <1>4, <1>9
<1>13. TableHolds(u, (E \ ToSet(t.heads[s])) \cup ToSet(d)) /\ u.count = m
  <2>1. /\ TableHolds(t, E) /\ s \in 1 .. Len(t.heads) /\ m \in Nat
        /\ d \in Seq(Entry) /\ IsInjective(d)
    BY <1>9
  <2>2. TableHolds(WithChain(t, s, d, m), (E \ ToSet(t.heads[s])) \cup ToSet(d))
    BY ONLY SqliteAssumption, <2>1, <1>12, ChainReplaced
  <2>3. u.count = m
    BY <1>11 DEF WithChain
  <2> QED BY ONLY <1>11, <2>2, <2>3
<1>14. (E \ ToSet(t.heads[s])) \cup ToSet(d) = E \ {e}
  BY <1>3, <1>4, <1>5, <1>9
<1> QED BY <1>10, <1>13, <1>14

\* What the table has for an address.
LEMMA FoundValue ==
    ASSUME SqliteAssumption, NEW t, NEW E, TableHolds(t, E), t.count = 0 <=> E = {},
           NEW ptr \in Addrs, NEW id, id = FindUserPointerValue(t, ptr)
    PROVE  \/ id = 0 /\ \A e \in E : e.ptr # ptr
           \/ \E e \in E : e.ptr = ptr /\ e.id = id
<1>1. CASE t.count = 0
  BY <1>1 DEF FindUserPointerValue
<1>2. CASE t.count # 0
  <2>1. Len(t.heads) > 0
    BY <1>2, TableFacts
  <2>2. PICK s \in 1 .. Len(t.heads) : s = SlotOf(t, ptr)
    <3>1. PICK e \in Entry : e.ptr = ptr
      <4>1. [ptr |-> ptr, id |-> 0] \in Entry
        BY DEF Entry
      <4> QED BY <4>1
    <3> QED BY <2>1, <3>1, TableFacts
  <2>3. PICK c \in Seq(Entry) : c = t.heads[s]
    BY TableFacts
  <2>4. \A e \in E : e.ptr = ptr => e \in ToSet(c)
    BY <2>1, <2>2, <2>3, TableFacts
  <2>5. ToSet(c) \subseteq E
    BY <2>3 DEF TableHolds, Entries
  <2>6. PICK k : k = AtPtr(c, ptr)
    OBVIOUS
  <2>7. \/ k = 0 /\ \A e \in ToSet(c) : e.ptr # ptr
        \/ k \in 1 .. Len(c) /\ c[k].ptr = ptr /\ c[k] \in ToSet(c)
    BY <2>6, FoundByPtr
  <2>8. id = IF k = 0 THEN 0 ELSE c[k].id
    BY <1>2, <2>2, <2>3, <2>6 DEF FindUserPointerValue
  <2>9. CASE k = 0
    BY <2>4, <2>7, <2>8, <2>9
  <2>10. CASE k # 0
    BY <2>5, <2>7, <2>8, <2>10
  <2> QED BY <2>9, <2>10
<1> QED BY <1>1, <1>2

-----------------------------------------------------------------------------
(* Values.                                                                 *)

\* The live values are finitely many; there is an entry for each.
LEMMA LiveFinite ==
    ASSUME NEW vs \in Seq(UserPointer)
    PROVE  /\ Len(vs) \in Nat /\ LiveIn(vs) \subseteq 1 .. Len(vs) /\ IsFiniteSet(LiveIn(vs))
           /\ Cardinality(LiveIn(vs)) \in Nat
           /\ EntriesFor(vs) = {} <=> Cardinality(LiveIn(vs)) = 0
           /\ \A v \in 1 .. Len(vs) : vs[v] \in UserPointer
<1>1. Len(vs) \in Nat /\ LiveIn(vs) \subseteq 1 .. Len(vs)
  BY LenProperties DEF LiveIn
<1>2. IsFiniteSet(1 .. Len(vs))
  BY <1>1, FS_Interval
<1>3. IsFiniteSet(LiveIn(vs)) /\ Cardinality(LiveIn(vs)) \in Nat
  BY <1>1, <1>2, FS_Subset, FS_CardinalityType
<1>4. Cardinality(LiveIn(vs)) = 0 <=> LiveIn(vs) = {}
  BY <1>3, FS_EmptySet
<1>5. EntriesFor(vs) = {} <=> LiveIn(vs) = {}
  BY DEF EntriesFor
<1>6. \A v \in 1 .. Len(vs) : vs[v] \in UserPointer
  OBVIOUS
<1> QED BY <1>1, <1>3, <1>4, <1>5, <1>6

\* The values with a new one, and with one deleted
WithValue(vs, a) == Append(vs, [state |-> "live", ptr |-> a])
WithoutValue(vs, v) == [vs EXCEPT ![v] = [state |-> "deleted", ptr |-> Null]]

\* A new value.
LEMMA ValueAdded ==
    ASSUME NEW vs \in Seq(UserPointer), NEW a \in Addrs
    PROVE  LET n == Len(vs) + 1
               ws == WithValue(vs, a)
           IN /\ ws \in Seq(UserPointer) /\ n \in Nat /\ n # 0
              /\ n \notin LiveIn(vs) /\ LiveIn(ws) = LiveIn(vs) \cup {n}
              /\ ws[n].ptr = a /\ \A v \in LiveIn(vs) : ws[v] = vs[v]
              /\ [ptr |-> a, id |-> n] \notin EntriesFor(vs)
              /\ EntriesFor(ws) = EntriesFor(vs) \cup {[ptr |-> a, id |-> n]}
              /\ Cardinality(LiveIn(ws)) = Cardinality(LiveIn(vs)) + 1
<1>0. PICK n, ws : n = Len(vs) + 1 /\ ws = WithValue(vs, a)
  OBVIOUS
<1> DEFINE new == [state |-> "live", ptr |-> a]
           V == UserPointer
<1>1. new \in V /\ new.state = "live" /\ new.ptr = a
  BY DEF UserPointer
<1>2. vs \in Seq(V) /\ ws = Append(vs, new) /\ Len(vs) \in Nat
  BY <1>0, LenProperties DEF WithValue
<1> HIDE DEF new, V
<1>3. /\ ws \in Seq(V) /\ Len(ws) = n /\ ws[n] = new
      /\ \A v \in 1 .. Len(vs) : ws[v] = vs[v]
  BY <1>0, <1>1, <1>2
<1>4. n \in Nat /\ n # 0 /\ n \notin 1 .. Len(vs) /\ \A v : v \in 1 .. n <=> v \in 1 .. Len(vs) \/ v = n
  BY <1>0, <1>2
<1>5. n \notin LiveIn(vs) /\ LiveIn(ws) = LiveIn(vs) \cup {n} /\ LiveIn(vs) \subseteq 1 .. Len(vs)
  BY <1>1, <1>3, <1>4 DEF LiveIn
<1>6. ws[n].ptr = a /\ \A v \in LiveIn(vs) : ws[v] = vs[v]
  BY <1>1, <1>3, <1>5
<1>7. [ptr |-> a, id |-> n] \notin EntriesFor(vs)
  BY <1>5 DEF EntriesFor
<1>8. EntriesFor(ws) = EntriesFor(vs) \cup {[ptr |-> a, id |-> n]}
  <2>1. ASSUME NEW e
        PROVE  e \in EntriesFor(ws) <=> e \in EntriesFor(vs) \cup {[ptr |-> a, id |-> n]}
    <3>1. e \in EntriesFor(ws) <=> \E v \in LiveIn(ws) : e = [ptr |-> ws[v].ptr, id |-> v]
      BY DEF EntriesFor
    <3>2. e \in EntriesFor(vs) <=> \E v \in LiveIn(vs) : e = [ptr |-> vs[v].ptr, id |-> v]
      BY DEF EntriesFor
    <3> QED BY <1>5, <1>6, <3>1, <3>2
  <2> QED BY <2>1
<1>9. Cardinality(LiveIn(ws)) = Cardinality(LiveIn(vs)) + 1
  BY <1>5, LiveFinite, FS_AddElement
<1> QED BY <1>3, <1>4, <1>5, <1>6, <1>7, <1>8, <1>9, <1>0 DEF V

\* A value is deleted.
LEMMA ValueDeleted ==
    ASSUME NEW vs \in Seq(UserPointer), NEW v \in LiveIn(vs)
    PROVE  LET ws == WithoutValue(vs, v)
           IN /\ ws \in Seq(UserPointer)
              /\ LiveIn(ws) = LiveIn(vs) \ {v} /\ \A w \in LiveIn(ws) : ws[w] = vs[w]
              /\ [ptr |-> vs[v].ptr, id |-> v] \in EntriesFor(vs)
              /\ EntriesFor(ws) = EntriesFor(vs) \ {[ptr |-> vs[v].ptr, id |-> v]}
              /\ Cardinality(LiveIn(ws)) = Cardinality(LiveIn(vs)) - 1
<1>0. PICK ws : ws = WithoutValue(vs, v)
  OBVIOUS
<1> DEFINE old == [state |-> "deleted", ptr |-> Null]
           V == UserPointer
           n == Len(vs)
<1>1. old \in V /\ old.state # "live"
  BY DEF UserPointer
<1>2. n \in Nat /\ v \in 1 .. n /\ vs \in [1 .. n -> V] /\ ws = [vs EXCEPT ![v] = old]
  BY <1>0, LiveFinite, LenProperties DEF WithoutValue
<1> HIDE DEF old, V, n
<1>3. ws \in [1 .. n -> V] /\ ws[v] = old /\ \A w \in 1 .. n : w # v => ws[w] = vs[w]
  BY <1>1, <1>2
<1>4. ws \in Seq(V) /\ Len(ws) = n
  BY <1>2, <1>3, IsASeq, LenProperties
<1>5. LiveIn(ws) = LiveIn(vs) \ {v} /\ \A w \in LiveIn(ws) : ws[w] = vs[w]
  BY <1>1, <1>2, <1>3, <1>4 DEF LiveIn, n
<1>6. [ptr |-> vs[v].ptr, id |-> v] \in EntriesFor(vs)
  BY DEF EntriesFor
<1>7. EntriesFor(ws) = EntriesFor(vs) \ {[ptr |-> vs[v].ptr, id |-> v]}
  <2>1. ASSUME NEW e
        PROVE  e \in EntriesFor(ws) <=> e \in EntriesFor(vs) \ {[ptr |-> vs[v].ptr, id |-> v]}
    <3>1. e \in EntriesFor(ws) <=> \E w \in LiveIn(ws) : e = [ptr |-> ws[w].ptr, id |-> w]
      BY DEF EntriesFor
    <3>2. e \in EntriesFor(vs) <=> \E w \in LiveIn(vs) : e = [ptr |-> vs[w].ptr, id |-> w]
      BY DEF EntriesFor
    <3>3. ASSUME NEW w \in LiveIn(ws), e = [ptr |-> ws[w].ptr, id |-> w]
          PROVE  w \in LiveIn(vs) /\ e = [ptr |-> vs[w].ptr, id |-> w] /\ e # [ptr |-> vs[v].ptr, id |-> v]
      <4>1. w \in LiveIn(vs) /\ w # v /\ ws[w] = vs[w]
        BY <1>5
      <4>2. e.id = w /\ [ptr |-> vs[v].ptr, id |-> v].id = v
        BY <3>3
      <4> QED BY <3>3, <4>1, <4>2
    <3>4. ASSUME NEW w \in LiveIn(vs), e = [ptr |-> vs[w].ptr, id |-> w], e # [ptr |-> vs[v].ptr, id |-> v]
          PROVE  w \in LiveIn(ws) /\ e = [ptr |-> ws[w].ptr, id |-> w]
      <4>1. w # v
        BY <3>4
      <4> QED BY <1>5, <3>4, <4>1
    <3> QED BY ONLY <3>1, <3>2, <3>3, <3>4
  <2> QED BY <2>1
<1>8. Cardinality(LiveIn(ws)) = Cardinality(LiveIn(vs)) - 1
  BY <1>5, LiveFinite, FS_RemoveElement
<1> QED BY <1>0, <1>4, <1>5, <1>6, <1>7, <1>8 DEF V

-----------------------------------------------------------------------------
(* Objects and their lists.                                                *)

\* The fields of an object.
LEMMA ObjectFields ==
    ASSUME NEW o \in [Addrs -> SqliteObject], NEW a \in Addrs
    PROVE  /\ o[a] \in SqliteObject /\ o[a].kind \in {"free", "conn", "stmt"}
           /\ o[a].owner \in Addrs \cup {Null} /\ o[a].list \in Seq(Addrs)
           /\ ToSet(o[a].list) \subseteq Addrs
<1>1. o[a] \in SqliteObject
  OBVIOUS
<1>2. /\ o[a].kind \in {"free", "conn", "stmt"} /\ o[a].owner \in Addrs \cup {Null}
      /\ o[a].list \in Seq(Addrs)
  BY <1>1 DEF SqliteObject
<1>3. ToSet(o[a].list) \subseteq Addrs
  BY <1>2 DEF ToSet
<1> QED BY <1>1, <1>2, <1>3

\* The empty list.
LEMMA EmptyList == <<>> \in Seq(Addrs) /\ IsInjective(<<>>) /\ ToSet(<<>>) = {}
BY DEF IsInjective, ToSet

\* What the constructors make.
LEMMA ConstructedFields ==
    ASSUME NEW k \in {"free", "conn", "stmt"}, NEW w \in Addrs \cup {Null}, NEW h \in BOOLEAN, NEW n \in Nat,
           NEW c, c = Constructed(k, w, h, n)
    PROVE  /\ c \in SqliteObject /\ c.kind = k /\ c.owner = w /\ c.stmt = h /\ c.list = <<>> /\ c.val = n
<1>1. PICK e \in Seq(Addrs) : e = <<>>
  BY EmptyList
<1>2. c = [kind |-> k, owner |-> w, stmt |-> h, list |-> e, code |-> "ok", val |-> n]
  BY <1>1 DEF Constructed
<1>3. c \in SqliteObject
  <2> DEFINE L == Seq(Addrs)
  <2>1. e \in L
    BY <1>1
  <2>2. SqliteObject = [kind : {"free", "conn", "stmt"}, owner : Addrs \cup {Null}, stmt : BOOLEAN,
                        list : L, code : {"ok", "row", "done", "error"}, val : Nat]
    BY DEF SqliteObject
  <2> HIDE DEF L
  <2> QED BY <1>2, <2>1, <2>2
<1> QED BY <1>1, <1>2, <1>3

\* No statement belongs to an address that holds no connection.
LEMMA NotOwned ==
    ASSUME SqliteAssumption, NEW o, Attached(o), NEW c \in Addrs, o[c].kind # "conn", NEW s \in Addrs
    PROVE  ~(o[s].kind = "stmt" /\ o[s].owner = c)
<1> SUFFICES ASSUME o[s].kind = "stmt", o[s].owner = c
             PROVE  FALSE
  OBVIOUS
<1>1. o[s].owner # Null
  BY SqliteAssumption DEF Null
<1>2. o[o[s].owner].kind = "conn"
  BY <1>1 DEF Attached
<1> QED BY <1>2

\* The objects with a connection, with a statement, and with the result of a step
WithConnection(o, a, n) == [o EXCEPT ![a] = Constructed("conn", Null, FALSE, n)]
WithStatement(o, a, c, h, n) == AddStatement([o EXCEPT ![a] = Constructed("stmt", c, h, n)], c, a)
WithCode(o, s, code) == [o EXCEPT ![s].code = code]

\* A connection is made at a free address.
LEMMA ConnectionMade ==
    ASSUME SqliteAssumption, NEW o \in [Addrs -> SqliteObject], Attached(o),
           NEW a \in Addrs, o[a].kind = "free", NEW n \in Nat,
           NEW p, p = WithConnection(o, a, n)
    PROVE  /\ p \in [Addrs -> SqliteObject] /\ Attached(p)
           /\ p[a].kind # "free" /\ p[a].val = n
           /\ \A b \in Addrs \ {a} : p[b].kind = o[b].kind /\ p[b].val = o[b].val
<1> DEFINE c == Constructed("conn", Null, FALSE, n)
<1>1. PICK x : x = c
  OBVIOUS
<1>2. /\ x \in SqliteObject /\ x.kind = "conn" /\ x.val = n /\ x.list = <<>>
  <2>1. ASSUME NEW h \in BOOLEAN, NEW y, y = Constructed("conn", Null, h, n)
        PROVE  y \in SqliteObject /\ y.kind = "conn" /\ y.val = n /\ y.list = <<>>
    <3>1. PICK k \in {"free", "conn", "stmt"}, w \in Addrs \cup {Null} : k = "conn" /\ w = Null
      OBVIOUS
    <3>2. y = Constructed(k, w, h, n)
      BY <2>1, <3>1
    <3>3. /\ y \in SqliteObject /\ y.kind = k /\ y.owner = w /\ y.stmt = h /\ y.list = <<>> /\ y.val = n
      BY ONLY <3>2, h \in BOOLEAN, n \in Nat, k \in {"free", "conn", "stmt"}, w \in Addrs \cup {Null}, ConstructedFields
    <3> QED BY <3>1, <3>3
  <2>2. x = Constructed("conn", Null, FALSE, n)
    BY <1>1
  <2> QED BY <2>1, <2>2, Zenon
<1> HIDE DEF c
<1>3. /\ p \in [Addrs -> SqliteObject] /\ p[a] = x /\ \A b \in Addrs : b # a => p[b] = o[b]
  <2>1. p = [o EXCEPT ![a] = x]
    BY <1>1 DEF c, WithConnection
  <2> QED BY <1>2, <2>1
<1>4. Attached(p)
  <2>1. ASSUME NEW d \in Addrs, p[d].kind = "conn"
        PROVE  /\ \A s \in Addrs : s \in ToSet(p[d].list) <=> p[s].kind = "stmt" /\ p[s].owner = d
               /\ IsInjective(p[d].list)
    <3>1. CASE d = a
      <4>1. \A s \in Addrs : ~(o[s].kind = "stmt" /\ o[s].owner = a)
        BY NotOwned
      <4>2. \A s \in Addrs : ~(p[s].kind = "stmt" /\ p[s].owner = a)
        BY <1>2, <1>3, <4>1
      <4> QED BY <1>2, <1>3, <3>1, <4>2, EmptyList
    <3>2. CASE d # a
      <4>1. p[d] = o[d] /\ o[d].kind = "conn"
        BY <1>3, <2>1, <3>2
      <4>2. /\ \A s \in Addrs : s \in ToSet(o[d].list) <=> o[s].kind = "stmt" /\ o[s].owner = d
            /\ IsInjective(o[d].list)
        BY <4>1 DEF Attached
      <4>3. \A s \in Addrs : (p[s].kind = "stmt" /\ p[s].owner = d) <=> (o[s].kind = "stmt" /\ o[s].owner = d)
        <5> TAKE s \in Addrs
        <5>1. CASE s = a
          BY <1>2, <1>3, <5>1
        <5>2. CASE s # a
          BY <1>3, <5>2
        <5> QED BY <5>1, <5>2
      <4> QED BY <4>1, <4>2, <4>3
    <3> QED BY <3>1, <3>2
  <2>2. ASSUME NEW s \in Addrs, p[s].kind = "stmt"
        PROVE  /\ p[s].owner # Null => p[p[s].owner].kind = "conn"
               /\ p[s].stmt => p[s].owner # Null
    <3>1. s # a /\ p[s] = o[s] /\ o[s].owner \in Addrs \cup {Null}
      BY <1>2, <1>3, <2>2, ObjectFields
    <3>2. /\ o[s].owner # Null => o[o[s].owner].kind = "conn"
          /\ o[s].stmt => o[s].owner # Null
      BY <2>2, <3>1 DEF Attached
    <3>3. \A d \in Addrs : o[d].kind = "conn" => p[d].kind = "conn"
      BY <1>2, <1>3
    <3> QED BY <3>1, <3>2, <3>3
  <2> QED BY <2>1, <2>2 DEF Attached
<1> QED BY <1>2, <1>3, <1>4

\* A statement is made at a free address, for a connection.
LEMMA StatementMade ==
    ASSUME SqliteAssumption, NEW o \in [Addrs -> SqliteObject], Attached(o),
           NEW a \in Addrs, o[a].kind = "free", NEW n \in Nat,
           NEW c \in Addrs, o[c].kind = "conn", NEW h \in BOOLEAN,
           NEW p, p = WithStatement(o, a, c, h, n)
    PROVE  /\ p \in [Addrs -> SqliteObject] /\ Attached(p)
           /\ p[a].kind # "free" /\ p[a].val = n
           /\ \A b \in Addrs \ {a} : p[b].kind = o[b].kind /\ p[b].val = o[b].val
<1> DEFINE s == Constructed("stmt", c, h, n)
           l == <<a>> \o o[c].list
<1>1. PICK x : x = s
  OBVIOUS
<1>2. /\ x \in SqliteObject /\ x.kind = "stmt" /\ x.val = n /\ x.owner = c
  BY <1>1, ConstructedFields
<1>3. a # c /\ c # Null
  BY SqliteAssumption DEF Null
<1>4. l \in Seq(Addrs) /\ IsInjective(l) /\ ToSet(l) = ToSet(o[c].list) \cup {a}
  <2>1. PICK d \in Seq(Addrs) : d = o[c].list
    BY ObjectFields
  <2>2. IsInjective(d) /\ a \notin ToSet(d)
    BY <2>1 DEF Attached
  <2> QED BY <2>1, <2>2, PushedChain
<1> HIDE DEF s, l
<1>5. PICK q : q = [o[c] EXCEPT !.list = l]
  OBVIOUS
<1>6. q \in SqliteObject /\ q.list = l /\ q.kind = "conn" /\ q.val = o[c].val /\ o[c].kind = "conn"
  <2>1. o[c] \in SqliteObject
    OBVIOUS
  <2> QED BY <1>4, <1>5, <2>1 DEF SqliteObject
<1>7. PICK r : r = [o EXCEPT ![a] = x] /\ p = [r EXCEPT ![c] = q]
  <2>1. PICK r : r = [o EXCEPT ![a] = x]
    OBVIOUS
  <2>2. p = [r EXCEPT ![c].list = <<a>> \o @]
    BY <1>1, <2>1 DEF WithStatement, AddStatement, s
  <2>3. r[c] = o[c]
    BY <1>3, <2>1
  <2>4. p = [r EXCEPT ![c] = [r[c] EXCEPT !.list = <<a>> \o r[c].list]]
    BY <2>2
  <2>5. [r[c] EXCEPT !.list = <<a>> \o r[c].list] = q
    BY <1>5, <2>3 DEF l
  <2> QED BY <2>1, <2>4, <2>5
<1>8. /\ p \in [Addrs -> SqliteObject] /\ p[a] = x /\ p[c] = q
      /\ \A b \in Addrs : b # a /\ b # c => p[b] = o[b]
  BY <1>2, <1>3, <1>6, <1>7
<1>9. Attached(p)
  <2>1. ASSUME NEW d \in Addrs, p[d].kind = "conn"
        PROVE  /\ \A b \in Addrs : b \in ToSet(p[d].list) <=> p[b].kind = "stmt" /\ p[b].owner = d
               /\ IsInjective(p[d].list)
    <3>1. d # a
      BY <1>2, <1>8, <2>1
    <3>2. o[d].kind = "conn"
      BY <1>6, <1>8, <2>1, <3>1
    <3>3. /\ \A b \in Addrs : b \in ToSet(o[d].list) <=> o[b].kind = "stmt" /\ o[b].owner = d
          /\ IsInjective(o[d].list)
      BY <3>2 DEF Attached
    <3>4. \A b \in Addrs \ {a} : (p[b].kind = "stmt" /\ p[b].owner = d) <=> (o[b].kind = "stmt" /\ o[b].owner = d)
      BY <1>6, <1>8
    <3>5. CASE d = c
      <4>1. \A b \in Addrs : b \in ToSet(p[d].list) <=> b = a \/ b \in ToSet(o[d].list)
        BY <1>4, <1>6, <1>8, <3>5
      <4>2. p[a].kind = "stmt" /\ p[a].owner = d
        BY <1>2, <1>8, <3>5
      <4>3. IsInjective(p[d].list)
        BY <1>4, <1>6, <1>8, <3>5
      <4>4. ASSUME NEW b \in Addrs
            PROVE  b \in ToSet(p[d].list) <=> p[b].kind = "stmt" /\ p[b].owner = d
        <5>1. CASE b = a
          BY <4>1, <4>2, <5>1
        <5>2. CASE b # a
          BY <3>3, <3>4, <4>1, <5>2
        <5> QED BY <5>1, <5>2
      <4> QED BY <4>3, <4>4
    <3>6. CASE d # c
      <4>1. p[d] = o[d]
        BY <1>8, <3>1, <3>6
      <4>2. ~(p[a].kind = "stmt" /\ p[a].owner = d) /\ ~(o[a].kind = "stmt" /\ o[a].owner = d)
        BY <1>2, <1>8, <3>6
      <4>3. ASSUME NEW b \in Addrs
            PROVE  b \in ToSet(p[d].list) <=> p[b].kind = "stmt" /\ p[b].owner = d
        <5>1. CASE b = a
          BY <3>3, <4>1, <4>2, <5>1
        <5>2. CASE b # a
          BY <3>3, <3>4, <4>1, <5>2
        <5> QED BY <5>1, <5>2
      <4> QED BY <3>3, <4>1, <4>3
    <3> QED BY <3>5, <3>6
  <2>2. ASSUME NEW b \in Addrs, p[b].kind = "stmt"
        PROVE  /\ p[b].owner # Null => p[p[b].owner].kind = "conn"
               /\ p[b].stmt => p[b].owner # Null
    <3>1. CASE b = a
      BY <1>2, <1>3, <1>6, <1>8, <3>1
    <3>2. CASE b # a
      <4>1. b # c /\ p[b] = o[b]
        BY <1>6, <1>8, <2>2, <3>2
      <4>2. o[b].kind = "stmt" /\ o[b].owner \in Addrs \cup {Null}
        BY <2>2, <4>1, ObjectFields
      <4>3. o[b].owner # Null => o[o[b].owner].kind = "conn"
        BY <4>2 DEF Attached
      <4>4. o[b].stmt => o[b].owner # Null
        BY <4>2 DEF Attached
      <4>5. o[b].owner # Null => p[o[b].owner].kind = "conn"
        <5>1. \A d \in Addrs : o[d].kind = "conn" => p[d].kind = "conn"
          BY <1>6, <1>8
        <5> QED BY <4>2, <4>3, <5>1
      <4> QED BY <4>1, <4>4, <4>5
    <3> QED BY <3>1, <3>2
  <2> QED BY <2>1, <2>2 DEF Attached
<1>10. \A b \in Addrs \ {a} : p[b].kind = o[b].kind /\ p[b].val = o[b].val
  BY <1>6, <1>8
<1> QED BY <1>2, <1>8, <1>9, <1>10

\* A step of a statement is remembered.
LEMMA CodeSet ==
    ASSUME NEW o \in [Addrs -> SqliteObject], Attached(o), NEW s \in Addrs,
           NEW code \in {"ok", "row", "done", "error"},
           NEW p, p = WithCode(o, s, code)
    PROVE  /\ p \in [Addrs -> SqliteObject] /\ Attached(p)
           /\ \A b \in Addrs : p[b].kind = o[b].kind /\ p[b].val = o[b].val
<1>1. PICK q : q = [o[s] EXCEPT !.code = code]
  OBVIOUS
<1>2. /\ q \in SqliteObject /\ q.kind = o[s].kind /\ q.owner = o[s].owner /\ q.stmt = o[s].stmt
      /\ q.list = o[s].list /\ q.val = o[s].val
  <2> DEFINE L == Seq(Addrs)
  <2>1. SqliteObject = [kind : {"free", "conn", "stmt"}, owner : Addrs \cup {Null}, stmt : BOOLEAN,
                        list : L, code : {"ok", "row", "done", "error"}, val : Nat]
    BY DEF SqliteObject
  <2>2. PICK x \in SqliteObject : x = o[s]
    OBVIOUS
  <2> HIDE DEF L
  <2> QED BY <1>1, <2>1, <2>2
<1>3. p = [o EXCEPT ![s] = q]
  BY <1>1 DEF WithCode
<1>4. p \in [Addrs -> SqliteObject]
  BY <1>2, <1>3
<1>5. \A b \in Addrs : /\ p[b].kind = o[b].kind /\ p[b].owner = o[b].owner /\ p[b].stmt = o[b].stmt
                      /\ p[b].list = o[b].list /\ p[b].val = o[b].val
  BY <1>2, <1>3
<1>6. Attached(p)
  <2>1. ASSUME NEW d \in Addrs, p[d].kind = "conn"
        PROVE  /\ \A b \in Addrs : b \in ToSet(p[d].list) <=> p[b].kind = "stmt" /\ p[b].owner = d
               /\ IsInjective(p[d].list)
    BY <1>5, <2>1 DEF Attached
  <2>2. ASSUME NEW b \in Addrs, p[b].kind = "stmt"
        PROVE  /\ p[b].owner # Null => p[p[b].owner].kind = "conn"
               /\ p[b].stmt => p[b].owner # Null
    <3>1. o[b].kind = "stmt" /\ o[b].owner \in Addrs \cup {Null}
      BY <1>5, <2>2, ObjectFields
    <3>2. o[b].owner # Null => o[b].owner \in Addrs /\ o[o[b].owner].kind = "conn"
      BY <3>1 DEF Attached
    <3>3. p[b].owner # Null => p[p[b].owner].kind = "conn"
      BY <1>5, <3>2
    <3>4. p[b].stmt => p[b].owner # Null
      BY <1>5, <3>1 DEF Attached
    <3> QED BY <3>3, <3>4
  <2> QED BY <2>1, <2>2 DEF Attached
<1> QED BY <1>4, <1>5, <1>6

\* A statement that is taken out of a list.
LEMMA TakenOut ==
    ASSUME NEW c \in Seq(Addrs), IsInjective(c), NEW s \in ToSet(c)
    PROVE  /\ RemoveFirst(c, s) \in Seq(Addrs) /\ IsInjective(RemoveFirst(c, s))
           /\ ToSet(RemoveFirst(c, s)) = ToSet(c) \ {s}
<1> DEFINE I == {i \in 1 .. Len(c) : c[i] = s}
<1>1. PICK k : k = IF I # {} THEN Min(I) ELSE 0
  OBVIOUS
<1>2. /\ Len(c) \in Nat /\ I # {} /\ I \in SUBSET (1 .. Len(c))
      /\ \E i \in 1 .. Len(c) : c[i] = s
  BY LenProperties DEF ToSet
<1>3. k \in 1 .. Len(c) /\ c[k] = s
  <2>1. (k = 0 /\ I = {}) \/ (k \in 1 .. Len(c) /\ k \in I)
    <3> HIDE DEF I
    <3> QED BY <1>1, <1>2, FirstPosition
  <2> QED BY <1>2, <2>1
<1>4. RemoveFirst(c, s) = RemoveAt(c, k)
  BY <1>1, <1>2 DEF RemoveFirst, SelectInSeq
<1> QED BY <1>3, <1>4, RemovedAt, RemovedChain

\* Free memory.
LEMMA FreeFields == Free \in SqliteObject /\ Free.kind = "free"
<1>1. ASSUME NEW h \in BOOLEAN, NEW y, y = Constructed("free", Null, h, 0)
      PROVE  y \in SqliteObject /\ y.kind = "free"
  BY <1>1, ConstructedFields
<1>2. PICK y : y = Free
  OBVIOUS
<1>3. y = Constructed("free", Null, FALSE, 0)
  BY <1>2 DEF Free
<1> QED BY <1>1, <1>2, <1>3, Zenon

\* ~SqliteStatement.
LEMMA StatementDestroyed ==
    ASSUME SqliteAssumption, NEW o \in [Addrs -> SqliteObject], Attached(o),
           NEW s \in Addrs, o[s].kind = "stmt", NEW p, p = DestroyStatement(o, s)
    PROVE  /\ p \in [Addrs -> SqliteObject] /\ Attached(p) /\ p[s].kind = "free"
           /\ \A b \in Addrs \ {s} : p[b].kind = o[b].kind /\ p[b].val = o[b].val
<1>1. PICK x \in SqliteObject : x = Free /\ x.kind = "free"
  BY FreeFields
<1>2. PICK w \in Addrs \cup {Null} : w = o[s].owner
  BY ObjectFields
<1>3. /\ p \in [Addrs -> SqliteObject] /\ p[s] = x
      /\ \A b \in Addrs \ {s} : p[b].kind = o[b].kind /\ p[b].val = o[b].val
      /\ \A b \in Addrs \ {s} : p[b].owner = o[b].owner /\ p[b].stmt = o[b].stmt
      /\ \A b \in Addrs \ {s} : b # w => p[b].list = o[b].list
      /\ w # Null => /\ w # s /\ IsInjective(p[w].list)
                     /\ ToSet(p[w].list) = ToSet(o[w].list) \ {s}
  <2>1. CASE w = Null
    <3>1. p = [o EXCEPT ![s] = x]
      BY <1>1, <1>2, <2>1 DEF DestroyStatement, Freed
    <3> QED BY <2>1, <3>1
  <2>2. CASE w # Null
    <3>1. w \in Addrs /\ o[w].kind = "conn" /\ w # s
      BY <1>2, <2>2 DEF Attached
    <3>2. PICK d \in Seq(Addrs) : d = o[w].list
      BY <3>1, ObjectFields
    <3>3. IsInjective(d) /\ s \in ToSet(d)
      BY <1>2, <3>1, <3>2 DEF Attached
    <3>4. PICK l \in Seq(Addrs) : /\ l = RemoveFirst(d, s) /\ IsInjective(l)
                                  /\ ToSet(l) = ToSet(d) \ {s}
      BY <3>3, TakenOut
    <3>5. PICK q : q = [o[w] EXCEPT !.list = l]
      OBVIOUS
    <3>6. /\ q \in SqliteObject /\ q.list = l /\ q.kind = o[w].kind /\ q.val = o[w].val
          /\ q.owner = o[w].owner /\ q.stmt = o[w].stmt
      <4> DEFINE L == Seq(Addrs)
      <4>1. SqliteObject = [kind : {"free", "conn", "stmt"}, owner : Addrs \cup {Null}, stmt : BOOLEAN,
                            list : L, code : {"ok", "row", "done", "error"}, val : Nat]
        BY DEF SqliteObject
      <4>2. PICK y \in SqliteObject : y = o[w]
        BY <3>1
      <4>3. l \in L
        OBVIOUS
      <4> HIDE DEF L
      <4> QED BY <3>5, <4>1, <4>2, <4>3
    <3>7. PICK r : r = RemoveStatement(o, s)
      OBVIOUS
    <3>8. r = [o EXCEPT ![w].list = RemoveFirst(@, s), ![s].owner = Null, ![s].stmt = FALSE]
      BY <1>2, <3>7 DEF RemoveStatement
    <3>9. DOMAIN r = Addrs /\ r[w] = q /\ \A b \in Addrs : b # w /\ b # s => r[b] = o[b]
      <4>1. PICK m : m = [o EXCEPT ![w].list = RemoveFirst(@, s)]
        OBVIOUS
      <4>2. m = [o EXCEPT ![w] = q]
        BY <3>2, <3>4, <3>5, <4>1
      <4>3. r = [m EXCEPT ![s].owner = Null, ![s].stmt = FALSE]
        BY <3>8, <4>1
      <4>4. DOMAIN m = Addrs /\ m[w] = q /\ \A b \in Addrs : b # w => m[b] = o[b]
        BY <3>1, <4>2
      <4>5. DOMAIN r = DOMAIN m /\ \A b \in Addrs : b # s => r[b] = m[b]
        BY <4>3, <4>4
      <4> QED BY <3>1, <4>4, <4>5
    <3>10. p = [r EXCEPT ![s] = x]
      BY <1>1, <1>2, <2>2, <3>7 DEF DestroyStatement, Freed
    <3>11. /\ DOMAIN p = Addrs /\ p[s] = x /\ p[w] = q
           /\ \A b \in Addrs : b # w /\ b # s => p[b] = o[b]
      BY <3>1, <3>9, <3>10
    <3>12. p = [b \in Addrs |-> p[b]] /\ \A b \in Addrs : p[b] \in SqliteObject
      BY <3>6, <3>10, <3>11
    <3> QED BY <3>1, <3>2, <3>4, <3>6, <3>11, <3>12
  <2> QED BY <2>1, <2>2
<1>4. Attached(p)
  <2>1. ASSUME NEW d \in Addrs, p[d].kind = "conn"
        PROVE  /\ \A b \in Addrs : b \in ToSet(p[d].list) <=> p[b].kind = "stmt" /\ p[b].owner = d
               /\ IsInjective(p[d].list)
    <3>1. d # s /\ o[d].kind = "conn" /\ d # Null
      BY <1>1, <1>3, <2>1, SqliteAssumption DEF Null
    <3>2. /\ \A b \in Addrs : b \in ToSet(o[d].list) <=> o[b].kind = "stmt" /\ o[b].owner = d
          /\ IsInjective(o[d].list)
      BY <3>1 DEF Attached
    <3>3. /\ IsInjective(p[d].list)
          /\ \A b \in Addrs : b \in ToSet(p[d].list) <=> b \in ToSet(o[d].list) /\ b # s
      <4>1. CASE d = w
        BY <1>3, <3>1, <4>1
      <4>2. CASE d # w
        <5>1. p[d].list = o[d].list
          BY <1>3, <3>1, <4>2
        <5>2. s \notin ToSet(o[d].list)
          BY <1>2, <3>2, <4>2
        <5> QED BY <3>2, <5>1, <5>2
      <4> QED BY <4>1, <4>2
    <3>4. ASSUME NEW b \in Addrs
          PROVE  b \in ToSet(p[d].list) <=> p[b].kind = "stmt" /\ p[b].owner = d
      <4>1. CASE b = s
        BY <1>1, <1>3, <3>3, <4>1
      <4>2. CASE b # s
        BY <1>3, <3>2, <3>3, <4>2
      <4> QED BY <4>1, <4>2
    <3> QED BY <3>3, <3>4
  <2>2. ASSUME NEW b \in Addrs, p[b].kind = "stmt"
        PROVE  /\ p[b].owner # Null => p[p[b].owner].kind = "conn"
               /\ p[b].stmt => p[b].owner # Null
    <3>1. b # s /\ o[b].kind = "stmt" /\ o[b].owner \in Addrs \cup {Null}
      BY <1>1, <1>3, <2>2, ObjectFields
    <3>2. p[b].owner = o[b].owner /\ p[b].stmt = o[b].stmt
      BY <1>3, <3>1
    <3>3. o[b].stmt => o[b].owner # Null
      BY <3>1 DEF Attached
    <3>4. o[b].owner # Null => o[o[b].owner].kind = "conn"
      BY <3>1 DEF Attached
    <3>5. o[b].owner # Null => p[o[b].owner].kind = "conn"
      BY <1>3, <3>1, <3>4
    <3> QED BY <3>2, <3>3, <3>5
  <2> QED BY <2>1, <2>2 DEF Attached
<1> QED BY <1>1, <1>3, <1>4

\* ~Sqlite.
LEMMA ConnectionDestroyed ==
    ASSUME SqliteAssumption, NEW o \in [Addrs -> SqliteObject], Attached(o),
           NEW c \in Addrs, o[c].kind = "conn", NEW p, p = DestroyConnection(o, c)
    PROVE  /\ p \in [Addrs -> SqliteObject] /\ Attached(p) /\ p[c].kind = "free"
           /\ \A b \in Addrs \ {c} : p[b].kind = o[b].kind /\ p[b].val = o[b].val
<1>1. PICK x \in SqliteObject : x = Free /\ x.kind = "free"
  BY FreeFields
<1>2. PICK T \in SUBSET Addrs : T = ToSet(o[c].list)
  BY ObjectFields
<1>3. \A b \in Addrs : b \in T <=> o[b].kind = "stmt" /\ o[b].owner = c
  BY <1>2 DEF Attached
<1>4. /\ DOMAIN p = Addrs /\ p = [b \in Addrs |-> p[b]] /\ p[c] = x
      /\ \A b \in T : p[b] = [o[b] EXCEPT !.owner = Null, !.stmt = FALSE]
      /\ \A b \in Addrs : b # c /\ b \notin T => p[b] = o[b]
  <2>1. p = [b \in Addrs |-> IF b = c THEN x
                             ELSE IF b \in T THEN [o[b] EXCEPT !.owner = Null, !.stmt = FALSE]
                             ELSE o[b]]
    BY <1>1, <1>2 DEF DestroyConnection
  <2>2. c \notin T
    BY <1>3
  <2> QED BY <2>1, <2>2
<1>5. ASSUME NEW b \in T
      PROVE  /\ p[b] \in SqliteObject /\ p[b].kind = o[b].kind /\ p[b].val = o[b].val
             /\ p[b].owner = Null /\ p[b].stmt = FALSE
  <2> DEFINE L == Seq(Addrs)
  <2>1. SqliteObject = [kind : {"free", "conn", "stmt"}, owner : Addrs \cup {Null}, stmt : BOOLEAN,
                        list : L, code : {"ok", "row", "done", "error"}, val : Nat]
    BY DEF SqliteObject
  <2>2. PICK y \in SqliteObject : y = o[b]
    OBVIOUS
  <2>3. p[b] = [y EXCEPT !.owner = Null, !.stmt = FALSE]
    BY <1>4, <2>2
  <2> HIDE DEF L
  <2> QED BY <2>1, <2>2, <2>3
<1>6. p \in [Addrs -> SqliteObject]
  <2>1. \A b \in Addrs : p[b] \in SqliteObject
    BY <1>4, <1>5
  <2> QED BY <1>4, <2>1
<1>7. \A b \in Addrs \ {c} : p[b].kind = o[b].kind /\ p[b].val = o[b].val
  BY <1>4, <1>5
<1>8. Attached(p)
  <2>1. ASSUME NEW d \in Addrs, p[d].kind = "conn"
        PROVE  /\ \A b \in Addrs : b \in ToSet(p[d].list) <=> p[b].kind = "stmt" /\ p[b].owner = d
               /\ IsInjective(p[d].list)
    <3>1. d # c /\ o[d].kind = "conn" /\ d # Null
      BY <1>1, <1>4, <1>7, <2>1, SqliteAssumption DEF Null
    <3>2. p[d] = o[d]
      BY <1>3, <1>4, <3>1
    <3>3. /\ \A b \in Addrs : b \in ToSet(o[d].list) <=> o[b].kind = "stmt" /\ o[b].owner = d
          /\ IsInjective(o[d].list)
      BY <3>1 DEF Attached
    <3>4. ASSUME NEW b \in Addrs
          PROVE  (p[b].kind = "stmt" /\ p[b].owner = d) <=> (o[b].kind = "stmt" /\ o[b].owner = d)
      <4>1. CASE b = c
        BY <1>1, <1>4, <4>1
      <4>2. CASE b \in T
        BY <1>3, <1>5, <3>1, <4>2
      <4>3. CASE b # c /\ b \notin T
        BY <1>4, <4>3
      <4> QED BY <4>1, <4>2, <4>3
    <3> QED BY <3>2, <3>3, <3>4
  <2>2. ASSUME NEW b \in Addrs, p[b].kind = "stmt"
        PROVE  /\ p[b].owner # Null => p[p[b].owner].kind = "conn"
               /\ p[b].stmt => p[b].owner # Null
    <3>1. CASE b \in T
      BY <1>5, <3>1
    <3>2. CASE b \notin T
      <4>1. b # c /\ p[b] = o[b]
        BY <1>1, <1>4, <2>2, <3>2
      <4>2. o[b].kind = "stmt" /\ o[b].owner \in Addrs \cup {Null} /\ o[b].owner # c
        BY <1>3, <2>2, <3>2, <4>1, ObjectFields
      <4>3. o[b].stmt => o[b].owner # Null
        BY <4>2 DEF Attached
      <4>4. o[b].owner # Null => o[o[b].owner].kind = "conn"
        BY <4>2 DEF Attached
      <4>5. o[b].owner # Null => p[o[b].owner].kind = "conn"
        BY <1>7, <4>2, <4>4
      <4> QED BY <4>1, <4>3, <4>5
    <3> QED BY <3>1, <3>2
  <2> QED BY <2>1, <2>2 DEF Attached
<1> QED BY <1>1, <1>4, <1>6, <1>7, <1>8

-----------------------------------------------------------------------------
(* Values and their objects.                                               *)

\* An object is made with a new value.
LEMMA MatchedNew ==
    ASSUME NEW vs \in Seq(UserPointer), NEW o, Matched(o, vs), NEW a \in Addrs, o[a].kind = "free",
           NEW n, n = Len(vs) + 1,
           NEW ws, ws = WithValue(vs, a),
           NEW p, p[a].kind # "free", p[a].val = n,
           \A b \in Addrs \ {a} : p[b].kind = o[b].kind /\ p[b].val = o[b].val
    PROVE  Matched(p, ws)
<1>1. /\ LiveIn(ws) = LiveIn(vs) \cup {n} /\ ws[n].ptr = a
      /\ \A v \in LiveIn(vs) : ws[v] = vs[v]
  <2>1. /\ LiveIn(WithValue(vs, a)) = LiveIn(vs) \cup {Len(vs) + 1}
        /\ WithValue(vs, a)[Len(vs) + 1].ptr = a
        /\ \A v \in LiveIn(vs) : WithValue(vs, a)[v] = vs[v]
    BY ValueAdded
  <2> QED BY <2>1
<1>2. ASSUME NEW v \in LiveIn(ws)
      PROVE  ws[v].ptr \in Addrs /\ p[ws[v].ptr].kind # "free" /\ p[ws[v].ptr].val = v
  <2>1. CASE v = n
    BY <1>1, <2>1
  <2>2. CASE v # n
    <3>1. v \in LiveIn(vs) /\ ws[v] = vs[v]
      BY <1>1, <2>2
    <3>2. vs[v].ptr \in Addrs /\ o[vs[v].ptr].kind # "free" /\ o[vs[v].ptr].val = v
      BY <3>1 DEF Matched
    <3> QED BY <3>1, <3>2
  <2> QED BY <2>1, <2>2
<1>3. ASSUME NEW b \in Addrs, p[b].kind # "free"
      PROVE  p[b].val \in LiveIn(ws) /\ ws[p[b].val].ptr = b
  <2>1. CASE b = a
    BY <1>1, <2>1
  <2>2. CASE b # a
    <3>1. o[b].val \in LiveIn(vs) /\ vs[o[b].val].ptr = b
      BY <1>3, <2>2 DEF Matched
    <3> QED BY <1>1, <2>2, <3>1
  <2> QED BY <2>1, <2>2
<1> QED BY <1>2, <1>3 DEF Matched

\* A value is deleted with its object.
LEMMA MatchedGone ==
    ASSUME NEW vs \in Seq(UserPointer), NEW o, Matched(o, vs), NEW v \in LiveIn(vs),
           NEW a, a = vs[v].ptr,
           NEW ws, ws = WithoutValue(vs, v),
           NEW p, p[a].kind = "free",
           \A b \in Addrs \ {a} : p[b].kind = o[b].kind /\ p[b].val = o[b].val
    PROVE  Matched(p, ws)
<1>1. LiveIn(ws) = LiveIn(vs) \ {v} /\ \A w \in LiveIn(ws) : ws[w] = vs[w]
  <2>1. vs \in Seq(UserPointer) /\ v \in LiveIn(vs) /\ ws = WithoutValue(vs, v)
    OBVIOUS
  <2> QED BY ONLY <2>1, ValueDeleted
<1>2. o[a].val = v
  BY DEF Matched
<1>3. ASSUME NEW w \in LiveIn(ws)
      PROVE  ws[w].ptr \in Addrs /\ p[ws[w].ptr].kind # "free" /\ p[ws[w].ptr].val = w
  <2>1. w \in LiveIn(vs) /\ w # v /\ ws[w] = vs[w]
    BY <1>1
  <2>2. vs[w].ptr \in Addrs /\ o[vs[w].ptr].kind # "free" /\ o[vs[w].ptr].val = w
    BY <2>1 DEF Matched
  <2>3. vs[w].ptr # a
    BY <1>2, <2>1, <2>2
  <2> QED BY <2>1, <2>2, <2>3
<1>4. ASSUME NEW b \in Addrs, p[b].kind # "free"
      PROVE  p[b].val \in LiveIn(ws) /\ ws[p[b].val].ptr = b
  <2>1. b # a /\ o[b].kind # "free" /\ p[b].val = o[b].val
    BY <1>4
  <2>2. o[b].val \in LiveIn(vs) /\ vs[o[b].val].ptr = b
    BY <2>1 DEF Matched
  <2>3. o[b].val # v
    BY <2>1, <2>2
  <2> QED BY <1>1, <2>1, <2>2, <2>3
<1> QED BY <1>3, <1>4 DEF Matched

\* Objects keep their kinds and their values.
LEMMA MatchedKept ==
    ASSUME NEW vs, NEW o, Matched(o, vs),
           NEW p, \A b \in Addrs : p[b].kind = o[b].kind /\ p[b].val = o[b].val
    PROVE  Matched(p, vs)
BY DEF Matched

\* The value of the address of an object, from the table.
LEMMA ValueFound ==
    ASSUME SqliteAssumption, OwnedInv, NEW a \in Addrs, NEW id, id = FindUserPointerValue(refs, a)
    PROVE  \/ id = 0 /\ objects[a].kind = "free"
           \/ id # 0 /\ id \in LiveIn(values) /\ values[id].ptr = a
<1> DEFINE E == EntriesFor(values)
<1>1. /\ values \in Seq(UserPointer) /\ Matched(objects, values) /\ TableHolds(refs, E)
      /\ refs.count = Cardinality(LiveIn(values))
  BY DEF OwnedInv, ObjectsTyped
<1>2. /\ E = {} <=> Cardinality(LiveIn(values)) = 0
      /\ Len(values) \in Nat /\ LiveIn(values) \subseteq 1 .. Len(values)
  BY <1>1, LiveFinite
<1>3. refs.count = 0 <=> E = {}
  BY <1>1, <1>2
<1>4. \/ id = 0 /\ \A e \in E : e.ptr # a
      \/ \E e \in E : e.ptr = a /\ e.id = id
  <2> HIDE DEF E
  <2> QED BY <1>1, <1>3, FoundValue
<1>5. CASE id = 0 /\ \A e \in E : e.ptr # a
  <2>1. ASSUME objects[a].kind # "free"
        PROVE  FALSE
    <3>1. PICK v \in LiveIn(values) : values[v].ptr = a
      BY <1>1, <2>1 DEF Matched
    <3>2. [ptr |-> values[v].ptr, id |-> v] \in E
      BY DEF EntriesFor
    <3> QED BY <1>5, <3>1, <3>2
  <2> QED BY <1>5, <2>1
<1>6. CASE \E e \in E : e.ptr = a /\ e.id = id
  <2>1. PICK v \in LiveIn(values) : values[v].ptr = a /\ v = id
    BY <1>6 DEF EntriesFor
  <2>2. v # 0
    BY <1>2
  <2> QED BY <2>1, <2>2
<1> QED BY <1>4, <1>5, <1>6

\* An object at a free address is pushed as a new value.
LEMMA ObjectPushed ==
    ASSUME SqliteAssumption, InitSlotsAssumption, OwnedInv, NEW a \in Addrs, objects[a].kind = "free",
           PushUserPointerValue(a)
    PROVE  /\ values' = WithValue(values, a)
           /\ held' = held \cup {Len(values) + 1}
           /\ TableHolds(refs', EntriesFor(values'))
           /\ refs'.count = Cardinality(LiveIn(values'))
           /\ values' \in Seq(UserPointer) /\ held' \subseteq LiveIn(values')
<1>1. /\ values \in Seq(UserPointer) /\ Matched(objects, values) /\ TableHolds(refs, EntriesFor(values))
      /\ refs.count = Cardinality(LiveIn(values)) /\ held \subseteq LiveIn(values)
  BY DEF OwnedInv, ObjectsTyped, Live, LiveIn
<1>2. PICK id : id = FindUserPointerValue(refs, a)
  OBVIOUS
<1>3. id = 0
  <2>1. ASSUME id \in LiveIn(values), values[id].ptr = a
        PROVE  FALSE
    BY <1>1, <2>1 DEF Matched
  <2> QED BY <1>2, <2>1, ValueFound
<1> DEFINE new == Len(values) + 1
           e == [ptr |-> a, id |-> new]
<1>4. /\ values' = WithValue(values, a)
      /\ refs' = RegisterUserptrRef(refs, e) /\ held' = held \cup {new}
  BY <1>2, <1>3 DEF PushUserPointerValue, WithValue
<1>5. PICK ws : ws = values'
  OBVIOUS
<1>6. PICK n : n = new
  OBVIOUS
<1>7. /\ ws \in Seq(UserPointer) /\ n \in Nat /\ LiveIn(ws) = LiveIn(values) \cup {n}
      /\ e \notin EntriesFor(values) /\ EntriesFor(ws) = EntriesFor(values) \cup {e}
      /\ Cardinality(LiveIn(ws)) = Cardinality(LiveIn(values)) + 1
  <2>1. n = Len(values) + 1 /\ e = [ptr |-> a, id |-> n] /\ ws = WithValue(values, a)
    BY <1>4, <1>5, <1>6
  <2> HIDE DEF e
  <2> QED BY ONLY <1>1, <2>1, a \in Addrs, ValueAdded
<1>8. e \in Entry
  BY <1>6, <1>7 DEF Entry
<1> HIDE DEF e
<1>9. PICK u : u = refs'
  OBVIOUS
<1>10. TableHolds(u, EntriesFor(values) \cup {e}) /\ u.count = refs.count + 1
  BY <1>1, <1>4, <1>7, <1>8, <1>9, RegisteredEntry
<1> QED BY <1>1, <1>4, <1>5, <1>6, <1>7, <1>9, <1>10

-----------------------------------------------------------------------------
(* The invariant of the objects of the SQLite extension.                   *)

\* The invariant, in terms that the actions are told in.
LEMMA OwnedParts ==
    OwnedInv <=> /\ objects \in [Addrs -> SqliteObject] /\ values \in Seq(UserPointer)
                 /\ held \subseteq LiveIn(values)
                 /\ failed \subseteq {"prepare", "step"} /\ crashed \in BOOLEAN
                 /\ Attached(objects) /\ Matched(objects, values)
                 /\ TableHolds(refs, EntriesFor(values))
                 /\ refs.count = Cardinality(LiveIn(values))
<1>1. Live = LiveIn(values)
  BY DEF Live, LiveIn
<1>2. Matched(objects, values) => \A v \in LiveIn(values) : values[v].ptr \in Addrs
  BY DEF Matched
<1> QED BY <1>1, <1>2 DEF OwnedInv, ObjectsTyped

\* A program starts without connections.
LEMMA OwnedInit == SqliteAssumption /\ SqliteInit => OwnedInv
<1> SUFFICES ASSUME SqliteAssumption, SqliteInit
             PROVE  OwnedInv
  OBVIOUS
<1>1. objects \in [Addrs -> SqliteObject] /\ \A a \in Addrs : objects[a].kind = "free"
  BY FreeFields DEF SqliteInit
<1>2. values \in Seq(UserPointer) /\ LiveIn(values) = {} /\ EntriesFor(values) = {}
  BY DEF SqliteInit, LiveIn, EntriesFor
<1>3. Attached(objects) /\ Matched(objects, values)
  BY <1>1, <1>2 DEF Attached, Matched
<1>4. TableHolds(refs, {}) /\ refs.count = 0
  <2> DEFINE S == Seq(Entry)
  <2>1. refs = [heads |-> <<>>, count |-> 0]
    BY DEF SqliteInit, EmptyTable
  <2>2. refs.heads = <<>> /\ refs.count = 0 /\ refs = [heads |-> refs.heads, count |-> refs.count]
    BY <2>1
  <2>3. Entries(refs) = {}
    BY <2>2 DEF Entries
  <2>4. refs.heads \in Seq(S) /\ Len(refs.heads) = 0
    <3> HIDE DEF S
    <3> QED BY <2>2
  <2> QED BY <2>2, <2>3, <2>4 DEF TableHolds
<1>5. Cardinality({}) = 0
  BY FS_EmptySet
<1> QED BY <1>1, <1>2, <1>3, <1>4, <1>5, OwnedParts DEF SqliteInit

\* An object is made and its value pushed.
LEMMA ObjectMade ==
    ASSUME SqliteAssumption, InitSlotsAssumption, OwnedInv, NEW a \in Addrs, objects[a].kind = "free",
           PushUserPointerValue(a),
           objects' \in [Addrs -> SqliteObject], Attached(objects'),
           objects'[a].kind # "free", objects'[a].val = Len(values) + 1,
           \A b \in Addrs \ {a} : objects'[b].kind = objects[b].kind /\ objects'[b].val = objects[b].val,
           failed' \subseteq {"prepare", "step"}, crashed' = crashed
    PROVE  OwnedInv'
<1>1. /\ values' = WithValue(values, a)
      /\ TableHolds(refs', EntriesFor(values'))
      /\ refs'.count = Cardinality(LiveIn(values'))
      /\ values' \in Seq(UserPointer) /\ held' \subseteq LiveIn(values')
  BY ObjectPushed
<1>2. Matched(objects', values')
  <2>1. values \in Seq(UserPointer) /\ Matched(objects, values)
    BY OwnedParts
  <2>2. PICK n, ws, p : n = Len(values) + 1 /\ ws = values' /\ p = objects'
    OBVIOUS
  <2>3. Matched(p, ws)
    BY <1>1, <2>1, <2>2, MatchedNew
  <2> QED BY <2>2, <2>3
<1>3. crashed' \in BOOLEAN
  BY OwnedParts
<1> QED BY <1>1, <1>2, <1>3 DEF OwnedInv, ObjectsTyped, Live, LiveIn, Matched

\* Objects change, but neither their kinds nor their values.
LEMMA ObjectsKept ==
    ASSUME OwnedInv,
           objects' \in [Addrs -> SqliteObject], Attached(objects'),
           \A b \in Addrs : objects'[b].kind = objects[b].kind /\ objects'[b].val = objects[b].val,
           UNCHANGED <<values, refs>>, held' \subseteq LiveIn(values),
           failed' \subseteq {"prepare", "step"}, crashed' \in BOOLEAN
    PROVE  OwnedInv'
<1>1. /\ values \in Seq(UserPointer) /\ Matched(objects, values) /\ TableHolds(refs, EntriesFor(values))
      /\ refs.count = Cardinality(LiveIn(values))
  BY OwnedParts
<1>2. Matched(objects', values)
  <2>1. PICK p : p = objects'
    OBVIOUS
  <2>2. Matched(p, values)
    BY <1>1, <2>1, MatchedKept
  <2> QED BY <2>1, <2>2
<1>3. \A v \in LiveIn(values) : values[v].ptr \in Addrs
  BY <1>1 DEF Matched
<1> QED BY <1>1, <1>2, <1>3 DEF OwnedInv, ObjectsTyped, Live, LiveIn

\* A value is freed with its object.
LEMMA ObjectGone ==
    ASSUME SqliteAssumption, OwnedInv, NEW v \in 1 .. Len(values), Collect(v)
    PROVE  OwnedInv'
<1>1. /\ objects \in [Addrs -> SqliteObject] /\ values \in Seq(UserPointer) /\ held \subseteq LiveIn(values)
      /\ failed \subseteq {"prepare", "step"} /\ crashed \in BOOLEAN
      /\ Attached(objects) /\ Matched(objects, values)
      /\ TableHolds(refs, EntriesFor(values)) /\ refs.count = Cardinality(LiveIn(values))
  BY OwnedParts
<1>2. v \in LiveIn(values)
  BY DEF Collect, LiveIn
<1>3. PICK a \in Addrs : a = values[v].ptr
  BY <1>1, <1>2 DEF Matched
<1>4. PICK p : p = objects'
  OBVIOUS
<1>5. /\ p \in [Addrs -> SqliteObject] /\ Attached(p) /\ p[a].kind = "free"
      /\ \A b \in Addrs \ {a} : p[b].kind = objects[b].kind /\ p[b].val = objects[b].val
  <2>1. CASE objects[a].kind = "conn" /\ p = DestroyConnection(objects, a)
    BY <1>1, <2>1, ConnectionDestroyed
  <2>2. CASE objects[a].kind = "stmt" /\ p = DestroyStatement(objects, a)
    BY <1>1, <2>2, StatementDestroyed
  <2> QED BY <1>3, <1>4, <2>1, <2>2 DEF Collect
<1>6. PICK ws : ws = values' /\ ws = WithoutValue(values, v)
  BY DEF Collect, WithoutValue
<1>7. Matched(p, ws)
  BY <1>1, <1>2, <1>3, <1>5, <1>6, MatchedGone
<1> DEFINE e == [ptr |-> a, id |-> v]
<1>8. /\ ws \in Seq(UserPointer) /\ LiveIn(ws) = LiveIn(values) \ {v}
      /\ e \in EntriesFor(values) /\ EntriesFor(ws) = EntriesFor(values) \ {e}
      /\ Cardinality(LiveIn(ws)) = Cardinality(LiveIn(values)) - 1
  BY <1>1, <1>2, <1>3, <1>6, ValueDeleted
<1>9. refs.count > 0
  <2>1. Cardinality(LiveIn(values)) \in Nat /\ Cardinality(LiveIn(values)) # 0
    BY <1>1, <1>8, LiveFinite
  <2> QED BY <1>1, <2>1
<1>10. PICK u : u = refs' /\ u = UnregisterUserptrRef(refs, e.ptr, e.id)
  BY <1>3 DEF Collect
<1>11. \A f \in EntriesFor(values) : f.id = e.id => f = e
  BY <1>3 DEF EntriesFor
<1> HIDE DEF e
<1>12. TableHolds(u, EntriesFor(ws)) /\ u.count = Cardinality(LiveIn(ws))
  <2>1. PICK E : E = EntriesFor(values)
    OBVIOUS
  <2>2. TableHolds(u, E \ {e}) /\ u.count = refs.count - 1
    <3>1. /\ TableHolds(refs, E) /\ refs.count > 0 /\ e \in E /\ \A f \in E : f.id = e.id => f = e
          /\ u = UnregisterUserptrRef(refs, e.ptr, e.id)
      BY <1>1, <1>8, <1>9, <1>10, <1>11, <2>1
    <3> QED BY ONLY <3>1, SqliteAssumption, UnregisteredEntry
  <2> QED BY <1>1, <1>8, <2>1, <2>2
<1>13. held' \subseteq LiveIn(ws) /\ failed' = failed /\ crashed' = crashed
  BY <1>1, <1>8 DEF Collect
<1>14. \A w \in LiveIn(ws) : ws[w].ptr \in Addrs
  BY <1>7 DEF Matched
<1> QED BY <1>1, <1>4, <1>5, <1>6, <1>7, <1>8, <1>10, <1>12, <1>13, <1>14
        DEF OwnedInv, ObjectsTyped, Live, LiveIn

\* Every step keeps it.
LEMMA OwnedNext ==
    ASSUME SqliteAssumption, InitSlotsAssumption, OwnedInv, [SqliteNext]_sqliteVars
    PROVE  OwnedInv'
<1>1. /\ objects \in [Addrs -> SqliteObject] /\ values \in Seq(UserPointer) /\ held \subseteq LiveIn(values)
      /\ failed \subseteq {"prepare", "step"} /\ crashed \in BOOLEAN
      /\ Attached(objects) /\ Matched(objects, values)
  BY OwnedParts
<1>2. Len(values) + 1 \in Nat
  BY <1>1, ValueAdded, LenProperties
<1>3. \A v \in held : values[v].ptr \in Addrs
  BY <1>1 DEF Matched
<1>4. ASSUME NEW a \in Addrs, NewConnection(a)
      PROVE  OwnedInv'
  <2>1. PICK p : p = objects'
    OBVIOUS
  <2>2. PICK n \in Nat : n = Len(values) + 1
    BY <1>2
  <2>3. p = WithConnection(objects, a, n)
    BY <1>4, <2>1, <2>2 DEF NewConnection, WithConnection
  <2>4. objects[a].kind = "free" /\ PushUserPointerValue(a) /\ failed' = failed /\ crashed' = crashed
    BY <1>4 DEF NewConnection
  <2>5. /\ p \in [Addrs -> SqliteObject] /\ Attached(p) /\ p[a].kind # "free" /\ p[a].val = n
        /\ \A b \in Addrs \ {a} : p[b].kind = objects[b].kind /\ p[b].val = objects[b].val
    BY <1>1, <2>3, <2>4, ConnectionMade
  <2> QED BY <1>1, <2>1, <2>2, <2>4, <2>5, ObjectMade
<1>5. ASSUME NEW v \in 1 .. Len(values), NEW a \in Addrs, NEW h \in Texts, Query(v, a, h)
      PROVE  OwnedInv'
  <2>1. PICK c \in Addrs : c = values[v].ptr /\ objects[c].kind = "conn"
    BY <1>3, <1>5 DEF Query, Self
  <2>2. PICK t \in BOOLEAN : t = h
    BY SqliteAssumption
  <2>3. PICK n \in Nat : n = Len(values) + 1
    BY <1>2
  <2>4. PICK p : p = objects' /\ p = WithStatement(objects, a, c, t, n)
    BY <1>5, <2>1, <2>2, <2>3 DEF Query, Prepare, WithStatement
  <2>5. /\ objects[a].kind = "free" /\ PushUserPointerValue(a) /\ crashed' = crashed
        /\ failed' \subseteq {"prepare", "step"}
    BY <1>1, <1>5 DEF Query
  <2>6. /\ p \in [Addrs -> SqliteObject] /\ Attached(p) /\ p[a].kind # "free" /\ p[a].val = n
        /\ \A b \in Addrs \ {a} : p[b].kind = objects[b].kind /\ p[b].val = objects[b].val
    <3>1. /\ objects \in [Addrs -> SqliteObject] /\ Attached(objects) /\ objects[a].kind = "free"
          /\ objects[c].kind = "conn" /\ p = WithStatement(objects, a, c, t, n)
      BY <1>1, <2>1, <2>4, <2>5
    <3> QED BY <3>1, StatementMade
  <2> QED BY <1>1, <2>3, <2>4, <2>5, <2>6, ObjectMade
<1>6. ASSUME NEW v \in 1 .. Len(values), NEW code \in {"row", "done", "error"}, Step(v, code)
      PROVE  OwnedInv'
  <2>1. PICK s \in Addrs : s = values[v].ptr
    BY <1>3, <1>6 DEF Step, Self
  <2>2. PICK p : p = objects' /\ p = WithCode(objects, s, code)
    BY <1>6, <2>1 DEF Step, WithCode
  <2>3. /\ p \in [Addrs -> SqliteObject] /\ Attached(p)
        /\ \A b \in Addrs : p[b].kind = objects[b].kind /\ p[b].val = objects[b].val
    BY <1>1, <2>2, CodeSet
  <2>4. UNCHANGED <<values, refs, held, failed, crashed>>
    BY <1>6 DEF Step
  <2> QED BY <1>1, <2>2, <2>3, <2>4, ObjectsKept
<1>7. ASSUME NEW v \in 1 .. Len(values), StepUnowned(v)
      PROVE  OwnedInv'
  <2>1. PICK s \in Addrs : s = values[v].ptr
    BY <1>3, <1>7 DEF StepUnowned, Self
  <2>2. PICK p : p = objects' /\ (p = objects \/ p = WithCode(objects, s, "error"))
    BY <1>7, <2>1 DEF StepUnowned, WithCode
  <2>3. /\ p \in [Addrs -> SqliteObject] /\ Attached(p)
        /\ \A b \in Addrs : p[b].kind = objects[b].kind /\ p[b].val = objects[b].val
    <3>1. CASE p = objects
      BY <1>1, <3>1
    <3>2. CASE p = WithCode(objects, s, "error")
      BY <1>1, <3>2, CodeSet
    <3> QED BY <2>2, <3>1, <3>2
  <2>4. /\ UNCHANGED <<values, refs, held>> /\ failed' \subseteq {"prepare", "step"}
        /\ crashed' \in BOOLEAN
    BY <1>1, <1>7 DEF StepUnowned
  <2> QED BY <1>1, <2>2, <2>3, <2>4, ObjectsKept
<1>8. ASSUME NEW v \in 1 .. Len(values), Iter(v)
      PROVE  OwnedInv'
  <2>1. PICK a \in Addrs : a = values[v].ptr /\ objects[a].kind = "stmt"
    BY <1>3, <1>8 DEF Iter, Self
  <2>2. PICK id : id = FindUserPointerValue(refs, a)
    OBVIOUS
  <2>3. id # 0 /\ id \in LiveIn(values)
    BY <2>1, <2>2, ValueFound
  <2>4. held' = held \cup {id} /\ UNCHANGED <<values, refs, objects, failed, crashed>>
    BY <1>8, <2>1, <2>2, <2>3 DEF Iter, PushUserPointerValue
  <2> QED BY <1>1, <2>3, <2>4, ObjectsKept
<1>9. ASSUME NEW v \in 1 .. Len(values), Drop(v)
      PROVE  OwnedInv'
  <2>1. held' \subseteq held /\ UNCHANGED <<values, refs, objects, failed, crashed>>
    BY <1>9 DEF Drop
  <2> QED BY <1>1, <2>1, ObjectsKept
<1>10. ASSUME NEW v \in 1 .. Len(values), Collect(v)
       PROVE  OwnedInv'
  BY <1>10, ObjectGone
<1>11. CASE UNCHANGED sqliteVars
  <2>1. UNCHANGED <<values, refs, objects, failed, crashed, held>>
    BY <1>11 DEF sqliteVars
  <2> QED BY <1>1, <2>1, ObjectsKept
<1> QED BY <1>4, <1>5, <1>6, <1>7, <1>8, <1>9, <1>10, <1>11 DEF SqliteNext

\* It says what ObjectsOwned says.
LEMMA OwnedImplies == SqliteAssumption /\ OwnedInv => ObjectsOwned
<1> SUFFICES ASSUME SqliteAssumption, OwnedInv
             PROVE  ObjectsOwned
  OBVIOUS
<1>1. /\ objects \in [Addrs -> SqliteObject] /\ values \in Seq(UserPointer)
      /\ Attached(objects) /\ Matched(objects, values)
      /\ TableHolds(refs, EntriesFor(values)) /\ refs.count = Cardinality(LiveIn(values))
      /\ ObjectsTyped /\ Live = LiveIn(values)
  BY DEF OwnedInv, ObjectsTyped, Live, LiveIn
<1>2. ListsAttached
  <2>1. ASSUME NEW c \in Conns
        PROVE  /\ ToSet(objects[c].list) = {s \in Stmts : objects[s].owner = c}
               /\ IsInjective(objects[c].list)
    <3>1. c \in Addrs /\ objects[c].kind = "conn"
      BY DEF Conns
    <3>2. /\ \A s \in Addrs : s \in ToSet(objects[c].list) <=> objects[s].kind = "stmt" /\ objects[s].owner = c
          /\ IsInjective(objects[c].list)
      BY <1>1, <3>1 DEF Attached
    <3>3. ToSet(objects[c].list) \subseteq Addrs
      BY <1>1, <3>1, ObjectFields
    <3> QED BY <3>2, <3>3 DEF Stmts
  <2>2. ASSUME NEW s \in Stmts
        PROVE  /\ objects[s].owner = Null \/ objects[s].owner \in Conns
               /\ objects[s].stmt => objects[s].owner # Null
    <3>1. s \in Addrs /\ objects[s].kind = "stmt" /\ objects[s].owner \in Addrs \cup {Null}
      BY <1>1, ObjectFields DEF Stmts
    <3>2. objects[s].owner # Null => objects[objects[s].owner].kind = "conn"
      BY <1>1, <3>1 DEF Attached
    <3>3. objects[s].stmt => objects[s].owner # Null
      BY <1>1, <3>1 DEF Attached
    <3> QED BY <3>1, <3>2, <3>3 DEF Conns
  <2> QED BY <2>1, <2>2 DEF ListsAttached
<1>3. TableExact
  <2> DEFINE E == EntriesFor(values)
  <2>1. Entries(refs) = {[ptr |-> values[v].ptr, id |-> v] : v \in Live} /\ refs.count = Cardinality(Live)
    BY <1>1 DEF TableHolds, EntriesFor
  <2>2. /\ Len(refs.heads) \in Nat /\ refs.heads \in [1 .. Len(refs.heads) -> Seq(Entry)]
        /\ \A i \in 1 .. Len(refs.heads) : \A e \in ToSet(refs.heads[i]) : SlotOf(refs, e.ptr) = i
    <3>1. TableHolds(refs, E)
      BY <1>1
    <3> HIDE DEF E
    <3> QED BY <3>1, TableFacts DEF TableHolds
  <2>3. ASSUME NEW i \in 1 .. Len(refs.heads), NEW k \in 1 .. Len(refs.heads[i])
        PROVE  SlotOf(refs, refs.heads[i][k].ptr) = i
    <3>1. PICK c \in Seq(Entry) : c = refs.heads[i]
      BY <2>2
    <3>2. c[k] \in ToSet(c)
      BY <3>1 DEF ToSet
    <3> QED BY <2>2, <3>1, <3>2
  <2> QED BY <2>1, <2>3 DEF TableExact
<1>4. ValueOfItsObject
  BY <1>1 DEF ValueOfItsObject, Matched, Conns, Stmts
<1> QED BY <1>1, <1>2, <1>3, <1>4 DEF ObjectsOwned

\* In whatever order values are collected and addresses are used again, every
\* object has its value, every value its object, every statement its place in the
\* list of its connection, and userptr_refs leads to no freed value, however often
\* registerUserptrRef has grown it.
THEOREM ObjectsAreOwned == SqliteSpec => []ObjectsOwned
<1>1. SqliteInit => OwnedInv
  BY OwnedInit, SqliteAssumption
<1>2. OwnedInv /\ [SqliteNext]_sqliteVars => OwnedInv'
  BY OwnedNext, SqliteAssumption, InitSlotsAssumption
<1>3. OwnedInv => ObjectsOwned
  BY OwnedImplies, SqliteAssumption
<1> QED BY <1>1, <1>2, <1>3, PTL DEF SqliteSpec

=============================================================================
