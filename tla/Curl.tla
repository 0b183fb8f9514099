-------------------------------- MODULE Curl --------------------------------
(***************************************************************************)
(* Objects of the curl extension.  An object owns a handle of the library  *)
(* and, for every kind of callback, the id of a script function or file    *)
(* that it keeps alive through the retain pool of the core.  perform runs  *)
(* a transfer; the library calls back in the middle of it, script code     *)
(* runs there and may change the options of any object.  Unless told       *)
(* otherwise perform closes the object when it is over.                    *)
(*                                                                         *)
(* Kind "write" stands for the callbacks that every object has and that    *)
(* clone copies, "debug" for those that an option switches on and clone    *)
(* forgets.  Performing an object in a callback of its own transfer is     *)
(* outside of the library's contract and not part of the model; performing *)
(* a closed object only throws.                                            *)
(***************************************************************************)
EXTENDS Naturals, Sequences, SequencesExt, FiniteSets

CONSTANTS
    Objs,           \* Curl userdata
    Vals,           \* functions and files of scripts
    MaxNested       \* bound: transfers inside callbacks of others

NoId == "0"

ASSUME CurlAssumption ==
    /\ MaxNested \in Nat
    /\ IsFiniteSet(Objs)
    /\ NoId \notin Vals /\ Objs \cap Vals = {}

VARIABLES
    obj,            \* [state, handle, debugOn, cb, buf]
    pool,           \* core->retain_pool
    live,           \* the values that exist
    script,         \* the values and objects that scripts can reach
    performing,     \* the transfers that are going on, the innermost last
    dirty           \* objects one of whose transfers failed or changed what it does with data

vars == <<obj, pool, live, script, performing, dirty>>

Kinds == {"write", "debug"}

\* behavior is not initialised for debug
Unset == [behavior |-> "unset", id |-> NoId]
Return == [behavior |-> "return", id |-> NoId]

Absent == [state |-> "absent", handle |-> FALSE, debugOn |-> FALSE,
           cb |-> [k \in Kinds |-> Unset], buf |-> "none"]

Init ==
    /\ obj = [o \in Objs |-> Absent]
    /\ pool = [v \in Vals |-> 0]
    /\ live = Vals
    /\ script = Vals
    /\ performing = << >>
    /\ dirty = {}

\* Script code runs: not in a transfer, or in a function that a callback has called
scriptRuns == performing # << >> => Last(performing).calling # NoId

InUse == { performing[i].obj : i \in DOMAIN performing }
OnStack == { performing[i].calling : i \in DOMAIN performing } \ {NoId}

-----------------------------------------------------------------------------
(* The retain pool.                                                        *)

retainValueById(p, id) == IF id \in live THEN [p EXCEPT ![id] = @ + 1] ELSE p
releaseValueById(p, id) == IF id \in live THEN [p EXCEPT ![id] = @ - 1] ELSE p

releaseAll(p, cb) == releaseValueById(releaseValueById(p, cb["write"].id), cb["debug"].id)

-----------------------------------------------------------------------------

init(c) == [c EXCEPT !.handle = TRUE, !.cb["write"] = Return]

newInstance(o) ==
    /\ scriptRuns /\ obj[o].state = "absent"
    /\ obj' = [obj EXCEPT ![o] = [init(@) EXCEPT !.state = "live"]]
    /\ script' = script \cup {o}
    /\ UNCHANGED <<pool, live, performing, dirty>>

\* A transfer that has put data into the buffer does something else with the rest
turned(o) == IF o \in InUse /\ obj[o].buf # "none" THEN {o} ELSE {}

\* Mutant: the value set before is not released
badSetOptionPool(o, k, v) == retainValueById(pool, v)

\* The old value is released before the new one is retained
setOptionPool(o, k, v) == retainValueById(releaseValueById(pool, obj[o].cb[k].id), v)

setCallback(c, k, cb, on) == [c EXCEPT !.cb[k] = cb, !.debugOn = on]

\* setOption with a function or, for the data of a transfer, a file
setOption(o, k, v) ==
    /\ scriptRuns /\ o \in script /\ v \in script
    /\ pool' = setOptionPool(o, k, v)
    /\ obj' = [obj EXCEPT ![o] = setCallback(@, k, [behavior |-> "value", id |-> v],
                                            @.debugOn \/ (k = "debug" /\ @.handle))]
    /\ dirty' = dirty \cup turned(o)
    /\ UNCHANGED <<live, script, performing>>

\* setOption with null
setOptionNull(o, k) ==
    /\ scriptRuns /\ o \in script
    /\ pool' = releaseValueById(pool, obj[o].cb[k].id)
    /\ obj' = [obj EXCEPT ![o] = setCallback(@, k, Return, @.debugOn /\ k # "debug")]
    /\ dirty' = dirty \cup turned(o)
    /\ UNCHANGED <<live, script, performing>>

copyPool(o) == retainValueById(pool, obj[o].cb["write"].id)

\* Nothing of the debug callback but the library's own setting, which curl_easy_duphandle copies
copyFrom(o) ==
    [Absent EXCEPT !.handle = TRUE, !.debugOn = obj[o].debugOn, !.cb["write"] = obj[o].cb["write"]]

clone(o, c) ==
    /\ scriptRuns /\ o \in script /\ obj[o].handle /\ obj[c].state = "absent"
    /\ pool' = copyPool(o)
    /\ obj' = [obj EXCEPT ![c] = [copyFrom(o) EXCEPT !.state = "live"]]
    /\ script' = script \cup {c}
    /\ UNCHANGED <<live, performing, dirty>>

-----------------------------------------------------------------------------
(* Transfers.                                                              *)

perform(o, close) ==
    /\ scriptRuns /\ o \in script /\ obj[o].handle /\ o \notin InUse
    /\ Len(performing) <= MaxNested
    /\ performing' = Append(performing, [obj |-> o, close |-> close, calling |-> NoId])
    /\ UNCHANGED <<obj, pool, live, script, dirty>>

inTransfer == performing # << >> /\ Last(performing).calling = NoId
current == Last(performing).obj

\* writeCallback without a function: the data is kept to be returned
writeToBuffer ==
    /\ inTransfer /\ obj[current].cb["write"].behavior = "return"
    /\ obj' = [obj EXCEPT ![current].buf = IF @ = "none" THEN "own" ELSE @]
    /\ UNCHANGED <<pool, live, script, performing, dirty>>

\* writeCallback or debugCallback with a function or a file: script code runs
callback(k) ==
    /\ inTransfer /\ (k = "debug" => obj[current].debugOn)
    /\ obj[current].cb[k].behavior = "value"
    /\ performing' = [performing EXCEPT ![Len(performing)].calling = obj[current].cb[k].id]
    /\ UNCHANGED <<obj, pool, live, script, dirty>>

callbackReturns ==
    /\ performing # << >> /\ Last(performing).calling # NoId
    /\ performing' = [performing EXCEPT ![Len(performing)].calling = NoId]
    /\ UNCHANGED <<obj, pool, live, script, dirty>>

resetData(c) == [c EXCEPT !.buf = "none", !.cb = [k \in Kinds |-> [c.cb[k] EXCEPT !.id = NoId]]]
Closed(c) == [resetData(c) EXCEPT !.handle = FALSE, !.debugOn = FALSE]

\* What stays in the buffer after a transfer that is not closed
Kept(c, ok) ==
    [c EXCEPT !.buf = IF @ = "none" \/ (ok /\ c.cb["write"].behavior = "return") THEN "none" ELSE "old"]

\* The end of perform: the buffer is returned and cleared if all went well, then AutoClose
performEnds(ok) ==
    LET o == current
        close == Last(performing).close
    IN
    /\ inTransfer
    /\ performing' = Front(performing)
    /\ obj' = [obj EXCEPT ![o] = IF close THEN Closed(@) ELSE Kept(@, ok)]
    /\ pool' = IF close THEN releaseAll(pool, obj[o].cb) ELSE pool
    /\ dirty' = IF ok THEN dirty ELSE dirty \cup {o}
    /\ UNCHANGED <<live, script>>

-----------------------------------------------------------------------------
(* The collector.                                                          *)

drop(x) ==
    /\ scriptRuns /\ x \in script
    /\ script' = script \ {x}
    /\ UNCHANGED <<obj, pool, live, performing, dirty>>

\* The destructor closes the object; an object that was closed before is left as it is
destroy(o) ==
    /\ scriptRuns /\ obj[o].state = "live" /\ o \notin script \cup InUse
    /\ obj' = [obj EXCEPT ![o] = [(IF obj[o].handle THEN Closed(@) ELSE @) EXCEPT !.state = "dead"]]
    /\ pool' = IF obj[o].handle THEN releaseAll(pool, obj[o].cb) ELSE pool
    /\ UNCHANGED <<live, script, performing, dirty>>

\* Neither a script nor the stack nor the retain pool has the value
unheld(v) == v \notin script \cup OnStack /\ pool[v] = 0

collect(v) ==
    /\ scriptRuns /\ v \in live /\ unheld(v)
    /\ live' = live \ {v}
    /\ UNCHANGED <<obj, pool, script, performing, dirty>>

Next ==
    \/ \E o \in Objs : newInstance(o) \/ destroy(o)
    \/ \E o \in Objs, k \in Kinds, v \in Vals : setOption(o, k, v)
    \/ \E o \in Objs, k \in Kinds : setOptionNull(o, k)
    \/ \E o \in Objs, c \in Objs : clone(o, c)
    \/ \E o \in Objs, close \in BOOLEAN : perform(o, close)
    \/ writeToBuffer \/ (\E k \in Kinds : callback(k)) \/ callbackReturns
    \/ \E ok \in BOOLEAN : performEnds(ok)
    \/ \E x \in Objs \cup Vals : drop(x)
    \/ \E v \in Vals : collect(v)

Spec == Init /\ [][Next]_vars

-----------------------------------------------------------------------------

Callback == [behavior : {"unset", "return", "value"}, id : Vals \cup {NoId}]

Object == [state : {"absent", "live", "dead"}, handle : BOOLEAN, debugOn : BOOLEAN,
           cb : [Kinds -> Callback], buf : {"none", "own", "old"}]

Transfer == [obj : Objs, close : BOOLEAN, calling : Vals \cup {NoId}]

(* The objects, the pool and the transfers have their types.               *)
TypeOK ==
    /\ obj \in [Objs -> Object]
    /\ pool \in [Vals -> 0 .. 2 * Cardinality(Objs)]
    /\ live \subseteq Vals
    /\ script \subseteq Vals \cup Objs
    /\ performing \in Seq(Transfer)
    /\ dirty \subseteq Objs

Holders(v) == { x \in Objs \X Kinds : obj[x[1]].cb[x[2]].id = v }

(* releaseValueById asserts that the pool has the value: the pool counts   *)
(* exactly the callbacks that keep it, through clones, replaced options,   *)
(* closed and destroyed objects.                                           *)
PoolExact == \A v \in Vals : pool[v] = Cardinality(Holders(v))

(* The function a callback is going to call, and the one that is running,  *)
(* although its option was replaced meanwhile, still exist.                *)
HeldLive ==
    /\ \A o \in Objs, k \in Kinds : obj[o].cb[k].id # NoId => obj[o].cb[k].id \in live
    /\ OnStack \subseteq live

(* perform returns what its own transfer received: data of an earlier      *)
(* transfer is in the buffer only after one that failed or that changed    *)
(* its write option on the way.                                            *)
OldDataExplained == \A o \in Objs : obj[o].buf = "old" => o \in dirty

(* The assertion of ~CallbackData, os-curl.cpp:355: an object that is      *)
(* destroyed holds no function, no file and no buffer.                     *)
CallbackDataAssertion ==
    \A o \in Objs : obj[o].state = "dead" =>
        obj[o].buf = "none" /\ \A k \in Kinds : obj[o].cb[k].id = NoId

(* Scripts reach what exists, no object is destroyed in the middle of its  *)
(* transfer, and a slot without an object is empty.                        *)
ScriptLive ==
    /\ script \cap Vals \subseteq live
    /\ \A o \in Objs : o \in script \cup InUse => obj[o].state = "live"
    /\ \A o \in Objs : obj[o].state = "absent" => obj[o] = Absent

(* Data that a transfer is going to return is in the buffer only while the *)
(* transfer lasts; unless the option was changed on the way, the transfer  *)
(* still returns it.                                                       *)
OwnDataReturned ==
    \A o \in Objs : obj[o].buf = "own" =>
        o \in InUse /\ (obj[o].cb["write"].behavior = "return" \/ o \in dirty)

(* What the library will call exists and is counted, and what it has       *)
(* received belongs to the transfer that asked for it.                     *)
CallbacksKept ==
    TypeOK /\ PoolExact /\ HeldLive /\ OldDataExplained /\ ScriptLive /\ OwnDataReturned
=============================================================================
