------------------------------- MODULE RefGC -------------------------------
(***************************************************************************)
(* The memory protocol of the ObjectScript virtual machine: reference      *)
(* counts that leave the value stack out, a set of free candidates (values *)
(* whose count fell to zero), the sweep over the candidates and the backup *)
(* mark-and-sweep, the weak table of interned strings and the shutdown.    *)
(*                                                                         *)
(* The module follows a handful of values.  Their outgoing references      *)
(* (prototype, name, table entries, array elements, environment, self,     *)
(* closure values) are the entries field[<<v, f>>].  A C++ String object,  *)
(* or a string constant of a Program, is a handle: it pins a string        *)
(* through external_ref_count.  The candidates are a set here, and a sweep *)
(* may forget some of them: safety must not depend on the table being      *)
(* complete.  Module ValueGC adds the hash table itself.                   *)
(*                                                                         *)
(* Definitions named bad... are the plausible mistakes against which the   *)
(* properties are tried; no specification uses them.                       *)
(***************************************************************************)
EXTENDS Naturals, Sequences, FiniteSets

CONSTANTS
    Ids,        \* value ids followed by the model (Values::next_id hands them out)
    Root,       \* the id of an immortal value: global_vars, retain_pool, a prototype
    Fields,     \* names of the references a value may hold
    Contents,   \* contents of strings
    Handles,    \* C++ String objects and program constants
    Host,       \* the owner of a handle that no value owns
    Nil,        \* the null pointer
    MaxStack    \* bound on the value stack

ASSUME IdsAssumption ==
    /\ IsFiniteSet(Ids) /\ IsFiniteSet(Fields) /\ IsFiniteSet(Handles)
    /\ Root \in Ids /\ Nil \notin Ids /\ Host \notin Ids
    /\ Nil \notin Contents

ASSUME MaxStackAssumption == MaxStack \in Nat

VARIABLES
    values,             \* ids in Core::values
    destroy_list,       \* cleared values that wait for deleteValue
    unused,             \* ids not handed out yet
    field,              \* field[<<v, f>>]: the value that v holds in f
    str,                \* str[v]: the content of a string, Nil for another value
    string_refs,        \* the values in the weak table of interned strings
    ref_count,
    external_ref_count,
    handle,             \* handle[h]: the string that h pins
    owner,              \* owner[h]: the userdata or function that owns h, or Host
    candidates,         \* ids in gc_candidate_values
    marked,             \* values whose gc_step_type is the current one
    stack_values,
    phase,              \* what the collector is doing
    victim              \* the value inside clearValue, or Nil

vars == <<values, destroy_list, unused, field, str, string_refs, ref_count,
          external_ref_count, handle, owner, candidates, marked, stack_values,
          phase, victim>>

Phases == {"idle", "candidates", "fix", "destroy",
           "down", "down_strings", "down_destroy", "off"}

Allocated == values \cup destroy_list

Elements(s) == {s[i] : i \in DOMAIN s}

IdOrNil == Ids \cup {Nil}

\* Every variable is of its kind; both counts of a value never fall below zero, which
\* releaseValue and ~String assert
TypeOK ==
    /\ values \subseteq Ids
    /\ destroy_list \subseteq Ids
    /\ unused \subseteq Ids
    /\ field \in [Ids \X Fields -> IdOrNil]
    /\ str \in [Ids -> Contents \cup {Nil}]
    /\ string_refs \subseteq Ids
    /\ ref_count \in [Ids -> Nat]
    /\ external_ref_count \in [Ids -> Nat]
    /\ handle \in [Handles -> IdOrNil]
    /\ owner \in [Handles -> Ids \cup {Host}]
    /\ candidates \subseteq Ids
    /\ marked \subseteq Ids
    /\ stack_values \in Seq(Ids)
    /\ phase \in Phases
    /\ victim \in IdOrNil

(***************************************************************************)
(* Core::init has run: the immortal value exists and the core itself holds *)
(* one reference to it.                                                    *)
(***************************************************************************)
Init ==
    /\ values = {Root}
    /\ destroy_list = {}
    /\ unused = Ids \ {Root}
    /\ field = [p \in Ids \X Fields |-> Nil]
    /\ str = [v \in Ids |-> Nil]
    /\ string_refs = {}
    /\ ref_count = [v \in Ids |-> IF v = Root THEN 1 ELSE 0]
    /\ external_ref_count = [v \in Ids |-> 0]
    /\ handle = [h \in Handles |-> Nil]
    /\ owner = [h \in Handles |-> Host]
    /\ candidates = {}
    /\ marked = {}
    /\ stack_values = << >>
    /\ phase = "idle"
    /\ victim = Nil

-----------------------------------------------------------------------------
(* Counting.  gc_fix_in_progress is set from the mark phase to the end of  *)
(* the destroy loop, and during shutdown.                                  *)

gc_fix_in_progress == phase \notin {"idle", "candidates"}

saveFreeCandidateValue(v) ==
    /\ candidates' = candidates \cup {v}
    /\ marked' = IF v \in candidates THEN marked ELSE marked \cup {v}

keepCandidates == UNCHANGED <<candidates, marked>>

\* The release is skipped for every value while gc_fix_in_progress
badReleaseValue(v) ==
    IF gc_fix_in_progress
    THEN ref_count' = ref_count /\ keepCandidates
    ELSE /\ ref_count' = [ref_count EXCEPT ![v] = @ - 1]
         /\ IF ref_count[v] = 1 THEN saveFreeCandidateValue(v) ELSE keepCandidates

(***************************************************************************)
(* releaseValue: while a mark-and-sweep is being applied, a value that was *)
(* not marked is about to be destroyed and its count is left alone.        *)
(***************************************************************************)
releaseValue(v) ==
    IF gc_fix_in_progress /\ v \notin marked
    THEN ref_count' = ref_count /\ keepCandidates
    ELSE /\ ref_count' = [ref_count EXCEPT ![v] = @ - 1]
         /\ IF ref_count[v] = 1 THEN saveFreeCandidateValue(v) ELSE keepCandidates

\* ~String and ~Program: the last handle of a string with no holder.
releaseString(v) ==
    /\ external_ref_count' = [external_ref_count EXCEPT ![v] = @ - 1]
    /\ IF external_ref_count[v] = 1 /\ ref_count[v] = 0
       THEN saveFreeCandidateValue(v)
       ELSE keepCandidates

-----------------------------------------------------------------------------
(* What the program does between two collections.                          *)

OnStack == Elements(stack_values)

Holding == {Root} \cup OnStack

\* The values the interpreter can name: globals, the stack, the fields of
\* both and the strings that C++ code holds.
Nameable ==
    {v \in Ids : \/ v \in Holding
                 \/ \E h \in Holding, f \in Fields : field[<<h, f>>] = v
                 \/ \E h \in Handles : owner[h] = Host /\ handle[h] = v}

pushOnStack(v) ==
    /\ Len(stack_values) < MaxStack
    /\ stack_values' = Append(stack_values, v)

registerValueAndPush(v) ==
    /\ v \in unused
    /\ unused' = unused \ {v}
    /\ values' = values \cup {v}
    /\ candidates' = candidates \cup {v}
    /\ marked' = marked \cup {v}
    /\ pushOnStack(v)
    /\ UNCHANGED <<destroy_list, field, ref_count, external_ref_count, handle,
                   owner, phase, victim>>

\* pushObjectValue, pushArrayValue, pushUserdataValue, pushFunctionValue
pushObjectValue(v) ==
    /\ phase = "idle"
    /\ registerValueAndPush(v)
    /\ UNCHANGED <<str, string_refs>>

\* The lookup passes over strings that wait for the collector
badPushNewStringValue(v, s) ==
    /\ phase = "idle"
    /\ \A w \in string_refs \ candidates : str[w] # s
    /\ registerValueAndPush(v)
    /\ str' = [str EXCEPT ![v] = s]
    /\ string_refs' = string_refs \cup {v}

\* pushStringValue when the table has no string with this content
pushNewStringValue(v, s) ==
    /\ phase = "idle"
    /\ \A w \in string_refs : str[w] # s
    /\ registerValueAndPush(v)
    /\ str' = [str EXCEPT ![v] = s]
    /\ string_refs' = string_refs \cup {v}

\* pushStringValue when it has one: the value may be a candidate by now
pushFoundStringValue(v) ==
    /\ phase = "idle"
    /\ v \in string_refs
    /\ pushOnStack(v)
    /\ UNCHANGED <<values, destroy_list, unused, field, str, string_refs,
                   ref_count, external_ref_count, handle, owner, candidates,
                   marked, phase, victim>>

pushValue(v) ==
    /\ phase = "idle"
    /\ v \in Nameable
    /\ pushOnStack(v)
    /\ UNCHANGED <<values, destroy_list, unused, field, str, string_refs,
                   ref_count, external_ref_count, handle, owner, candidates,
                   marked, phase, victim>>

pop ==
    /\ phase = "idle"
    /\ stack_values # << >>
    /\ stack_values' = SubSeq(stack_values, 1, Len(stack_values) - 1)
    /\ UNCHANGED <<values, destroy_list, unused, field, str, string_refs,
                   ref_count, external_ref_count, handle, owner, candidates,
                   marked, phase, victim>>

(***************************************************************************)
(* setValue(field[<<h, f>>], w): the old value is released, the new one is *)
(* retained, and nothing happens when they are the same.                   *)
(***************************************************************************)
setValue(h, f, w) ==
    /\ phase = "idle"
    /\ h \in Holding /\ str[h] = Nil
    /\ w \in OnStack \cup {Nil}
    /\ field[<<h, f>>] # w
    /\ field' = [field EXCEPT ![<<h, f>>] = w]
    /\ ref_count' = [v \in Ids |->
            IF v = w THEN ref_count[v] + 1
            ELSE IF v = field[<<h, f>>] THEN ref_count[v] - 1
            ELSE ref_count[v]]
    /\ IF field[<<h, f>>] # Nil /\ ref_count'[field[<<h, f>>]] = 0
       THEN saveFreeCandidateValue(field[<<h, f>>])
       ELSE keepCandidates
    /\ UNCHANGED <<values, destroy_list, unused, str, string_refs,
                   external_ref_count, handle, owner, stack_values, phase, victim>>

\* String::String and the constants of a loaded Program
newString(h, v) ==
    /\ phase = "idle"
    /\ handle[h] = Nil
    /\ v \in Nameable /\ str[v] # Nil
    /\ handle' = [handle EXCEPT ![h] = v]
    /\ external_ref_count' = [external_ref_count EXCEPT ![v] = @ + 1]
    /\ UNCHANGED <<values, destroy_list, unused, field, str, string_refs,
                   ref_count, owner, candidates, marked, stack_values, phase,
                   victim>>

\* The handle becomes a member of a userdata, or a constant of a function
giveString(h, v) ==
    /\ phase = "idle"
    /\ handle[h] # Nil /\ owner[h] = Host
    /\ v \in OnStack \ {Root} /\ str[v] = Nil
    /\ owner' = [owner EXCEPT ![h] = v]
    /\ UNCHANGED <<values, destroy_list, unused, field, str, string_refs,
                   ref_count, external_ref_count, handle, candidates, marked,
                   stack_values, phase, victim>>

\* String::~String.  At shutdown the core deletes its own String objects.
deleteString(h) ==
    /\ phase \in {"idle", "down_strings"}
    /\ handle[h] # Nil /\ owner[h] = Host
    /\ releaseString(handle[h])
    /\ handle' = [handle EXCEPT ![h] = Nil]
    /\ UNCHANGED <<values, destroy_list, unused, field, str, string_refs,
                   ref_count, owner, stack_values, phase, victim>>

Program ==
    \/ \E v \in Ids : \/ pushObjectValue(v)
                      \/ pushFoundStringValue(v)
                      \/ pushValue(v)
    \/ \E v \in Ids, s \in Contents : pushNewStringValue(v, s)
    \/ pop
    \/ \E h \in Ids, f \in Fields, w \in IdOrNil : setValue(h, f, w)
    \/ \E h \in Handles, v \in Ids : newString(h, v) \/ giveString(h, v)
    \/ \E h \in Handles : deleteString(h)

-----------------------------------------------------------------------------
(* clearValue, one reference at a time.  The string leaves the weak table  *)
(* first; the object of a userdata destroys the String members it owns.    *)

startClear(v) ==
    /\ victim' = v
    /\ string_refs' = string_refs \ {v}
    /\ UNCHANGED <<destroy_list, unused, field, str, ref_count,
                   external_ref_count, handle, owner, stack_values>>

clearField(f) ==
    /\ victim # Nil
    /\ field[<<victim, f>>] # Nil
    /\ releaseValue(field[<<victim, f>>])
    /\ field' = [field EXCEPT ![<<victim, f>>] = Nil]
    /\ UNCHANGED <<values, destroy_list, unused, str, string_refs,
                   external_ref_count, handle, owner, stack_values, phase, victim>>

clearHandle(h) ==
    /\ victim # Nil
    /\ owner[h] = victim
    /\ releaseString(handle[h])
    /\ handle' = [handle EXCEPT ![h] = Nil]
    /\ owner' = [owner EXCEPT ![h] = Host]
    /\ UNCHANGED <<values, destroy_list, unused, field, str, string_refs,
                   ref_count, stack_values, phase, victim>>

Cleared(v) ==
    /\ \A f \in Fields : field[<<v, f>>] = Nil
    /\ \A h \in Handles : owner[h] # v

(***************************************************************************)
(* The end of clearValue, which leaves a value without a type.  The        *)
(* candidate sweep unregisters and deletes it, the mark-and-sweep and the  *)
(* shutdown move it to the destroy list.  The mark of a cleared value and  *)
(* the count of a freed one are never read again and are reset.            *)
(***************************************************************************)
endClear ==
    /\ victim # Nil
    /\ Cleared(victim)
    /\ values' = values \ {victim}
    /\ destroy_list' = IF gc_fix_in_progress
                       THEN destroy_list \cup {victim} ELSE destroy_list
    /\ str' = [str EXCEPT ![victim] = Nil]
    /\ marked' = marked \ {victim}
    /\ victim' = Nil
    /\ UNCHANGED <<unused, field, string_refs, ref_count, external_ref_count,
                   handle, owner, candidates, stack_values, phase>>

-----------------------------------------------------------------------------
(* gcFreeCandidateValues, first part: the sweep over the candidates.       *)

\* The stack is not looked at
badGcStart ==
    /\ phase = "idle"
    /\ phase' = "candidates"
    /\ marked' = {}
    /\ UNCHANGED <<values, destroy_list, unused, field, str, string_refs,
                   ref_count, external_ref_count, handle, owner, candidates,
                   stack_values, victim>>

\* ++gc_step_type, then the candidates found on the stack are marked
gcStart ==
    /\ phase = "idle"
    /\ phase' = "candidates"
    /\ marked' = candidates \cap OnStack
    /\ UNCHANGED <<values, destroy_list, unused, field, str, string_refs,
                   ref_count, external_ref_count, handle, owner, candidates,
                   stack_values, victim>>

\* A candidate that is held again leaves the table
gcUnlink(c, lost) ==
    /\ phase = "candidates" /\ victim = Nil
    /\ c \in candidates
    /\ ref_count[c] > 0 \/ external_ref_count[c] > 0
    /\ candidates' = candidates \ ({c} \cup lost)
    /\ UNCHANGED <<values, destroy_list, unused, field, str, string_refs,
                   ref_count, external_ref_count, handle, owner, marked,
                   stack_values, phase, victim>>

\* A candidate that nobody holds is cleared and deleted
gcFree(c, lost) ==
    /\ phase = "candidates" /\ victim = Nil
    /\ c \in candidates \ marked
    /\ ref_count[c] = 0 /\ external_ref_count[c] = 0
    /\ candidates' = candidates \ ({c} \cup lost)
    /\ startClear(c)
    /\ UNCHANGED <<values, marked, phase>>

gcEnd ==
    /\ phase = "candidates" /\ victim = Nil
    /\ phase' = "idle"
    /\ UNCHANGED <<values, destroy_list, unused, field, str, string_refs,
                   ref_count, external_ref_count, handle, owner, candidates,
                   marked, stack_values, victim>>

-----------------------------------------------------------------------------
(* gcFreeCandidateValues, second part: mark and sweep.                     *)

Closed(S) == \A v \in S, f \in Fields : field[<<v, f>>] # Nil => field[<<v, f>>] \in S

\* What the recursive mark() reaches from a set of values
ReachableFrom(R) ==
    {v \in Ids : \A S \in SUBSET Ids : R \subseteq S /\ Closed(S) => v \in S}

MarkRoots == {Root} \cup OnStack \cup candidates

\* Whatever is held by something is taken for reachable
badGcMarkHeld ==
    /\ phase = "candidates" /\ victim = Nil
    /\ phase' = "fix"
    /\ marked' = ReachableFrom(MarkRoots) \cup {v \in values : ref_count[v] > 0}
    /\ UNCHANGED <<values, destroy_list, unused, field, str, string_refs,
                   ref_count, external_ref_count, handle, owner, candidates,
                   stack_values, victim>>

gcMark ==
    /\ phase = "candidates" /\ victim = Nil
    /\ phase' = "fix"
    /\ marked' = ReachableFrom(MarkRoots)
    /\ UNCHANGED <<values, destroy_list, unused, field, str, string_refs,
                   ref_count, external_ref_count, handle, owner, candidates,
                   stack_values, victim>>

\* An unmarked string that C++ code pins is kept
gcKeepExternal(v) ==
    /\ phase = "fix" /\ victim = Nil
    /\ v \in values \ marked
    /\ external_ref_count[v] > 0
    /\ marked' = marked \cup {v}
    /\ UNCHANGED <<values, destroy_list, unused, field, str, string_refs,
                   ref_count, external_ref_count, handle, owner, candidates,
                   stack_values, phase, victim>>

gcSweep(v) ==
    /\ phase = "fix" /\ victim = Nil
    /\ v \in values \ marked
    /\ external_ref_count[v] = 0
    /\ startClear(v)
    /\ UNCHANGED <<values, candidates, marked, phase>>

gcSweepEnd ==
    /\ phase = "fix" /\ victim = Nil
    /\ values \subseteq marked
    /\ phase' = "destroy"
    /\ UNCHANGED <<values, destroy_list, unused, field, str, string_refs,
                   ref_count, external_ref_count, handle, owner, candidates,
                   marked, stack_values, victim>>

\* The value is deleted and stays in the candidate table
badDestroyValue(v) ==
    /\ phase \in {"destroy", "down_destroy"}
    /\ v \in destroy_list
    /\ destroy_list' = destroy_list \ {v}
    /\ ref_count' = [ref_count EXCEPT ![v] = 0]
    /\ UNCHANGED <<values, unused, field, str, string_refs, external_ref_count,
                   handle, owner, candidates, marked, stack_values, phase, victim>>

\* unregisterFreeCandidateValue and deleteValue for the destroy list
destroyValue(v) ==
    /\ phase \in {"destroy", "down_destroy"}
    /\ v \in destroy_list
    /\ destroy_list' = destroy_list \ {v}
    /\ candidates' = candidates \ {v}
    /\ marked' = marked \ {v}
    /\ ref_count' = [ref_count EXCEPT ![v] = 0]
    /\ UNCHANGED <<values, unused, field, str, string_refs, external_ref_count,
                   handle, owner, stack_values, phase, victim>>

destroyEnd ==
    /\ phase \in {"destroy", "down_destroy"}
    /\ destroy_list = {}
    /\ phase' = IF phase = "destroy" THEN "idle" ELSE "off"
    /\ UNCHANGED <<values, destroy_list, unused, field, str, string_refs,
                   ref_count, external_ref_count, handle, owner, candidates,
                   marked, stack_values, victim>>

-----------------------------------------------------------------------------
(* Core::shutdown clears every value, whatever its counts, then deletes    *)
(* the String objects of the core, then destroys the values.               *)

shutdown ==
    /\ phase = "idle"
    /\ phase' = "down"
    /\ marked' = {}
    /\ UNCHANGED <<values, destroy_list, unused, field, str, string_refs,
                   ref_count, external_ref_count, handle, owner, candidates,
                   stack_values, victim>>

shutdownClear(v) ==
    /\ phase = "down" /\ victim = Nil
    /\ v \in values
    /\ startClear(v)
    /\ UNCHANGED <<values, candidates, marked, phase>>

shutdownStrings ==
    /\ phase = "down" /\ victim = Nil
    /\ values = {}
    /\ phase' = "down_strings"
    /\ UNCHANGED <<values, destroy_list, unused, field, str, string_refs,
                   ref_count, external_ref_count, handle, owner, candidates,
                   marked, stack_values, victim>>

shutdownDestroy ==
    /\ phase = "down_strings"
    /\ \A h \in Handles : handle[h] = Nil
    /\ phase' = "down_destroy"
    /\ UNCHANGED <<values, destroy_list, unused, field, str, string_refs,
                   ref_count, external_ref_count, handle, owner, candidates,
                   marked, stack_values, victim>>

-----------------------------------------------------------------------------
Clearing ==
    \/ \E f \in Fields : clearField(f)
    \/ \E h \in Handles : clearHandle(h)
    \/ endClear

Collector ==
    \/ gcStart
    \/ \E c \in Ids, lost \in SUBSET candidates : gcUnlink(c, lost) \/ gcFree(c, lost)
    \/ gcEnd
    \/ gcMark
    \/ \E v \in Ids : gcKeepExternal(v) \/ gcSweep(v) \/ destroyValue(v)
    \/ gcSweepEnd
    \/ destroyEnd

Shutdown ==
    \/ shutdown
    \/ \E v \in Ids : shutdownClear(v)
    \/ shutdownStrings
    \/ shutdownDestroy

Next == Program \/ Clearing \/ Collector \/ Shutdown

Spec == Init /\ [][Next]_vars

-----------------------------------------------------------------------------
(* Properties.                                                             *)

\* The places of F that hold v
Pointing(F, v) == {p \in DOMAIN F : F[p] = v}

Holders(v) == Pointing(field, v)

Pins(v) == Pointing(handle, v)

\* Before Core::shutdown
Running == phase \in {"idle", "candidates", "fix", "destroy"}

\* References the core keeps for itself
CoreHolds(v) == IF v = Root THEN 1 ELSE 0

(***************************************************************************)
(* No pointer the machine may follow leads to freed memory: not from a     *)
(* field of an allocated value, the candidate table, the table of interned *)
(* strings, a String object, nor (until shutdown) the value stack.         *)
(***************************************************************************)
NoDangling ==
    /\ candidates \subseteq Allocated
    /\ string_refs \subseteq values
    /\ \A v \in Ids, f \in Fields :
          field[<<v, f>>] # Nil => v \in Allocated /\ field[<<v, f>>] \in Allocated
    /\ \A h \in Handles : handle[h] # Nil => handle[h] \in Allocated
    /\ Running => OnStack \subseteq values

(***************************************************************************)
(* A count never falls short of the references there are, so a count of    *)
(* zero means that nobody holds the value, and releaseValue's assertion    *)
(* ref_count > 0 cannot fail.                                              *)
(***************************************************************************)
CountsCoverHolders ==
    \A v \in Allocated :
        Cardinality(Holders(v)) + CoreHolds(v) <= ref_count[v]

(***************************************************************************)
(* Between two collections the count of a value that is not a string is    *)
(* exact, whatever mark-and-sweeps ran before: skipping the release of     *)
(* unmarked values (gc_fix_in_progress) leaves no stray count behind, so   *)
(* the candidate sweep can still free it one day.                          *)
(***************************************************************************)
ExactCounts ==
    phase = "idle" =>
        \A v \in values : str[v] = Nil =>
            ref_count[v] = Cardinality(Holders(v)) + CoreHolds(v)

(***************************************************************************)
(* Two live strings never have the same content, and between collections   *)
(* pushStringValue finds every live string: equality of strings is         *)
(* equality of pointers (String::operator==).                              *)
(***************************************************************************)
InternedOnce ==
    /\ \A v, w \in string_refs : str[v] = str[w] => v = w
    /\ phase = "idle" => {v \in values : str[v] # Nil} \subseteq string_refs

Pinned == {v \in Ids : \E h \in Handles : owner[h] = Host /\ handle[h] = v}

Reachable == ReachableFrom({Root} \cup OnStack \cup Pinned)

(***************************************************************************)
(* No step before shutdown frees or clears a value that the program can    *)
(* still reach from the globals, the stack or a String object.             *)
(***************************************************************************)
NeverFreesReachable ==
    [][Running => \A v \in Reachable : v \in values' /\ v # victim']_vars

(***************************************************************************)
(* When a mark-and-sweep ends, every surviving value other than a string   *)
(* is reachable from the globals, the stack or a candidate: cycles that    *)
(* reference counting cannot free are gone.                                *)
(***************************************************************************)
FullCollectionIsComplete ==
    [][phase = "destroy" /\ phase' = "idle" =>
          {v \in values : str[v] = Nil} \subseteq ReachableFrom(MarkRoots)]_vars

(***************************************************************************)
(* Core::shutdown frees everything, pinned strings and cycles included.    *)
(***************************************************************************)
ShutdownFreesAll ==
    phase = "off" => Allocated = {} /\ candidates = {} /\ string_refs = {}
-----------------------------------------------------------------------------
(* The inductive invariant behind NoDangling, by subject.                  *)

PhasesOK ==
    /\ values \cap destroy_list = {}
    /\ unused \cap Allocated = {}
    /\ phase \in {"idle", "candidates", "off"} => destroy_list = {}
    /\ phase \in {"down_strings", "down_destroy", "off"} => values = {}
    /\ phase \in {"down_destroy", "off"} => \A h \in Handles : handle[h] = Nil
    /\ victim # Nil =>
          phase \in {"candidates", "fix", "down"} /\ victim \in values \ string_refs
    /\ Running => Root \in values

\* Only registered values that are not strings hold references
FieldsOK ==
    \A v \in Ids, f \in Fields : field[<<v, f>>] # Nil =>
        v \in values /\ str[v] = Nil /\ field[<<v, f>>] \in Allocated

PinsOK ==
    /\ \A v \in Ids : external_ref_count[v] = Cardinality(Pins(v))
    /\ \A h \in Handles :
          /\ handle[h] # Nil => handle[h] \in Allocated
          /\ handle[h] # Nil /\ Running => str[handle[h]] # Nil
          /\ owner[h] # Host => owner[h] \in values /\ handle[h] # Nil

StringsOK ==
    /\ string_refs \subseteq values
    /\ \A v \in string_refs : str[v] # Nil
    /\ \A v, w \in string_refs : str[v] = str[w] => v = w
    /\ \A v \in values : str[v] # Nil => v \in string_refs \cup {victim}
    /\ \A v \in Ids \ values : str[v] = Nil

CandidatesOK ==
    /\ candidates \subseteq Allocated
    /\ Running => OnStack \subseteq values
    /\ phase = "candidates" => candidates \cap OnStack \subseteq marked
    /\ phase = "candidates" /\ victim # Nil =>
          /\ victim \notin candidates \cup OnStack
          /\ ref_count[victim] = 0 /\ external_ref_count[victim] = 0

\* From the mark to the end of the destroy loop the marked values are
\* closed under references, and nothing outside them is held from inside
MarksOK ==
    phase \in {"fix", "destroy"} =>
        /\ {Root} \cup OnStack \cup candidates \subseteq marked
        /\ marked \subseteq values
        /\ Closed(marked)
        /\ \A v \in destroy_list \cup {victim} : v # Nil =>
              v \notin marked /\ external_ref_count[v] = 0
        /\ phase = "destroy" => values \subseteq marked

(***************************************************************************)
(* What every step of the machine keeps: the parts above and the counts,   *)
(* which together give NoDangling, InternedOnce and ShutdownFreesAll.      *)
(***************************************************************************)
IndInv ==
    /\ TypeOK
    /\ PhasesOK
    /\ FieldsOK
    /\ CountsCoverHolders
    /\ PinsOK
    /\ StringsOK
    /\ CandidatesOK
    /\ MarksOK
=============================================================================
