----------------------------- MODULE OrderedMap -----------------------------
(***************************************************************************)
(* What the table of an ObjectScript value promises to scripts: a map that *)
(* remembers the order of insertion, with iterators that survive whatever  *)
(* the body of the loop does to the map.  An open iterator still has a     *)
(* sequence of keys to return.  A deleted key leaves it, a key inserted at *)
(* the end joins the ascending iterators that have not run out, sorting    *)
(* keeps the next key and takes the rest from the new order.               *)
(*                                                                         *)
(* Module PropTable is the hash table with its linked lists and pointers.  *)
(***************************************************************************)
EXTENDS Naturals, Sequences, SequencesExt

CONSTANTS Keys, Vals, Iters

VARIABLES
    entries,    \* the pairs <<key, value>> in order
    todo        \* todo[i]: [open, up, keys], what iterator i has yet to return

vars == <<entries, todo>>

Closed == [open |-> FALSE, up |-> TRUE, keys |-> << >>]

Init ==
    /\ entries = << >>
    /\ todo = [i \in Iters |-> Closed]

KeysOf(e) == [n \in DOMAIN e |-> e[n][1]]

Present == {e[1] : e \in ToSet(entries)}

Set(v) ==
    /\ \E n \in DOMAIN entries : entries' = [entries EXCEPT ![n][2] = v]
    /\ UNCHANGED todo

\* An iterator that has run out stays so
Insert(k, v) ==
    /\ entries' = Append(entries, <<k, v>>)
    /\ todo' = [i \in Iters |->
                  LET t == todo[i] IN
                  IF t.up /\ t.keys # << >> THEN [t EXCEPT !.keys = Append(@, k)] ELSE t]

Without(s, k) ==
    IF k \in ToSet(s) THEN RemoveAt(s, CHOOSE n \in DOMAIN s : s[n] = k) ELSE s

Delete(k) ==
    /\ \E n \in DOMAIN entries : entries[n][1] = k /\ entries' = RemoveAt(entries, n)
    /\ todo' = [i \in Iters |-> [todo[i] EXCEPT !.keys = Without(@, k)]]

Clear ==
    /\ entries' = << >>
    /\ todo' = [i \in Iters |-> Closed]

\* The keys from k to the end of s, or to its beginning
From(s, k, up) ==
    LET n == CHOOSE j \in DOMAIN s : s[j] = k
    IN  IF up THEN SubSeq(s, n, Len(s)) ELSE Reverse(SubSeq(s, 1, n))

Sort ==
    /\ Len(entries') = Len(entries) /\ ToSet(entries') = ToSet(entries)
    /\ todo' = [i \in Iters |->
                  LET t == todo[i] IN
                  IF t.keys = << >> THEN t
                  ELSE [t EXCEPT !.keys = From(KeysOf(entries'), Head(@), t.up)]]

Open(i, up) ==
    /\ ~todo[i].open
    /\ entries # << >>
    /\ todo' = [todo EXCEPT ![i] =
                  [open |-> TRUE, up |-> up,
                   keys |-> IF up THEN KeysOf(entries) ELSE Reverse(KeysOf(entries))]]
    /\ UNCHANGED entries

Step(i) ==
    /\ todo[i].keys # << >>
    /\ todo' = [todo EXCEPT ![i].keys = Tail(@)]
    /\ UNCHANGED entries

Close(i) ==
    /\ todo[i].open
    /\ todo' = [todo EXCEPT ![i] = Closed]
    /\ UNCHANGED entries

Next ==
    \/ \E v \in Vals : Set(v)
    \/ \E k \in Keys \ Present, v \in Vals : Insert(k, v)
    \/ \E k \in Present : Delete(k)
    \/ Clear
    \/ Sort
    \/ \E i \in Iters : Step(i) \/ Close(i) \/ \E up \in BOOLEAN : Open(i, up)

Spec == Init /\ [][Next]_vars
=============================================================================
