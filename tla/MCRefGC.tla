------------------------------ MODULE MCRefGC ------------------------------
(***************************************************************************)
(* RefGC on a few values.  The values that are not immortal are            *)
(* interchangeable.  States are told apart without what nothing reads: the *)
(* marks between two collections, and the stack once shutdown has begun.   *)
(***************************************************************************)
EXTENDS RefGC, TLC

Symmetry == Permutations(Ids \ {Root})

View == <<values, destroy_list, unused, field, str, string_refs, ref_count,
          external_ref_count, handle, owner, candidates, phase, victim,
          IF phase = "idle" THEN {} ELSE marked,
          IF Running THEN stack_values ELSE << >> >>
=============================================================================
