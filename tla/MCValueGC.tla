----------------------------- MODULE MCValueGC -----------------------------
(* ValueGC on a few values, with the view of MCRefGC.                      *)
EXTENDS ValueGC

View == <<values, destroy_list, unused, field, str, string_refs, ref_count,
          external_ref_count, handle, owner, candidates, phase, victim,
          IF phase = "idle" THEN {} ELSE marked,
          IF Running THEN stack_values ELSE << >>, table, loop>>
=============================================================================
