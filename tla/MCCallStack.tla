---------------------------- MODULE MCCallStack ----------------------------
(***************************************************************************)
(* CallStack for a program of three nested functions: the innermost uses   *)
(* the variable of the outermost, the one between only passes it on.       *)
(***************************************************************************)
EXTENDS CallStack, TLC

CONSTANTS main, middle, inner

Nesting == (main :> Nil) @@ (middle :> main) @@ (inner :> middle)

Symmetry == Permutations(Scopes) \cup Permutations(Funcs) \cup Permutations(Vals)
=============================================================================
