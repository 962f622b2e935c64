-------------------------- MODULE MCPrivateRuntime --------------------------
(* Instances of PrivateRuntime for TLC: two projects. *)
EXTENDS PrivateRuntime, TLC

CONSTANTS c1, c2, mixed, x1, x2   \* members of Content and of Project

(* A release of each project, and one whose control documents were changed *)
(* to the second project's after the first had been loaded.                *)
MCReceiptOf == (c1 :> x1 @@ c2 :> x2 @@ mixed :> x1)
MCControlOf == (c1 :> x1 @@ c2 :> x2 @@ mixed :> x2)

Symmetry == Permutations(Proc) \cup Permutations(Release) \cup Permutations(Tx)
=============================================================================
