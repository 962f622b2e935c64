--------------------------- MODULE MCPackageBuild ---------------------------
(* Instances of PackageBuild for TLC. *)
EXTENDS PackageBuild, TLC

Symmetry == Permutations(Proc) \cup Permutations(Id)
=============================================================================
