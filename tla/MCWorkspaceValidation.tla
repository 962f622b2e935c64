----------------------- MODULE MCWorkspaceValidation -----------------------
(* Instances of WorkspaceValidation for TLC. *)
EXTENDS WorkspaceValidation, TLC

Symmetry == Permutations(Proc) \cup Permutations(Release)
            \cup Permutations(Tx) \cup Permutations(Content)
=============================================================================
