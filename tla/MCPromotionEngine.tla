------------------------- MODULE MCPromotionEngine -------------------------
(* Instances of PromotionEngine for TLC. *)
EXTENDS PromotionEngine, TLC

(* Nothing in the engine orders or compares identifiers. *)
Symmetry == Permutations(Proc) \cup Permutations(Release)
            \cup Permutations(Tx) \cup Permutations(Content)
=============================================================================
