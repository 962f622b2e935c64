----------------------- MODULE MCPromotionRefinement -----------------------
(* Instances of PromotionRefinement for TLC. *)
EXTENDS PromotionRefinement, PromotionInvariant, TLC

Symmetry == Permutations(Proc) \cup Permutations(Release)
            \cup Permutations(Tx) \cup Permutations(Content)
=============================================================================
