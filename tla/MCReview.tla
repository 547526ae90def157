------------------------------ MODULE MCReview ------------------------------
(* Review on small sets: the configurations review_*.cfg instantiate it.    *)
EXTENDS Review, TLC

Symmetry == Permutations(Reviews) \cup Permutations(Shows) \cup Permutations(Sessions)
=============================================================================
