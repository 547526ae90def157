----------------------------- MODULE MCCapture -----------------------------
(* Capture on small sets: the configurations capture_*.cfg instantiate it.  *)
EXTENDS Capture, TLC

Symmetry == Permutations(Hooks) \cup Permutations(Turns)
=============================================================================
