----------------------------- MODULE MCLifecycle -----------------------------
(* Lifecycle on small sets: lifecycle*.cfg instantiate it.                  *)
EXTENDS Lifecycle, TLC

CONSTANTS l1, a1

\* The reviewer answers the same for the same lesson.
OneAnswer == {<<l1, a1>>}

Symmetry == Permutations(Procs) \cup Permutations(Nonces) \cup Permutations(ProposalIds)
              \cup Permutations(Sessions)
=============================================================================
