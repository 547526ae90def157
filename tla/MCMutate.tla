------------------------------ MODULE MCMutate ------------------------------
(* Mutate on small sets: the configurations mutate_*.cfg instantiate it.    *)
EXTENDS Mutate, TLC

\* Commands and proposal ids are interchangeable; contents are not (their
\* roles StageContents and EditContents differ).
Symmetry == Permutations(Procs) \cup Permutations(ProposalIds)
=============================================================================
