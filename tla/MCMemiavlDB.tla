----------------------------- MODULE MCMemiavlDB -----------------------------
(* Instances of MemiavlDB for TLC.                                         *)
EXTENDS MemiavlDBDurable, TLC

Symmetry == Permutations(ChangeSets)
=============================================================================
