------------------------ MODULE MCHistoricalDBCache ------------------------
(* HistoricalDBCache for TLC. Callers, handles and versions are symmetric,  *)
(* but the run checks liveness, for which TLC must not use the symmetry.    *)
EXTENDS HistoricalDBCache
=============================================================================
