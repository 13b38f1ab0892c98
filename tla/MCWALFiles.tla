----------------------------- MODULE MCWALFiles -----------------------------
(***************************************************************************)
(* WALFiles for TLC: segments of two entries, so that a truncation may     *)
(* fall on a segment boundary, inside a segment and inside the tail.       *)
(***************************************************************************)
EXTENDS WALFiles
=============================================================================
