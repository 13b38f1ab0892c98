----------------------------- MODULE MCIavlTree -----------------------------
(***************************************************************************)
(* Instances of IavlTree.  Five keys are the fewest for which a removal    *)
(* rotates; three keys with two values keep the copies and the cache busy. *)
(***************************************************************************)
EXTENDS IavlTree

WideBlocks == <<5, 2>>
CopyBlocks == <<3, 2>>
=============================================================================
