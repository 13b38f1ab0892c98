-------------------------- MODULE MemiavlDBDurable --------------------------
(* memiavl.DB implements a durable history. *)
EXTENDS MemiavlDB

Durable == INSTANCE DurableHistory
           WITH Blocks <- ChangeSets, log <- Recovered, acked <- durable,
                rolling <- IF main = "rollbackDelete" THEN Len(tree) ELSE -1

(* Through commits, rewrites, prunes, crashes and rollbacks, what a Load   *)
(* would find on disk only grows by blocks the WAL or a snapshot received, *)
(* is never below what Commit, WaitAsyncCommit or Close acknowledged, and  *)
(* is only cut by a rollback, at its target (memiavl/db.go).               *)
ImplementsDurableHistory == Durable!Spec
=============================================================================
