--------------------------- MODULE DurableHistory ---------------------------
(***************************************************************************)
(* What memiavl.DB promises of its directory, without snapshots and logs:  *)
(* a history of blocks that a Load finds, which only grows, except for a   *)
(* rollback, and which holds every block whose commit was acknowledged.    *)
(***************************************************************************)
EXTENDS Integers, Sequences

CONSTANT Blocks

VARIABLES
    log,      \* the blocks a Load of the latest version finds
    acked,    \* how many of them were acknowledged
    rolling   \* the length a rollback cuts the history to, or NotRolling

NotRolling == -1

IsPrefixOf(s, t) == Len(s) <= Len(t) /\ SubSeq(t, 1, Len(s)) = s

Init == log = <<>> /\ acked = 0 /\ rolling = NotRolling

(* blocks become durable, perhaps several at once *)
Extend ==
    /\ rolling = NotRolling
    /\ IsPrefixOf(log, log') /\ log' \in Seq(Blocks)
    /\ UNCHANGED <<acked, rolling>>

(* Commit, WaitAsyncCommit or Close returns *)
Acknowledge ==
    /\ acked' \in acked .. Len(log)
    /\ UNCHANGED <<log, rolling>>

(* a rollback to n blocks takes effect: the blocks above may go now *)
BeginRollback ==
    /\ rolling = NotRolling /\ rolling' \in 0 .. Len(log)
    /\ acked' = IF acked < rolling' THEN acked ELSE rolling'
    /\ IsPrefixOf(log', log) /\ Len(log') >= rolling'

(* ... and are gone *)
EndRollback ==
    /\ rolling # NotRolling /\ rolling' = NotRolling
    /\ log' = SubSeq(log, 1, rolling)
    /\ UNCHANGED acked

(* the process died in the rollback *)
AbandonRollback ==
    /\ rolling # NotRolling /\ rolling' = NotRolling
    /\ UNCHANGED <<log, acked>>

Next == Extend \/ Acknowledge \/ BeginRollback \/ EndRollback \/ AbandonRollback

Spec == Init /\ [][Next]_<<log, acked, rolling>>
=============================================================================
