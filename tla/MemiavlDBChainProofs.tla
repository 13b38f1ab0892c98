------------------------- MODULE MemiavlDBChainProofs -------------------------
(***************************************************************************)
(* memiavl.DB: when Commit writes the WAL itself, no snapshot is newer     *)
(* than the WAL.  Then what disk and memory contain: blocks of one chain,  *)
(* which the steps of a Commit keep.                                       *)
(***************************************************************************)
EXTENDS MemiavlDBProofs

(* Written by Commit itself, the WAL is never behind the tree, except      *)
(* between the commit to the tree and the write of its entry.              *)
SyncInv ==
    /\ writer = "none" /\ main \notin {"send", "flush"}
    /\ \A v \in DOMAIN snaps : Len(snaps[v]) <= LastIndex
    /\ rw.pc \in {"write", "rename", "link"} => Len(rw.base) <= LastIndex
    /\ rw.pc \in {"catchup", "result"} => Len(rw.mtree) <= LastIndex
    /\ main \in {"idle", "check", "wait", "switch", "prune", "rewrite"} =>
         Len(tree) <= LastIndex

-----------------------------------------------------------------------------
(* The synchronous WAL: the inductive step. *)

(* Steps that leave the disk, or lengthen the WAL, and keep the tasks. *)
LEMMA SyncFrame ==
    ASSUME SyncInv, LastIndex' \in Nat, LastIndex \in Nat, LastIndex <= LastIndex',
           \A v \in DOMAIN snaps' : v \in DOMAIN snaps /\ snaps'[v] = snaps[v],
           writer' = "none", main' \notin {"send", "flush"},
           rw' = rw \/ rw'.pc \notin {"write", "rename", "link", "catchup", "result"},
           \A v \in DOMAIN snaps : Len(snaps[v]) \in Nat,
           Len(rw.base) \in Nat, Len(rw.mtree) \in Nat,
           main' \in {"idle", "check", "wait", "switch", "prune", "rewrite"} =>
               Len(tree') <= LastIndex'
    PROVE  SyncInv'
<1>1. \A v \in DOMAIN snaps' : Len(snaps'[v]) <= LastIndex'
  <2>. SUFFICES ASSUME NEW v \in DOMAIN snaps' PROVE Len(snaps'[v]) <= LastIndex'
    OBVIOUS
  <2>1. v \in DOMAIN snaps /\ snaps'[v] = snaps[v] /\ Len(snaps[v]) <= LastIndex
    BY DEF SyncInv
  <2>. QED  BY <2>1
<1>2. /\ rw'.pc \in {"write", "rename", "link"} => Len(rw'.base) <= LastIndex'
      /\ rw'.pc \in {"catchup", "result"} => Len(rw'.mtree) <= LastIndex'
  BY DEF SyncInv
<1>. QED  BY <1>1, <1>2 DEF SyncInv

LEMMA LastIndexType == ASSUME IndInv PROVE LastIndex \in Nat
BY LenProperties DEF IndInv, TypeOK, LastIndex

LEMMA CallerSync ==
    ASSUME IndInv, SyncInv, IndInv', ~Async,
           \/ \E cs \in ChangeSets : Commit(cs)
           \/ QuietCaller \/ SendWAL \/ SendWALQuit \/ rewriteIfApplicable \/ Flushed \/ Down
    PROVE  SyncInv'
<1>1. writer = "none" /\ main \notin {"send", "flush"}
  BY DEF SyncInv
<1>2. CASE \E cs \in ChangeSets : Commit(cs)
  <2>1. UNCHANGED <<dirVars, walVars, rw, writer>> /\ main' = "write"
    BY <1>2 DEF Commit
  <2>. QED  BY <1>1, <2>1, SyncFrame, LastIndexType, Lengths DEF dirVars, walVars, LastIndex
<1>3. CASE QuietCaller
  <2>1. /\ UNCHANGED <<dirVars, walVars, treeVars, writerVars>>
        /\ rw' = rw \/ rw'.pc = "none"
        /\ main' # "send" /\ main' # "flush"
        /\ main' \in {"idle", "check", "wait", "switch", "prune", "rewrite"} =>
             main \in {"idle", "check", "wait", "switch", "prune", "rewrite"}
    BY <1>1, <1>3, QuietCallerEffect DEF NoRewrite
  <2>2. main' \in {"idle", "check", "wait", "switch", "prune", "rewrite"} => Len(tree') <= LastIndex'
    BY <2>1 DEF SyncInv, walVars, treeVars, LastIndex
  <2>. QED  BY <1>1, <2>1, <2>2, SyncFrame, LastIndexType, Lengths
            DEF dirVars, walVars, writerVars, LastIndex
<1>4. CASE SendWAL \/ SendWALQuit
  BY <1>1, <1>4 DEF SendWAL, SendWALQuit
<1>5. CASE rewriteIfApplicable
  <2>1. /\ UNCHANGED <<dirVars, walVars, treeVars, writerVars>> /\ main = "rewrite" /\ main' = "idle"
        /\ rw' = rw \/ (rw'.pc = "write" /\ rw'.base = tree)
    BY <1>5 DEF rewriteIfApplicable
  <2>2. Len(tree) <= LastIndex /\ LastIndex' = LastIndex /\ snaps' = snaps /\ tree' = tree
    BY <2>1 DEF SyncInv, walVars, treeVars, dirVars, LastIndex
  <2>. QED  BY <1>1, <2>1, <2>2 DEF SyncInv, writerVars
<1>6. CASE Flushed
  <2>1. /\ UNCHANGED <<dirVars, walVars, rw>> /\ writer' = "none" /\ main' = "closeRewrite"
    BY <1>1, <1>6 DEF Flushed, ChanClosed
  <2>. QED  BY <2>1, SyncFrame, LastIndexType, Lengths DEF dirVars, walVars, LastIndex
<1>7. CASE Down
  <2>1. /\ UNCHANGED <<dirVars, walVars>> /\ writer' = "none" /\ main' = "down" /\ rw'.pc = "none"
    BY <1>7 DEF Down, NoRewrite
  <2>. QED  BY <2>1, SyncFrame, LastIndexType, Lengths DEF dirVars, walVars, LastIndex
<1>. QED  BY <1>2, <1>3, <1>4, <1>5, <1>6, <1>7

(* The write of the entry makes up for the commit to the tree. *)
LEMMA WriteSync ==
    ASSUME IndInv, SyncInv, IndInv', NEW b \in Seq(WalEntries), WriteStep(b)
    PROVE  SyncInv'
<1>1. /\ main = "write" /\ b = <<Entry>> /\ UNCHANGED <<writer, dirVars, treeVars, rw>>
      /\ main' = "failed" \/ (main' = "check" /\ WriteBatch(b))
      /\ WriteBatch(b) \/ WriteBatchFails(b)
      /\ writer' = "none"
  BY DEF SyncInv, WriteStep
<1>2. tree \in Seq(ChangeSets) /\ tree # <<>> /\ walLog \in Seq(ChangeSets)
  BY <1>1 DEF IndInv, TypeOK, MainInv
<1>3. /\ Len(walLog) <= Len(walLog')
      /\ WriteBatch(b) => \A j \in 1..Len(b) : b[j].index <= Len(walLog')
  <2>1. walLog \in Seq(ChangeSets) /\ (WriteBatch(b) \/ WriteBatchFails(b))
    BY <1>1, <1>2
  <2>. QED  BY <2>1, WriteEntries, Zenon
<1>4. WriteBatch(b) => Len(tree) <= Len(walLog')
  <2>1. Len(b) = 1 /\ b[1].index = Len(tree)
    BY <1>1, <1>2, EntryIndex
  <2>. QED  BY <1>3, <2>1
<1>5. LastIndex <= LastIndex' /\ (main' = "check" => Len(tree') <= LastIndex')
  BY <1>1, <1>3, <1>4 DEF LastIndex, treeVars
<1>6. LastIndex \in Nat /\ LastIndex' \in Nat
  BY LenProperties DEF IndInv, TypeOK, LastIndex
<1>. QED  BY <1>1, <1>5, <1>6, SyncFrame, Lengths DEF dirVars

LEMMA OpenSync ==
    ASSUME IndInv, SizeInv, SyncInv, IndInv',
           \/ SwitchTree \/ LoadLatest
           \/ \E v \in Targets : LoadTarget(v) \/ LoadForOverwriting(v)
    PROVE  SyncInv'
<1>. LastIndex \in Nat /\ current \in DOMAIN snaps /\ TypeOK
  BY LastIndexType DEF IndInv, DirInv
<1>1. CASE SwitchTree
  <2>1. /\ UNCHANGED <<dirVars, walVars, writerVars>> /\ rw'.pc = "none"
        /\ main = "switch" /\ main' = "prune" /\ tree' = catchupWAL(rw.mtree, 0)
    BY <1>1 DEF SwitchTree, NoRewrite
  <2>2. Len(rw.mtree) <= LastIndex
    BY <2>1 DEF SyncInv, IndInv, MainInv
  <2>3. Len(tree') <= LastIndex
    BY <2>1, <2>2, CatchupAll, Lengths DEF TypeOK
  <2>. QED  BY <2>1, <2>3, SyncFrame, Lengths DEF dirVars, walVars, writerVars, LastIndex, SyncInv
<1>2. CASE LoadLatest
  <2>1. /\ UNCHANGED <<dirVars, walVars, writerVars, rw>> /\ main' = "idle"
        /\ tree' = catchupWAL(snaps[current], 0)
    BY <1>2 DEF LoadLatest, Opened
  <2>2. Len(snaps[current]) <= LastIndex
    BY DEF SyncInv
  <2>3. Len(tree') <= LastIndex
    BY <2>1, <2>2, CatchupAll, Lengths DEF TypeOK
  <2>. QED  BY <2>1, <2>3, SyncFrame, Lengths DEF dirVars, walVars, writerVars, LastIndex, SyncInv
<1>3. ASSUME NEW v \in Targets, LoadTarget(v) PROVE SyncInv'
  <2>1. /\ UNCHANGED <<dirVars, walVars, writerVars, rw>> /\ main' = "idle"
        /\ tree' = LoadAt(v) /\ SnapshotsUpTo(v) # {}
    BY <1>3 DEF LoadTarget, Opened, LoadableAt
  <2>2. Len(snaps[seekSnapshot(v)]) <= LastIndex
    BY <2>1, SeekSnapshot, TargetType DEF SyncInv, TypeOK
  <2>3. Len(tree') <= LastIndex
    BY <2>1, <2>2, LoadAtLength
  <2>. QED  BY <2>1, <2>3, SyncFrame, Lengths DEF dirVars, walVars, writerVars, LastIndex, SyncInv
<1>4. ASSUME NEW v \in Targets, LoadForOverwriting(v) PROVE SyncInv'
  <2>1. UNCHANGED <<dirVars, walVars, writerVars, rw>> /\ main' = "rollbackLink"
    BY <1>4 DEF LoadForOverwriting, Opened
  <2>. QED  BY <2>1, SyncFrame, Lengths DEF dirVars, walVars, writerVars, LastIndex, SyncInv
<1>. QED  BY <1>1, <1>2, <1>3, <1>4

(* A rollback's target, its tree and its place in the WAL. *)
LEMMA RollbackTarget ==
    ASSUME IndInv, SizeInv, main \in Rollback
    PROVE  /\ walIndex(arg) = Len(tree) /\ Len(tree) <= LastIndex /\ Len(tree) > 0
           /\ \A v \in DOMAIN snaps : v <= arg <=> Len(snaps[v]) <= Len(tree)
<1>1. tree \in Seq(ChangeSets) /\ tree # <<>> /\ Version(tree) = arg
  BY DEF IndInv, TypeOK, SizeInv
<1>2. walIndex(arg) = Len(tree)
  BY <1>1, IndexOfVersion
<1>3. Len(tree) <= LastIndex /\ Len(tree) > 0
  BY <1>2 DEF IndInv, MainInv, InLog
<1>4. ASSUME NEW v \in DOMAIN snaps PROVE v <= arg <=> Len(snaps[v]) <= Len(tree)
  <2>1. snaps[v] \in Seq(ChangeSets) /\ Version(snaps[v]) = v
    BY DEF IndInv, TypeOK, DirInv
  <2>. QED  BY <1>1, <2>1, VersionOrder
<1>. QED  BY <1>2, <1>3, <1>4

(* What TruncateBack leaves. *)
LEMMA RollbackCutEntries ==
    ASSUME IndInv, SizeInv, RollbackCut
    PROVE  /\ walLog' \in Seq(ChangeSets) /\ LastIndex' = Len(tree) /\ Len(tree) <= LastIndex
           /\ \A i \in 1..Len(tree) : walLog'[i] = walLog[i]
           /\ \A v \in DOMAIN snaps : Len(snaps[v]) <= Len(tree)
<1>1. /\ main \in Rollback /\ NewerSnapshots = {} /\ walLog' = SubSeq(walLog, 1, walIndex(arg))
  BY DEF RollbackCut, Rollback
<1>2. walLog \in Seq(ChangeSets) /\ Len(tree) \in Nat /\ arg \in Nat /\ DOMAIN snaps \subseteq Nat
  BY LenProperties DEF IndInv, TypeOK
<1>3. walLog' = SubSeq(walLog, 1, Len(tree)) /\ Len(tree) <= Len(walLog) /\ Len(tree) > 0
  BY <1>1, RollbackTarget DEF LastIndex
<1>4. \A i \in 1..Len(tree) : walLog[i] \in ChangeSets
  BY <1>2, <1>3, ElementOfSeq, LenProperties
<1>5. /\ walLog' \in Seq(ChangeSets) /\ Len(walLog') = Len(tree)
      /\ \A i \in 1..Len(tree) : walLog'[i] = walLog[i]
  BY <1>2, <1>3, <1>4, SubSeqProperties
<1>6. \A v \in DOMAIN snaps : v <= arg
  BY <1>1, <1>2 DEF NewerSnapshots
<1>7. \A v \in DOMAIN snaps : Len(snaps[v]) <= Len(tree)
  BY <1>1, <1>6, RollbackTarget
<1>. QED  BY <1>3, <1>5, <1>7 DEF LastIndex

LEMMA RollbackSync ==
    ASSUME IndInv, SizeInv, SyncInv, IndInv', RollbackLink \/ RollbackDelete \/ RollbackCut
    PROVE  SyncInv'
<1>1. /\ UNCHANGED <<arg, treeVars, writerVars, rw>> /\ main \in Rollback /\ rw.pc = "none"
      /\ \A v \in DOMAIN snaps' : v \in DOMAIN snaps /\ snaps'[v] = snaps[v]
  BY Zenon DEF RollbackLink, RollbackDelete, RollbackCut, rollbackFrame, Rollback, IndInv, MainInv,
         dirVars, WithoutSnapshot, Restrict
<1>2. CASE RollbackLink \/ RollbackDelete
  <2>1. UNCHANGED walLog /\ main' = "rollbackDelete"
    BY <1>2 DEF RollbackLink, RollbackDelete
  <2>. QED  BY <1>1, <2>1, SyncFrame, LastIndexType, Lengths DEF writerVars, LastIndex, SyncInv
<1>3. CASE RollbackCut
  <2>1. /\ LastIndex' = Len(tree) /\ \A v \in DOMAIN snaps : Len(snaps[v]) <= Len(tree)
    BY <1>3, RollbackCutEntries
  <2>2. main' = "idle" /\ tree' = tree /\ writer' = "none" /\ rw'.pc = "none"
    BY <1>1, <1>3 DEF RollbackCut, treeVars, writerVars, SyncInv
  <2>. QED  BY <1>1, <2>1, <2>2, Lengths DEF SyncInv
<1>. QED  BY <1>2, <1>3

LEMMA BackgroundSync ==
    ASSUME IndInv, SyncInv, IndInv',
           QuietWriter \/ QuietRewrite \/ RewriteRename \/ RewriteLink \/ QuietPrune \/ PruneRemove
    PROVE  SyncInv'
<1>. LastIndex \in Nat /\ current \in DOMAIN snaps /\ TypeOK /\ writer = "none"
  BY LastIndexType DEF IndInv, DirInv, SyncInv
<1>1. CASE QuietWriter
  BY <1>1, Zenon DEF QuietWriter, WriterRecv, WriterDrain, WriterLatch, WriterClosed, WriterExit
<1>2. CASE QuietRewrite
  <2>1. /\ UNCHANGED <<dirVars, walVars, main, treeVars, writerVars>>
        /\ \/ rw.pc = "write" /\ rw'.pc = "rename" /\ rw'.base = rw.base
           \/ rw'.pc \in {"closed", "error"}
           \/ rw'.pc = "catchup" /\ rw'.mtree = snaps[current]
           \/ rw.pc = "catchup" /\ rw'.pc = "result" /\ rw'.mtree = catchupWAL(rw.mtree, 0)
    BY <1>2, QuietRewriteEffect, Zenon
  <2>2. LastIndex' = LastIndex /\ snaps' = snaps /\ tree' = tree /\ writer' = writer
    BY <2>1 DEF dirVars, walVars, treeVars, writerVars, LastIndex
  <2>3. rw.pc = "catchup" => Len(catchupWAL(rw.mtree, 0)) <= LastIndex
    <3>1. rw.mtree \in Seq(ChangeSets) /\ walLog \in Seq(ChangeSets)
      BY DEF TypeOK
    <3>2. Len(catchupWAL(rw.mtree, 0))
            = IF Len(rw.mtree) < LastIndex THEN LastIndex ELSE Len(rw.mtree)
      BY <3>1, CatchupAll
    <3>. QED  BY <3>2, Lengths DEF SyncInv
  <2>. QED  BY <2>1, <2>2, <2>3 DEF SyncInv
<1>3. CASE RewriteRename
  <2>1. /\ UNCHANGED <<walVars, main, treeVars, writerVars>>
        /\ rw.pc = "rename" /\ rw'.pc = "link" /\ rw'.base = rw.base
        /\ \A v \in DOMAIN snaps : v \in DOMAIN snaps' /\ snaps'[v] = snaps[v]
        /\ \A v \in DOMAIN snaps' : v \in DOMAIN snaps \/ snaps'[v] = rw.base
    BY <1>3, RewriteRenameEffect
  <2>2. LastIndex' = LastIndex /\ tree' = tree /\ writer' = writer
    BY <2>1 DEF walVars, treeVars, writerVars, LastIndex
  <2>. QED  BY <2>1, <2>2 DEF SyncInv
<1>4. CASE RewriteLink
  <2>1. UNCHANGED <<snaps, walVars, main, treeVars, writerVars>> /\ rw'.pc = "load"
    BY <1>4 DEF RewriteLink, rwFrame, TypeOK
  <2>. QED  BY <2>1 DEF SyncInv, walVars, treeVars, writerVars, LastIndex
<1>5. CASE QuietPrune \/ PruneRemove
  <2>1. /\ UNCHANGED <<walLog, main, treeVars, writerVars, rw>>
        /\ \A v \in DOMAIN snaps' : v \in DOMAIN snaps /\ snaps'[v] = snaps[v]
    BY <1>5, PruneEffect
  <2>. QED  BY <2>1 DEF SyncInv, treeVars, writerVars, LastIndex
<1>. QED  BY <1>1, <1>2, <1>3, <1>4, <1>5

LEMMA StepSync ==
    ASSUME IndInv, SizeInv, SyncInv, IndInv', ~Async, [Next]_vars
    PROVE  SyncInv'
<1>1. CASE UNCHANGED vars
  <2>1. UNCHANGED <<snaps, walLog, main, tree, writer, rw>>
    BY <1>1 DEF vars, dirVars, walVars, treeVars, writerVars
  <2>. QED  BY <2>1 DEF SyncInv, LastIndex
<1>2. ASSUME NEW b \in Seq(WalEntries), WriteStep(b) PROVE SyncInv'
  BY <1>2, WriteSync
<1>3. CASE Next
  BY <1>2, <1>3, StepCases, WriteSteps, CallerSync, OpenSync, RollbackSync, BackgroundSync, Zenon
<1>. QED  BY <1>1, <1>3

LEMMA InitSync ==
    ASSUME Init
    PROVE  SyncInv
<1>1. /\ writer = "none" /\ main = "down" /\ rw.pc = "none" /\ walLog = <<>>
      /\ \A v \in DOMAIN snaps : snaps[v] = <<>>
  BY DEF Init, NoRewrite
<1>. QED  BY <1>1 DEF SyncInv, LastIndex

(* With synchronous commits "no snapshot is ever newer than the WAL", in   *)
(* any state of the rewrite, the prune, a rollback, a failed commit, and   *)
(* whatever version the process was loaded at: Commit writes the entry     *)
(* before rewriteIfApplicable copies the tree, and TruncateBackWAL comes   *)
(* after the snapshots of the versions it cuts are gone.                   *)
THEOREM SnapshotsWithinWAL ==
    ASSUME ~Async
    PROVE  Spec => []NoSnapshotNewerThanWAL
<1>1. SyncInv => NoSnapshotNewerThanWAL
  BY DEF SyncInv, NoSnapshotNewerThanWAL
<1>2. ~Async
  OBVIOUS
<1>. QED  BY <1>1, <1>2, InitSync, StepSync, Invariance, Sizes, PTL DEF Spec

-----------------------------------------------------------------------------

(* h is the start of the history c. *)
PrefixOf(h, c) == Len(h) <= Len(c) /\ \A i \in 1..Len(h) : h[i] = c[i]

(* The process serves calls: it is neither down nor rolling back. *)
Serving == main \notin Rollback \cup {"down"}

Committing == {"check", "wait", "switch", "prune", "rewrite"}

-----------------------------------------------------------------------------
(* Disk and memory hold blocks of the chain. *)
ChainInv ==
    /\ PrefixOf(walLog, chain)
    /\ \A v \in DOMAIN snaps : PrefixOf(snaps[v], chain)
    /\ main # "down" => PrefixOf(tree, chain)
    /\ rw.pc \in {"write", "rename", "link"} => PrefixOf(rw.base, chain)
    /\ rw.pc \in {"catchup", "result"} => PrefixOf(rw.mtree, chain)
    /\ \A e \in InFlight : e.index \in 1..Len(tree) /\ e.data = chain[e.index]

(* While the process serves calls nothing is ahead of its tree, and        *)
(* `current` only moves forward.                                           *)
AheadInv ==
    Serving =>
        /\ LastIndex <= Len(tree) /\ Len(snaps[current]) <= Len(tree)
        /\ rw.pc \in {"write", "rename", "link"} => Len(snaps[current]) <= Len(rw.base)
        /\ rw.pc \in {"catchup", "result"} => Len(rw.mtree) <= Len(tree)

(* The tree is that of the caller's height, or one ahead in a Commit; a    *)
(* switch waits until the WAL holds all of it.                             *)
HeightInv ==
    /\ main \in {"idle", "flush"} => Len(tree) = height /\ snapVer <= Version(tree)
    /\ main \in {"write", "send", "check", "wait"} =>
         Len(tree) = height + 1 /\ snapVer < Version(tree)
    /\ main = "switch" => Len(tree) = height + 1 /\ LastIndex = Len(tree)
    /\ main \in {"prune", "rewrite"} => Len(tree) = height + 1 /\ snapVer <= Version(tree)

(* n blocks are on disk, or will be once the writer is done. *)
OnDisk(n) == n <= LastIndex \/ n <= Len(snaps[current])
Reaches(n) == OnDisk(n) \/ \E e \in InFlight : n <= e.index

(* Without an error, every block whose commit returned is on disk or on    *)
(* its way; what was acknowledged is on disk.                              *)
DurableInv ==
    /\ OnDisk(durable)
    /\ main = "rollbackDelete" => durable <= Len(tree)
    /\ ~walErr /\ writer # "latch" =>
         /\ main \in {"idle", "flush", "write", "send", "failed", "closeFlush"} => Reaches(height)
         /\ main \in Committing => Reaches(height + 1)

(* The writer's channel and batch: nothing is in flight before it starts,  *)
(* nor after it ended without an error.  A synchronous Commit has no       *)
(* writer, and after an error the caller can only close the DB.            *)
QueueInv ==
    /\ writer \notin {"drain", "write"} => batch = <<>>
    /\ writer = "none" => walChan = <<>>
    /\ writer \in {"exit", "quit"} /\ ~walErr => walChan = <<>> /\ ChanClosed
    /\ ~Serving => writer = "none" /\ ~walErr
    /\ main = "send" => Async /\ writer # "none"
    /\ main = "write" => ~Async
    /\ ~Async => /\ writer = "none"
                 /\ walErr => main \in {"failed", "closeFlush", "closeRewrite", "closePrune"}

HistInv == ChainInv /\ AheadInv /\ HeightInv /\ DurableInv /\ QueueInv

-----------------------------------------------------------------------------
(* Prefixes of a history. *)

LEMMA PrefixTrans ==
    ASSUME NEW S, NEW g \in Seq(S), NEW h \in Seq(S), NEW c \in Seq(S),
           PrefixOf(g, h), PrefixOf(h, c)
    PROVE  PrefixOf(g, c)
<1>1. Len(g) \in Nat /\ Len(h) \in Nat /\ Len(c) \in Nat
  BY LenProperties
<1>. QED  BY <1>1 DEF PrefixOf

LEMMA PrefixAppend ==
    ASSUME NEW S, NEW c \in Seq(S), NEW e \in S
    PROVE  PrefixOf(c, Append(c, e))
<1>1. Len(c) \in Nat
  BY LenProperties
<1>. QED  BY <1>1, AppendProperties DEF PrefixOf

(* A prefix that the next element of the history is appended to. *)
LEMMA PrefixNext ==
    ASSUME NEW S, NEW h \in Seq(S), NEW c \in Seq(S), PrefixOf(h, c), Len(h) < Len(c)
    PROVE  PrefixOf(Append(h, c[Len(h) + 1]), c)
<1>1. Len(h) \in Nat /\ Len(c) \in Nat /\ c[Len(h) + 1] \in S
  BY LenProperties, ElementOfSeq
<1>. QED  BY <1>1, AppendProperties DEF PrefixOf

(* Two prefixes of the same length are the same history. *)
LEMMA PrefixSame ==
    ASSUME NEW S, NEW g \in Seq(S), NEW h \in Seq(S), NEW c,
           PrefixOf(g, c), PrefixOf(h, c), Len(g) = Len(h)
    PROVE  g = h
<1>1. \A i \in 1..Len(g) : g[i] = h[i]
  BY DEF PrefixOf
<1>. QED  BY <1>1, SeqEqual

(* SubSeq(c, 1, n) is the first n elements. *)
LEMMA PrefixCut ==
    ASSUME NEW S, NEW c \in Seq(S), NEW n \in Nat, n <= Len(c)
    PROVE  /\ SubSeq(c, 1, n) \in Seq(S) /\ Len(SubSeq(c, 1, n)) = n
           /\ \A i \in 1..n : SubSeq(c, 1, n)[i] = c[i]
<1>1. Len(c) \in Nat
  BY LenProperties
<1>2. \A i \in 1..n : c[i] \in S
  BY <1>1, ElementOfSeq
<1>. QED  BY <1>1, <1>2, SubSeqProperties

LEMMA PrefixIs ==
    ASSUME NEW S, NEW h \in Seq(S), NEW c \in Seq(S), PrefixOf(h, c)
    PROVE  h = SubSeq(c, 1, Len(h))
<1>1. Len(h) \in Nat /\ Len(c) \in Nat /\ Len(h) <= Len(c)
  BY LenProperties DEF PrefixOf
<1>2. /\ SubSeq(c, 1, Len(h)) \in Seq(S) /\ Len(SubSeq(c, 1, Len(h))) = Len(h)
      /\ \A i \in 1..Len(h) : SubSeq(c, 1, Len(h))[i] = c[i]
  BY <1>1, PrefixCut
<1>3. \A i \in 1..Len(h) : h[i] = SubSeq(c, 1, Len(h))[i]
  BY <1>2 DEF PrefixOf
<1>. QED  BY <1>2, <1>3, SeqEqual

(* A replay of the WAL on blocks of the chain leads to blocks of the chain. *)
LEMMA PrefixCatchup ==
    ASSUME walLog \in Seq(ChangeSets), NEW h \in Seq(ChangeSets), NEW v \in Nat,
           PrefixOf(walLog, chain), PrefixOf(h, chain)
    PROVE  catchupWAL(h, v) \in Seq(ChangeSets) /\ PrefixOf(catchupWAL(h, v), chain)
<1>. DEFINE c == catchupWAL(h, v)
<1>1. /\ c \in Seq(ChangeSets)
      /\ Len(c) = IF Len(h) < LastIndex /\ Len(h) < CatchupTo(v) THEN CatchupTo(v) ELSE Len(h)
      /\ CatchupTo(v) <= LastIndex
      /\ \A i \in 1..Len(h) : c[i] = h[i]
      /\ \A i \in (Len(h) + 1)..Len(c) : c[i] = walLog[i]
  BY CatchupEntries, Zenon
<1>. HIDE DEF c
<1>2. Len(h) \in Nat /\ Len(walLog) \in Nat /\ Len(c) \in Nat
  BY <1>1, LenProperties
<1>3. Len(c) <= Len(walLog) \/ Len(c) = Len(h)
  BY <1>1, <1>2 DEF LastIndex
<1>4. \A i \in 1..Len(c) : c[i] = chain[i]
  BY <1>1, <1>2, <1>3 DEF PrefixOf
<1>5. Len(c) <= Len(chain)
  BY <1>2, <1>3 DEF PrefixOf
<1>. QED  BY <1>1, <1>4, <1>5 DEF PrefixOf, c

(* The tree that Load builds for a target version. *)
LEMMA PrefixLoadAt ==
    ASSUME IndInv, ChainInv, NEW v \in Nat, SnapshotsUpTo(v) # {}
    PROVE  PrefixOf(LoadAt(v), chain)
<1>. DEFINE h == snaps[seekSnapshot(v)]
<1>1. seekSnapshot(v) \in DOMAIN snaps
  BY SeekSnapshot DEF IndInv, TypeOK
<1>2. h \in Seq(ChangeSets) /\ walLog \in Seq(ChangeSets) /\ PrefixOf(h, chain) /\ PrefixOf(walLog, chain)
  BY <1>1 DEF IndInv, TypeOK, ChainInv
<1>. HIDE DEF h
<1>3. PrefixOf(catchupWAL(h, v), chain)
  BY <1>2, PrefixCatchup
<1>4. LoadAt(v) = h \/ LoadAt(v) = catchupWAL(h, v)
  BY DEF LoadAt, h
<1>. QED  BY <1>2, <1>3, <1>4, Zenon

-----------------------------------------------------------------------------
(* Steps that leave most of the histories alone. *)

LEMMA ChainFrame ==
    ASSUME ChainInv, UNCHANGED <<chain, walLog>>,
           \A v \in DOMAIN snaps' : v \in DOMAIN snaps /\ snaps'[v] = snaps[v],
           main' # "down" => PrefixOf(tree', chain),
           rw' = rw \/ rw'.pc \notin {"write", "rename", "link", "catchup", "result"},
           \A e \in InFlight' : e \in InFlight /\ (e.index \in 1..Len(tree) => e.index \in 1..Len(tree'))
    PROVE  ChainInv'
<1>1. \A e \in InFlight' : e.index \in 1..Len(tree') /\ e.data = chain'[e.index]
  BY DEF ChainInv
<1>2. \A v \in DOMAIN snaps' : PrefixOf(snaps'[v], chain')
  BY DEF ChainInv
<1>3. /\ PrefixOf(walLog', chain') /\ main' # "down" => PrefixOf(tree', chain')
      /\ rw'.pc \in {"write", "rename", "link"} => PrefixOf(rw'.base, chain')
      /\ rw'.pc \in {"catchup", "result"} => PrefixOf(rw'.mtree, chain')
  BY DEF ChainInv
<1>. QED  BY <1>1, <1>2, <1>3, Zenon DEF ChainInv

LEMMA AheadFrame ==
    ASSUME AheadInv, UNCHANGED <<walLog, current, tree>>, current \in DOMAIN snaps',
           \A v \in DOMAIN snaps' : v \in DOMAIN snaps /\ snaps'[v] = snaps[v],
           rw' = rw \/ rw'.pc \notin {"write", "rename", "link", "catchup", "result"},
           main \notin Rollback \cup {"down"} \/ main' \in Rollback \cup {"down"}
    PROVE  AheadInv'
<1>1. Serving' => Serving
  BY DEF Serving
<1>2. LastIndex' = LastIndex /\ Len(snaps'[current']) = Len(snaps[current])
  BY DEF LastIndex
<1>. QED  BY <1>1, <1>2 DEF AheadInv

LEMMA DurableFrame ==
    ASSUME DurableInv, UNCHANGED <<walLog, current, tree, height, durable, walErr>>,
           snaps'[current] = snaps[current], InFlight' = InFlight,
           writer' = "latch" \/ writer # "latch",
           main' = "rollbackDelete" => main = "rollbackDelete",
           Len(walLog) \in Nat, Len(snaps[current]) \in Nat, height \in Nat,
           InFlight \subseteq WalEntries,
           \/ main' \notin {"idle", "flush", "write", "send", "failed", "closeFlush"} \cup Committing
           \/ main' \in Committing /\ main \in Committing
           \/ /\ main' \in {"idle", "flush", "write", "send", "failed", "closeFlush"}
              /\ main \in {"idle", "flush", "write", "send", "failed", "closeFlush"} \cup Committing
    PROVE  DurableInv'
<1>1. Reaches(height + 1) => Reaches(height)
  <2>1. \A e \in InFlight : e.index \in Nat
    BY DEF WalEntries
  <2>. QED  BY <2>1 DEF Reaches, OnDisk, LastIndex
<1>2. OnDisk(durable)' <=> OnDisk(durable)
  BY DEF OnDisk, LastIndex
<1>3. (Reaches(height)' <=> Reaches(height)) /\ (Reaches(height + 1)' <=> Reaches(height + 1))
  BY DEF OnDisk, Reaches, LastIndex
<1>. QED  BY <1>1, <1>2, <1>3 DEF DurableInv, Committing

LEMMA Histories ==
    ASSUME IndInv
    PROVE  /\ chain \in Seq(ChangeSets) /\ walLog \in Seq(ChangeSets) /\ tree \in Seq(ChangeSets)
           /\ rw.base \in Seq(ChangeSets) /\ rw.mtree \in Seq(ChangeSets)
           /\ \A v \in DOMAIN snaps : snaps[v] \in Seq(ChangeSets)
           /\ current \in DOMAIN snaps /\ height \in Nat /\ durable \in Nat /\ snapVer \in Nat
           /\ InFlight \subseteq WalEntries
BY InFlightType DEF IndInv, TypeOK, DirInv

LEMMA QuietCallerHist ==
    ASSUME IndInv, HistInv, QuietCaller
    PROVE  HistInv'
<1>1. /\ UNCHANGED <<chain, height, durable, snaps, current, walLog, tree, snapVer,
                     walErr, walChan, writer, batch>>
      /\ rw' = rw \/ rw'.pc = "none"
      /\ InFlight' = InFlight
  BY QuietCallerEffect, QueueSame
     DEF chainVars, dirVars, walVars, treeVars, writerVars, NoRewrite
<1>2. \/ main = "idle" /\ main' \in {"failed", "closeFlush"}
      \/ main = "idle" /\ main' = "flush" /\ writer # "none"
      \/ main = "failed" /\ main' = "closeFlush"
      \/ main = "check" /\ main' \in {"failed", "rewrite", "wait"}
      \/ main = "wait" /\ main' = "failed"
      \/ main = "wait" /\ main' = "switch" /\ CaughtUp
      \/ main = "switch" /\ main' = "failed"
      \/ main = "prune" /\ main' = "rewrite"
      \/ main = "closeRewrite" /\ main' = "closePrune"
  BY QuietCallerEffect, Zenon
<1>3. ChainInv'
  BY <1>1, <1>2, ChainFrame DEF HistInv, ChainInv
<1>4. AheadInv'
  BY <1>1, <1>2, AheadFrame, Histories DEF HistInv, Rollback
<1>5. HeightInv'
  <2>1. ASSUME main = "wait", CaughtUp PROVE LastIndex = Len(tree)
    <3>1. tree \in Seq(ChangeSets) /\ Len(tree) = height + 1 /\ height \in Nat
          /\ snapVer < Version(tree) /\ LastIndex <= Len(tree) /\ LastIndex \in Nat
      BY <2>1, Histories, LastIndexType DEF HistInv, HeightInv, AheadInv, Serving, Rollback
    <3>2. Version(tree) = walVersion(Len(tree))
      BY <3>1 DEF Version
    <3>. QED  BY <2>1, <3>1, <3>2, DBAssumption, Histories DEF CaughtUp, CommittedVersion, walVersion
  <2>2. snapVer \in Nat /\ Version(tree) \in Nat
    BY Histories, VersionType
  <2>3. Version(tree') = Version(tree) /\ LastIndex' = LastIndex
    BY <1>1 DEF LastIndex
  <2>. QED  BY <1>1, <1>2, <2>1, <2>2, <2>3 DEF HistInv, HeightInv
<1>6. DurableInv'
  <2>1. Len(walLog) \in Nat /\ Len(snaps[current]) \in Nat
    BY Lengths
  <2>. QED  BY <1>1, <1>2, <2>1, DurableFrame, Histories DEF HistInv, Committing
<1>7. QueueInv'
  BY <1>1, <1>2 DEF HistInv, QueueInv, ChanClosed, Serving, Rollback
<1>. QED  BY <1>3, <1>4, <1>5, <1>6, <1>7 DEF HistInv

LEMMA CommitHist ==
    ASSUME IndInv, HistInv, NEW cs \in ChangeSets, Commit(cs)
    PROVE  HistInv'
<1>1. /\ UNCHANGED <<height, durable, snaps, current, walLog, snapVer, walErr, walChan, batch, rw>>
      /\ main = "idle" /\ ~walErr /\ tree' = Append(tree, cs)
      /\ main' = (IF Async THEN "send" ELSE "write")
      /\ writer' = (IF Async /\ writer = "none" THEN "recv" ELSE writer)
      /\ InFlight' = InFlight
  BY QueueSame DEF Commit, dirVars, walVars
<1>2. /\ chain \in Seq(ChangeSets) /\ tree \in Seq(ChangeSets) /\ walLog \in Seq(ChangeSets)
      /\ rw.base \in Seq(ChangeSets) /\ rw.mtree \in Seq(ChangeSets)
      /\ Len(tree) \in Nat /\ Len(chain) \in Nat /\ Len(walLog) \in Nat
  BY Histories, LenProperties, SMTT(30)
<1>3. Len(tree) = height /\ PrefixOf(tree, chain) /\ Len(tree) <= Len(chain)
  BY <1>1, SMTT(30) DEF HistInv, HeightInv, ChainInv, PrefixOf
<1>4. Len(tree') = Len(tree) + 1 /\ tree' \in Seq(ChangeSets)
  BY <1>1, <1>2, AppendProperties
<1>5. chain' \in Seq(ChangeSets) /\ PrefixOf(chain, chain') /\ PrefixOf(tree', chain')
  <2>1. CASE height < Len(chain)
    <3>1. chain' = chain /\ tree' = Append(tree, chain[Len(tree) + 1])
      BY <1>1, <1>3, <2>1 DEF Commit
    <3>. QED  BY <1>2, <1>3, <2>1, <3>1, PrefixNext DEF PrefixOf
  <2>2. CASE ~(height < Len(chain))
    <3>1. chain' = Append(chain, cs) /\ Len(tree) = Len(chain)
      BY <1>2, <1>3, <2>2 DEF Commit
    <3>2. tree = chain
      BY <1>2, <1>3, <3>1, SeqEqual DEF PrefixOf
    <3>3. chain' \in Seq(ChangeSets) /\ PrefixOf(chain, chain')
      BY <1>2, <3>1, PrefixAppend, AppendProperties
    <3>. QED  BY <1>1, <1>4, <3>1, <3>2, <3>3 DEF PrefixOf
  <2>. QED  BY <2>1, <2>2
<1>6. ChainInv'
  <2>1. \A h \in Seq(ChangeSets) : PrefixOf(h, chain) => PrefixOf(h, chain')
    BY <1>2, <1>5, PrefixTrans
  <2>2. PrefixOf(walLog, chain) /\ \A v \in DOMAIN snaps : PrefixOf(snaps[v], chain)
    BY DEF HistInv, ChainInv
  <2>3. PrefixOf(walLog', chain') /\ \A v \in DOMAIN snaps' : PrefixOf(snaps'[v], chain')
    BY <1>1, <1>2, <2>1, <2>2, Histories
  <2>4. /\ rw'.pc \in {"write", "rename", "link"} => PrefixOf(rw'.base, chain')
        /\ rw'.pc \in {"catchup", "result"} => PrefixOf(rw'.mtree, chain')
    BY <1>1, <1>2, <2>1 DEF HistInv, ChainInv
  <2>5. ASSUME NEW e \in InFlight PROVE e.index \in 1..Len(tree') /\ e.data = chain'[e.index]
    <3>1. e.index \in 1..Len(tree) /\ e.data = chain[e.index]
      BY <2>5 DEF HistInv, ChainInv
    <3>2. e.index \in 1..Len(chain) /\ e.index \in 1..Len(tree')
      BY <1>2, <1>3, <1>4, <3>1
    <3>. QED  BY <1>5, <3>1, <3>2 DEF PrefixOf
  <2>. QED  BY <1>1, <1>5, <2>3, <2>4, <2>5, Zenon DEF ChainInv
<1>7. AheadInv'
  <2>1. Serving /\ LastIndex' = LastIndex /\ LastIndex \in Nat
    BY <1>1, LastIndexType DEF Serving, Rollback, LastIndex
  <2>2. Len(snaps[current]) \in Nat /\ Len(rw.mtree) \in Nat
    BY Lengths
  <2>. QED  BY <1>1, <1>2, <1>4, <2>1, <2>2, SMTT(30) DEF HistInv, AheadInv
<1>8. HeightInv'
  <2>1. Version(tree) < Version(tree') /\ snapVer <= Version(tree)
    <3>1. ~(Version(tree') <= Version(tree))
      BY <1>2, <1>4, VersionOrder
    <3>2. Version(tree) \in Nat /\ Version(tree') \in Nat
      BY <1>2, <1>4, VersionType
    <3>. QED  BY <1>1, <3>1, <3>2 DEF HistInv, HeightInv
  <2>2. snapVer \in Nat /\ Version(tree) \in Nat /\ Version(tree') \in Nat
    BY <1>2, <1>4, VersionType, Histories
  <2>3. main' \in {"send", "write"} /\ Len(tree') = height' + 1 /\ snapVer' < Version(tree')
    BY <1>1, <1>3, <1>4, <2>1, <2>2, SMTT(30)
  <2>. QED  BY <2>3 DEF HeightInv
<1>9. DurableInv'
  <2>1. /\ OnDisk(durable)' <=> OnDisk(durable)
        /\ Reaches(height)' <=> Reaches(height)
    BY <1>1 DEF OnDisk, Reaches, LastIndex
  <2>2. main' \in {"send", "write"} /\ (writer' # "latch" => writer # "latch")
    BY <1>1
  <2>. QED  BY <1>1, <2>1, <2>2 DEF HistInv, DurableInv, Committing
<1>10. QueueInv'
  BY <1>1, DBAssumption DEF HistInv, QueueInv, ChanClosed, Serving, Rollback
<1>. QED  BY <1>6, <1>7, <1>8, <1>9, <1>10, SMTT(30) DEF HistInv

LEMMA SendHist ==
    ASSUME IndInv, HistInv, SendWAL
    PROVE  HistInv'
<1>1. /\ UNCHANGED <<chain, height, durable, snaps, current, walLog, tree, snapVer,
                     walErr, writer, batch, rw>>
      /\ main = "send" /\ main' = "check" /\ walChan' = Append(walChan, Entry)
  BY DEF SendWAL, chainVars, dirVars, walVars, treeVars
<1>2. /\ tree \in Seq(ChangeSets) /\ tree # <<>> /\ Len(tree) \in Nat /\ Len(tree) = height + 1
      /\ PrefixOf(tree, chain) /\ walChan \in Seq(WalEntries)
  BY <1>1, LenProperties, SMTT(30) DEF IndInv, TypeOK, MainInv, HistInv, HeightInv, ChainInv
<1>3. /\ Entry.index = Len(tree) /\ Entry.data = chain[Len(tree)] /\ Len(tree) \in 1..Len(tree)
  <2>1. Len(tree) \in 1..Len(tree)
    BY <1>2, EmptySeq
  <2>. QED  BY <1>2, <2>1, EntryIndex DEF PrefixOf
<1>4. InFlight' = InFlight \cup {Entry}
  <2>1. Range(walChan') = Range(walChan) \cup {Entry}
    BY <1>1, <1>2, EntryType, RangeAppend
  <2>. QED  BY <1>1, <2>1 DEF InFlight
<1>5. ChainInv'
  <2>1. \A e \in InFlight' : e.index \in 1..Len(tree') /\ e.data = chain'[e.index]
    <3>1. \A e \in InFlight : e.index \in 1..Len(tree') /\ e.data = chain'[e.index]
      BY <1>1 DEF HistInv, ChainInv
    <3>. QED  BY <1>1, <1>3, <1>4, <3>1
  <2>. QED  BY <1>1, <2>1, Zenon DEF HistInv, ChainInv
<1>6. AheadInv'
  BY <1>1, AheadFrame, Histories, SMTT(30) DEF HistInv, Rollback
<1>7. HeightInv'
  BY <1>1, SMTT(30) DEF HistInv, HeightInv
<1>8. DurableInv'
  <2>1. OnDisk(durable)' <=> OnDisk(durable)
    BY <1>1 DEF OnDisk, LastIndex
  <2>2. Reaches(height + 1)'
    BY <1>1, <1>2, <1>3, <1>4, SMTT(30) DEF Reaches
  <2>. QED  BY <1>1, <2>1, <2>2 DEF HistInv, DurableInv
<1>9. QueueInv'
  BY <1>1, DBAssumption DEF HistInv, QueueInv, ChanClosed, Serving, Rollback
<1>. QED  BY <1>5, <1>6, <1>7, <1>8, <1>9 DEF HistInv

LEMMA SendQuitHist ==
    ASSUME IndInv, HistInv, SendWALQuit
    PROVE  HistInv'
<1>1. /\ UNCHANGED <<chain, height, durable, snaps, current, walLog, tree, snapVer,
                     walChan, writer, batch, rw>>
      /\ main = "send" /\ main' = "failed" /\ walErr' = TRUE /\ InFlight' = InFlight
  BY QueueSame, SMTT(30) DEF SendWALQuit, chainVars, dirVars, walVars, treeVars
<1>2. ChainInv'
  BY <1>1, ChainFrame DEF HistInv, ChainInv
<1>3. AheadInv'
  BY <1>1, AheadFrame, Histories DEF HistInv, Rollback
<1>4. HeightInv'
  BY <1>1 DEF HeightInv
<1>5. DurableInv'
  <2>1. OnDisk(durable)' <=> OnDisk(durable)
    BY <1>1 DEF OnDisk, LastIndex
  <2>. QED  BY <1>1, <2>1 DEF HistInv, DurableInv
<1>6. QueueInv'
  BY <1>1, SMTT(30) DEF HistInv, QueueInv, ChanClosed, Serving, Rollback
<1>. QED  BY <1>2, <1>3, <1>4, <1>5, <1>6 DEF HistInv

(* Commit returns.  A synchronous one acknowledges the block: it is in the *)
(* WAL, since no error was latched and nothing is on its way.              *)
LEMMA rewriteIfApplicableHist ==
    ASSUME IndInv, HistInv, rewriteIfApplicable
    PROVE  HistInv'
<1>1. /\ UNCHANGED <<chain, snaps, current, walLog, tree, snapVer,
                     walErr, walChan, writer, batch>>
      /\ main = "rewrite" /\ main' = "idle" /\ height' = height + 1 /\ InFlight' = InFlight
      /\ rw' = rw \/ rw' = [pc |-> "write", base |-> tree, mtree |-> <<>>]
      /\ durable' = IF Async THEN durable ELSE Max({durable, height + 1})
  BY QueueSame DEF rewriteIfApplicable, dirVars, walVars, treeVars, writerVars
<1>2. rw' = rw \/ (rw'.pc = "write" /\ rw'.base = tree)
  BY <1>1
<1>3. PrefixOf(tree, chain) /\ Serving
  BY <1>1, SMTT(30) DEF HistInv, ChainInv, Serving, Rollback
<1>4. ChainInv'
  <2>1. /\ rw'.pc \in {"write", "rename", "link"} => PrefixOf(rw'.base, chain')
        /\ rw'.pc \in {"catchup", "result"} => PrefixOf(rw'.mtree, chain')
    BY <1>1, <1>2, <1>3, SMTT(30) DEF HistInv, ChainInv
  <2>. QED  BY <1>1, <1>3, <2>1, SMTT(30) DEF HistInv, ChainInv
<1>5. AheadInv'
  BY <1>1, <1>2, <1>3 DEF HistInv, AheadInv, LastIndex
<1>6. HeightInv'
  BY <1>1 DEF HistInv, HeightInv
<1>7. DurableInv'
  <2>1. \A n : (OnDisk(n)' <=> OnDisk(n)) /\ (Reaches(n)' <=> Reaches(n))
    BY <1>1 DEF OnDisk, Reaches, LastIndex
  <2>2. OnDisk(durable')
    <3>1. ASSUME ~Async PROVE OnDisk(height + 1)
      <4>1. ~walErr /\ writer = "none" /\ walChan = <<>> /\ batch = <<>>
        BY <1>1, <3>1, SMTT(30) DEF HistInv, QueueInv
      <4>2. InFlight = {} /\ Reaches(height + 1)
        BY <1>1, <4>1, RangeEmpty, SMTT(30) DEF InFlight, HistInv, DurableInv, Committing
      <4>. QED  BY <4>2 DEF Reaches
    <3>2. Max({durable, height + 1}) \in {durable, height + 1}
      <4>1. durable \in Nat /\ height + 1 \in Nat
        BY Histories
      <4>. QED  BY <4>1 DEF Max
    <3>3. OnDisk(durable)
      BY DEF HistInv, DurableInv
    <3>. QED  BY <1>1, <3>1, <3>2, <3>3
  <2>3. OnDisk(durable)'
    BY <2>2, <1>1 DEF OnDisk, LastIndex
  <2>4. Reaches(height)' <=> Reaches(height + 1)
    BY <1>1 DEF OnDisk, Reaches, LastIndex
  <2>. QED  BY <1>1, <2>3, <2>4 DEF HistInv, DurableInv, Committing
<1>8. QueueInv'
  BY <1>1 DEF HistInv, QueueInv, ChanClosed, Serving, Rollback
<1>. QED  BY <1>4, <1>5, <1>6, <1>7, <1>8 DEF HistInv

(* WaitAsyncCommit or Close acknowledges what was committed: the writer    *)
(* ended without an error, so that it had written all it was sent.         *)
LEMMA FlushedHist ==
    ASSUME IndInv, HistInv, Flushed
    PROVE  HistInv'
<1>1. /\ UNCHANGED <<chain, height, snaps, current, walLog, tree, snapVer, walErr, rw>>
      /\ main \in {"flush", "closeFlush"} /\ writer \in {"none", "quit"}
      /\ writer' = "none" /\ walChan' = <<>> /\ batch' = <<>>
      /\ durable' = IF walErr THEN durable ELSE Max({durable, height})
      /\ main' = IF main = "closeFlush" THEN "closeRewrite"
                 ELSE IF walErr THEN "failed" ELSE "idle"
  BY DEF Flushed, ChanClosed, dirVars, walVars, treeVars
<1>2. main' \in {"closeRewrite", "failed", "idle"}
  BY <1>1
<1>3. InFlight' = {}
  BY <1>1, RangeEmpty, ZenonT(40) DEF InFlight
<1>4. ChainInv'
  BY <1>1, <1>3, ChainFrame, SMTT(30) DEF HistInv, ChainInv
<1>5. AheadInv'
  BY <1>1, AheadFrame, Histories, SMTT(30) DEF HistInv, Rollback
<1>6. HeightInv'
  <2>1. main' = "idle" => main = "flush"
    BY <1>1
  <2>2. Version(tree') = Version(tree)
    BY <1>1
  <2>. QED  BY <1>1, <1>2, <2>1, <2>2, SMTT(30) DEF HistInv, HeightInv
<1>7. DurableInv'
  <2>1. ASSUME ~walErr PROVE OnDisk(height)
    <3>1. walChan = <<>> /\ batch = <<>> /\ writer # "latch"
      BY <1>1, <2>1, SMTT(30) DEF HistInv, QueueInv
    <3>2. InFlight = {} /\ Reaches(height)
      BY <1>1, <2>1, <3>1, RangeEmpty DEF InFlight, HistInv, DurableInv
    <3>. QED  BY <3>2 DEF Reaches
  <2>2. Max({durable, height}) \in {durable, height}
    BY Histories DEF Max
  <2>3. OnDisk(durable') /\ (~walErr => OnDisk(height))
    BY <1>1, <2>1, <2>2 DEF HistInv, DurableInv
  <2>4. (OnDisk(durable)' <=> OnDisk(durable')) /\ (OnDisk(height)' <=> OnDisk(height))
    BY <1>1 DEF OnDisk, LastIndex
  <2>5. OnDisk(durable)' /\ (~walErr' => Reaches(height)')
    BY <1>1, <2>3, <2>4 DEF Reaches
  <2>. QED  BY <1>2, <2>5 DEF DurableInv, Committing
<1>8. QueueInv'
  BY <1>1, <1>2 DEF HistInv, QueueInv, ChanClosed, Serving, Rollback
<1>. QED  BY <1>4, <1>5, <1>6, <1>7, <1>8 DEF HistInv

(* A write to the WAL, by Commit or by the writer: the entries it adds are *)
(* those of the batch, at their indexes.                                   *)
LEMMA WriteHist ==
    ASSUME IndInv, HistInv, NEW b \in Seq(WalEntries), WriteStep(b)
    PROVE  HistInv'
<1>1. /\ UNCHANGED <<chain, height, durable, snaps, current, tree, snapVer, walChan, rw>>
      /\ WriteBatch(b) \/ WriteBatchFails(b)
      /\ \/ /\ main = "write" /\ b = <<Entry>> /\ UNCHANGED <<writer, batch>>
            /\ \/ main' = "check" /\ WriteBatch(b) /\ UNCHANGED walErr
               \/ main' = "failed" /\ walErr' = TRUE
         \/ /\ writer = "write" /\ b = batch /\ batch' = <<>> /\ UNCHANGED <<main, walErr>>
            /\ \/ writer' = "recv" /\ WriteBatch(b)
               \/ writer' = "latch"
  BY DEF WriteStep, chainVars, dirVars, treeVars
<1>2. /\ walLog \in Seq(ChangeSets) /\ tree \in Seq(ChangeSets) /\ chain \in Seq(ChangeSets)
      /\ Len(walLog) \in Nat /\ Len(tree) \in Nat /\ Len(chain) \in Nat
  BY Histories, LenProperties, SMTT(30)
<1>3. /\ walLog' \in Seq(ChangeSets) /\ Len(walLog) <= Len(walLog') /\ Len(walLog') \in Nat
      /\ \A i \in 1..Len(walLog) : walLog'[i] = walLog[i]
      /\ \A i \in (Len(walLog) + 1)..Len(walLog') :
           \E j \in 1..Len(b) : b[j].index = i /\ b[j].data = walLog'[i]
      /\ WriteBatch(b) => \A j \in 1..Len(b) : b[j].index <= Len(walLog')
  <2>1. /\ walLog' \in Seq(ChangeSets) /\ Len(walLog) <= Len(walLog')
        /\ \A i \in 1..Len(walLog) : walLog'[i] = walLog[i]
        /\ \A i \in (Len(walLog) + 1)..Len(walLog') :
             \E j \in 1..Len(b) : b[j].index = i /\ b[j].data = walLog'[i]
        /\ WriteBatch(b) => \A j \in 1..Len(b) : b[j].index <= Len(walLog')
    BY <1>1, <1>2, WriteEntries, ZenonT(40)
  <2>. QED  BY <2>1, LenProperties
<1>4. Serving /\ PrefixOf(tree, chain) /\ Len(tree) <= Len(chain)
  <2>1. Serving
    BY <1>1, SMTT(30) DEF HistInv, QueueInv, Serving, Rollback
  <2>. QED  BY <2>1 DEF HistInv, ChainInv, Serving, PrefixOf
<1>5. \A j \in 1..Len(b) : b[j].index \in 1..Len(tree) /\ b[j].data = chain[b[j].index]
  <2>1. CASE main = "write" /\ b = <<Entry>>
    <3>1. tree # <<>> /\ Len(b) = 1 /\ b[1] = Entry
      BY <2>1 DEF IndInv, MainInv
    <3>2. Entry.index = Len(tree) /\ Entry.data = tree[Len(tree)] /\ Len(tree) \in 1..Len(tree)
      BY <1>2, <3>1, EntryIndex, EmptySeq
    <3>. QED  BY <1>4, <3>1, <3>2, SMTT(30) DEF PrefixOf
  <2>2. CASE b = batch
    <3>1. \A j \in 1..Len(b) : b[j] \in InFlight
      <4>1. DOMAIN batch = 1..Len(batch)
        BY LenProperties DEF IndInv, TypeOK
      <4>. QED  BY <2>2, <4>1 DEF InFlight, Range
    <3>. QED  BY <3>1 DEF HistInv, ChainInv
  <2>. QED  BY <1>1, <2>1, <2>2, SMTT(30)
<1>6. PrefixOf(walLog', chain) /\ Len(walLog') <= Len(tree)
  <2>1. \A i \in (Len(walLog) + 1)..Len(walLog') : i \in 1..Len(tree) /\ walLog'[i] = chain[i]
    BY <1>3, <1>5
  <2>2. Len(walLog') <= Len(tree)
    <3>1. Len(walLog) <= Len(tree)
      BY <1>4 DEF HistInv, AheadInv, LastIndex
    <3>. QED  BY <1>2, <1>3, <2>1, <3>1
  <2>3. \A i \in 1..Len(walLog) : walLog[i] = chain[i]
    BY DEF HistInv, ChainInv, PrefixOf
  <2>4. \A i \in 1..Len(walLog') : walLog'[i] = chain[i]
    <3>1. \A i \in 1..Len(walLog') : i \in 1..Len(walLog) \/ i \in (Len(walLog) + 1)..Len(walLog')
      BY <1>2, <1>3
    <3>. QED  BY <1>3, <2>1, <2>3, <3>1, ZenonT(40)
  <2>. QED  BY <1>2, <1>3, <1>4, <2>2, <2>4, SMTT(30) DEF PrefixOf
<1>7. InFlight' \subseteq InFlight
  BY <1>1, RangeEmpty, SMTT(30) DEF InFlight
<1>8. ChainInv'
  <2>1. main # "down" /\ main' # "down"
    BY <1>1, <1>4 DEF Serving
  <2>. QED  BY <1>1, <1>4, <1>6, <1>7, <2>1, SMTT(30) DEF HistInv, ChainInv
<1>9. AheadInv'
  BY <1>1, <1>4, <1>6, SMTT(30) DEF HistInv, AheadInv, LastIndex
<1>10. HeightInv'
  <2>1. main = "switch" => Len(walLog') = Len(walLog)
    BY <1>2, <1>3, <1>6, SMTT(30) DEF HistInv, HeightInv, LastIndex
  <2>2. main' = main \/ (main = "write" /\ main' \in {"check", "failed"})
    BY <1>1
  <2>3. Version(tree') = Version(tree)
    BY <1>1
  <2>. QED  BY <1>1, <2>1, <2>2, <2>3, SMTT(30) DEF HistInv, HeightInv, LastIndex
<1>11. DurableInv'
  <2>1. ASSUME NEW n \in Nat, OnDisk(n) PROVE OnDisk(n)'
    BY <1>1, <1>2, <1>3, <2>1 DEF OnDisk, LastIndex
  <2>2. ASSUME NEW n \in Nat, Reaches(n), writer = "write", WriteBatch(b), b = batch
        PROVE  Reaches(n)'
    <3>1. CASE OnDisk(n)
      BY <2>1, <3>1, ZenonT(40) DEF Reaches
    <3>2. ASSUME NEW e \in Range(batch), n <= e.index PROVE OnDisk(n)'
      <4>1. PICK j \in DOMAIN batch : batch[j] = e
        BY <3>2, ZenonT(40) DEF Range
      <4>2. j \in 1..Len(b) /\ b[j].index \in 1..Len(tree)
        BY <2>2, <4>1, <1>5, LenProperties, SMTT(30) DEF IndInv, TypeOK
      <4>. QED  BY <1>1, <1>2, <1>3, <2>2, <3>2, <4>1, <4>2 DEF OnDisk, LastIndex
    <3>3. ASSUME NEW e \in Range(walChan), n <= e.index PROVE Reaches(n)'
      BY <1>1, <3>3, SMTT(30) DEF Reaches, InFlight
    <3>. QED  BY <2>2, <3>1, <3>2, <3>3 DEF Reaches, InFlight
  <2>3. OnDisk(durable)'
    <3>1. OnDisk(durable) /\ durable \in Nat
      BY Histories DEF HistInv, DurableInv
    <3>. QED  BY <1>1, <1>2, <1>3, <3>1 DEF OnDisk, LastIndex
  <2>4. ASSUME main = "write", b = <<Entry>>, WriteBatch(b) PROVE Reaches(height + 1)'
    <3>1. tree # <<>> /\ Len(b) = 1 /\ b[1] = Entry /\ Len(tree) = height + 1
      BY <2>4 DEF IndInv, MainInv, HistInv, HeightInv
    <3>2. Entry.index = Len(tree)
      BY <1>2, <3>1, EntryIndex
    <3>. QED  BY <1>1, <1>3, <2>4, <3>1, <3>2, SMTT(30) DEF Reaches, OnDisk, LastIndex
  <2>5. CASE main = "write" /\ main' \in {"check", "failed"}
    BY <1>1, <1>4, <2>3, <2>4, <2>5, SMTT(30) DEF DurableInv, Committing, HistInv, QueueInv
  <2>6. CASE writer = "write" /\ main' = main /\ writer' = "latch"
    BY <1>1, <1>4, <2>3, <2>6 DEF DurableInv, Serving, Rollback
  <2>7. CASE writer = "write" /\ main' = main /\ writer' = "recv" /\ WriteBatch(b) /\ b = batch
    <3>1. Reaches(height) => Reaches(height)'
      BY <1>1, <2>2, <2>7, Histories
    <3>2. Reaches(height + 1) => Reaches(height + 1)'
      BY <1>1, <2>2, <2>7, Histories, SMTT(30)
    <3>. QED  BY <1>1, <1>4, <2>3, <2>7, <3>1, <3>2, SMTT(30) DEF HistInv, DurableInv, Serving, Rollback
  <2>. QED  BY <1>1, <2>5, <2>6, <2>7, SMTT(30)
<1>12. QueueInv'
  BY <1>1, <1>4 DEF HistInv, QueueInv, ChanClosed, Serving, Rollback
<1>. QED  BY <1>8, <1>9, <1>10, <1>11, <1>12, SMTT(30) DEF HistInv

(* The switch goes to the same blocks, loaded from the new snapshot. *)
LEMMA SwitchHist ==
    ASSUME IndInv, HistInv, SwitchTree
    PROVE  HistInv'
<1>1. /\ UNCHANGED <<chain, height, durable, snaps, current, walLog,
                     walErr, walChan, writer, batch>>
      /\ main = "switch" /\ main' = "prune" /\ rw'.pc = "none"
      /\ tree' = catchupWAL(rw.mtree, 0) /\ snapVer' = Version(rw.base)
      /\ InFlight' = InFlight
  BY QueueSame, Zenon DEF SwitchTree, chainVars, dirVars, walVars, writerVars, NoRewrite
<1>2. Serving /\ rw.pc = "result" /\ Len(rw.base) <= Len(rw.mtree)
  BY <1>1, SMTT(30) DEF IndInv, MainInv, RewriteInv, Serving, Rollback
<1>3. /\ Len(tree) = height + 1 /\ LastIndex = Len(tree) /\ Len(rw.mtree) <= Len(tree)
      /\ PrefixOf(rw.mtree, chain) /\ PrefixOf(walLog, chain)
  BY <1>1, <1>2 DEF HistInv, HeightInv, AheadInv, ChainInv
<1>4. /\ walLog \in Seq(ChangeSets) /\ rw.mtree \in Seq(ChangeSets) /\ rw.base \in Seq(ChangeSets)
      /\ Len(rw.mtree) \in Nat /\ Len(rw.base) \in Nat /\ Len(tree) \in Nat
  BY Histories, LenProperties
<1>5. tree' \in Seq(ChangeSets) /\ PrefixOf(tree', chain)
  <2>1. PrefixOf(catchupWAL(rw.mtree, 0), chain) /\ catchupWAL(rw.mtree, 0) \in Seq(ChangeSets)
    BY <1>3, <1>4, PrefixCatchup, 0 \in Nat, Zenon
  <2>. QED  BY <1>1, <2>1
<1>6. Len(tree') = Len(tree)
  <2>1. Len(tree') = IF Len(rw.mtree) < LastIndex THEN LastIndex ELSE Len(rw.mtree)
    BY <1>1, <1>4, CatchupAll
  <2>. QED  BY <1>3, <1>4, <2>1
<1>7. ChainInv'
  BY <1>1, <1>5, <1>6, ChainFrame DEF HistInv
<1>8. AheadInv'
  BY <1>1, <1>2, <1>6 DEF HistInv, AheadInv, LastIndex
<1>9. HeightInv'
  <2>1. snapVer' <= Version(tree')
    BY <1>1, <1>2, <1>3, <1>4, <1>5, <1>6, VersionOrder, SMTT(30)
  <2>. QED  BY <1>1, <1>3, <1>6, <2>1 DEF HeightInv
<1>10. DurableInv'
  <2>1. /\ OnDisk(durable)' <=> OnDisk(durable)
        /\ Reaches(height + 1)' <=> Reaches(height + 1)
    BY <1>1 DEF OnDisk, Reaches, LastIndex
  <2>. QED  BY <1>1, <2>1 DEF HistInv, DurableInv, Committing
<1>11. QueueInv'
  BY <1>1 DEF HistInv, QueueInv, ChanClosed, Serving, Rollback
<1>. QED  BY <1>7, <1>8, <1>9, <1>10, <1>11 DEF HistInv
=============================================================================
