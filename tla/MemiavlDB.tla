------------------------------ MODULE MemiavlDB ------------------------------
(***************************************************************************)
(* memiavl.DB (memiavl/db.go): a MultiTree kept in memory, persisted as    *)
(* snapshot directories, a `current` link to one of them, and a write      *)
(* ahead log with one entry per version.  Four goroutines of one process   *)
(* share that disk: the caller (under db.mtx), the async WAL writer, the   *)
(* background snapshot rewrite and the snapshot prune.  The process may    *)
(* crash between any two steps and be loaded again, at the latest version, *)
(* at an older one, or rolled back.                                        *)
(*                                                                         *)
(* Data: a MultiTree, and a snapshot of it, is the history of change sets  *)
(* committed to it, a sequence over ChangeSets.  Its root hash tells any   *)
(* two histories apart, so equality of histories is equality of app hash.  *)
(***************************************************************************)
EXTENDS Integers, Sequences, FiniteSets, FiniteSetsExt, Functions

CONSTANTS
    ChangeSets,       \* contents a block may commit
    InitialVersion,   \* MultiTree.initialVersion: the version of WAL entry 1
    BaseVersion,      \* version of the first snapshot: 0, or InitialVersion - 1 if imported
    U64,              \* 2^64, the range of a WAL index
    SnapshotInterval, \* Options.SnapshotInterval
    KeepRecent,       \* Options.SnapshotKeepRecent
    Async,            \* Options.AsyncCommitBuffer is not negative
    AsyncBuffer,      \* Options.AsyncCommitBuffer, when it is not
    TargetLoads,      \* whether Load is called with TargetVersion for writing
    MaxHeight         \* bound: blocks per behaviour

ASSUME DBAssumption ==
    /\ InitialVersion \in Nat
    /\ BaseVersion = 0 \/ BaseVersion = InitialVersion - 1
    /\ BaseVersion \in Nat
    /\ SnapshotInterval \in Nat \ {0}
    /\ KeepRecent \in Nat
    /\ Async \in BOOLEAN /\ AsyncBuffer \in Nat
    /\ TargetLoads \in BOOLEAN
    /\ MaxHeight \in Nat
    /\ U64 \in Nat /\ U64 > 2 * (InitialVersion + MaxHeight)

VARIABLES
    \* the chain, as the caller knows it
    chain,    \* change sets of the blocks decided so far
    height,   \* number of blocks the caller has committed to this DB
    durable,  \* number of blocks whose commit was acknowledged as written
    \* disk
    snaps,    \* version -> history, for every snapshot directory
    current,  \* version of the snapshot the `current` link names
    walLog,   \* every entry ever in the WAL, by index
    walFirst, \* entries below this index were truncated away
    \* memory of the process
    main,     \* where the caller's goroutine is; "down" when there is no process
    arg,      \* its local: version being committed, or rollback target
    tree,     \* db.MultiTree
    snapVer,  \* db.SnapshotVersion()
    walErr,   \* db.walErr is latched
    walChan,  \* entries in db.walChan
    writer,   \* where the async writer is
    batch,    \* entries it received and has not written
    rw,       \* background snapshot rewrite
    prune     \* snapshot prune

chainVars == <<chain, height, durable>>
walVars == <<walLog, walFirst>>
dirVars == <<snaps, current>>
treeVars == <<tree, snapVer>>
writerVars == <<walErr, walChan, writer, batch>>
vars == <<chainVars, dirVars, walVars, main, arg, treeVars, writerVars, rw, prune>>

NoRewrite == [pc |-> "none", base |-> <<>>, mtree |-> <<>>]
NoPrune == [pc |-> "none", cur |-> 0, todo |-> {}, earliest |-> 0]

-----------------------------------------------------------------------------
(* An operator whose name starts with Bug is a defect the properties must  *)
(* notice; no action uses it.                                              *)

(* Versions and WAL indexes (multitree.go). *)
nextVersion(v) == IF v = 0 /\ InitialVersion > 1 THEN InitialVersion ELSE v + 1

uint64(n) == IF n < 0 THEN n + U64 ELSE n

walIndex(v) == IF InitialVersion > 1 THEN uint64(v - InitialVersion + 1) ELSE v

walVersion(i) == IF InitialVersion > 1 THEN i + InitialVersion - 1 ELSE i

(* MultiTree.Version of a tree with history h. *)
Version(h) == IF h = <<>> THEN BaseVersion ELSE walVersion(Len(h))

LastIndex == Len(walLog)

(* committedVersionAt *)
CommittedVersion == IF LastIndex = 0 THEN snapVer ELSE walVersion(LastIndex)

(* catchupWAL: the first and the last entry to replay, and the tree it     *)
(* leaves.  endVersion 0 means the end of the WAL, and an end beyond the   *)
(* WAL is clamped to it.                                                   *)
CatchupFrom(h) == walIndex(nextVersion(Version(h)))

CatchupTo(endVersion) ==
    IF endVersion = 0 \/ walIndex(endVersion) > LastIndex
    THEN LastIndex ELSE walIndex(endVersion)

catchupWAL(h, endVersion) ==
    IF CatchupFrom(h) > LastIndex THEN h
    ELSE h \o SubSeq(walLog, CatchupFrom(h), CatchupTo(endVersion))

(* catchupWAL does not fail: its target is not below the tree, and every   *)
(* entry it has to read is still in the log.                               *)
CatchupOK(h, endVersion) ==
    \/ CatchupFrom(h) > LastIndex
    \/ walFirst <= CatchupFrom(h) /\ CatchupFrom(h) <= CatchupTo(endVersion)

(* seekSnapshot: the biggest snapshot at or below the target. *)
SnapshotsUpTo(v) == {s \in DOMAIN snaps : s <= v}
seekSnapshot(v) == Max(SnapshotsUpTo(v))

(* What Load builds for a target version, and when it can. *)
LoadAt(v) ==
    LET h == snaps[seekSnapshot(v)]
    IN IF v > Version(h) THEN catchupWAL(h, v) ELSE h

LoadableAt(v) ==
    /\ SnapshotsUpTo(v) # {}
    /\ LET h == snaps[seekSnapshot(v)] IN v > Version(h) => CatchupOK(h, v)

(* TruncateFront and TruncateBack of tidwall/wal reject an index outside   *)
(* the log (and any index of an empty log).                                *)
InLog(i) == i >= walFirst /\ i <= LastIndex /\ i > 0

WithoutSnapshot(v) == Restrict(snaps, DOMAIN snaps \ {v})

-----------------------------------------------------------------------------
Init ==
    /\ chain = <<>> /\ height = 0 /\ durable = 0
    /\ snaps = [v \in {BaseVersion} |-> <<>>]
    /\ current = BaseVersion
    /\ walLog = <<>> /\ walFirst = 1
    /\ main = "down" /\ arg = 0
    /\ tree = <<>> /\ snapVer = BaseVersion
    /\ walErr = FALSE /\ walChan = <<>> /\ writer = "none" /\ batch = <<>>
    /\ rw = NoRewrite /\ prune = NoPrune
-----------------------------------------------------------------------------
(* Writing the WAL.  Entries at or below the last index are skipped        *)
(* (writeEntry); they are the first k, since entries arrive in order of    *)
(* version.  WriteBatch of tidwall/wal takes consecutive indexes only.     *)
Skips(b, k) ==
    /\ \A i \in 1..k : b[i].index <= LastIndex
    /\ \A i \in (k+1)..Len(b) : b[i].index > LastIndex

InOrder(b, k) == \A i \in (k+1)..Len(b) : b[i].index = LastIndex + i - k

AppendWAL(b, k, n) == walLog' = walLog \o [i \in 1..n |-> b[k + i].data]

WriteBatch(b) ==
    \E k \in 0..Len(b) : Skips(b, k) /\ InOrder(b, k) /\ AppendWAL(b, k, Len(b) - k)

(* A write that fails leaves nothing when the order is wrong, and any      *)
(* prefix of the batch after an I/O error.                                 *)
WriteBatchFails(b) ==
    \E k \in 0..Len(b) : \E n \in 0..(Len(b) - k) :
        /\ Skips(b, k)
        /\ n > 0 => InOrder(b, k)
        /\ AppendWAL(b, k, n)

(* the entry of the version being committed: db.pendingLog *)
Entry == [index |-> walIndex(Version(tree)), data |-> tree[Len(tree)]]

-----------------------------------------------------------------------------
(* Commit, up to the return of the WAL write or of the send to the writer. *)
(* At a height the chain already has, the caller replays that block.       *)
Commit(cs) ==
    /\ main = "idle" /\ ~walErr
    /\ height < MaxHeight /\ Len(tree) < MaxHeight
    /\ IF height < Len(chain) THEN cs = chain[height + 1] /\ UNCHANGED chain
                              ELSE chain' = Append(chain, cs)
    /\ tree' = Append(tree, cs)
    /\ arg' = Version(tree')
    /\ main' = IF Async THEN "send" ELSE "write"
    /\ writer' = IF Async /\ writer = "none" THEN "recv" ELSE writer
    /\ UNCHANGED <<height, durable, dirVars, walVars, snapVer, walErr, walChan, batch, rw, prune>>

(* Commit returns the latched error; the trees are left as they are. *)
CommitRefused ==
    /\ main = "idle" /\ walErr
    /\ main' = "failed"
    /\ UNCHANGED <<chainVars, dirVars, walVars, arg, treeVars, writerVars, rw, prune>>

BugWriteWALSyncIgnoresError ==
    /\ main = "write"
    /\ WriteBatch(<<Entry>>) \/ WriteBatchFails(<<Entry>>)
    /\ main' = "check"
    /\ UNCHANGED <<chainVars, dirVars, walFirst, arg, treeVars, writerVars, rw, prune>>

WriteWALSync ==
    /\ main = "write"
    /\ \/ WriteBatch(<<Entry>>) /\ main' = "check" /\ UNCHANGED walErr
       \/ WriteBatchFails(<<Entry>>) /\ main' = "failed" /\ walErr' = TRUE
    /\ UNCHANGED <<chainVars, dirVars, walFirst, arg, treeVars, walChan, writer, batch, rw, prune>>

SendWAL ==
    /\ main = "send"
    /\ Len(walChan) < AsyncBuffer \/ (writer = "recv" /\ walChan = <<>>)
    /\ walChan' = Append(walChan, Entry)
    /\ main' = "check"
    /\ UNCHANGED <<chainVars, dirVars, walVars, arg, treeVars, walErr, writer, batch, rw, prune>>

BugSendWALQuitNotWatched == FALSE

SendWALQuit ==
    /\ main = "send" /\ writer = "quit"
    /\ walErr' = TRUE
    /\ main' = "failed"
    /\ UNCHANGED <<chainVars, dirVars, walVars, arg, treeVars, walChan, writer, batch, rw, prune>>
-----------------------------------------------------------------------------
(* Commit, second half: checkAsyncTasks and rewriteIfApplicable. *)
RewriteDone == rw.pc \in {"result", "error", "closed"}

AfterCheck == IF walErr THEN "failed" ELSE "rewrite"

CheckPending ==
    /\ main = "check" /\ ~RewriteDone
    /\ main' = AfterCheck
    /\ UNCHANGED <<chainVars, dirVars, walVars, arg, treeVars, writerVars, rw, prune>>

(* the rewrite gave up without a tree: an error is returned, a closed channel ignored *)
CheckNoTree ==
    /\ main = "check" /\ rw.pc \in {"error", "closed"}
    /\ rw' = NoRewrite
    /\ main' = IF rw.pc = "error" THEN "failed" ELSE AfterCheck
    /\ UNCHANGED <<chainVars, dirVars, walVars, arg, treeVars, writerVars, prune>>

CheckResult ==
    /\ main = "check" /\ rw.pc = "result"
    /\ main' = "wait"
    /\ UNCHANGED <<chainVars, dirVars, walVars, arg, treeVars, writerVars, rw, prune>>

(* waitForWAL: a latched error wins even over a WAL that caught up *)
CaughtUp == \/ Version(tree) < InitialVersion \/ Version(tree) <= 0
            \/ CommittedVersion >= Version(tree)

BugWaitCommittedAtOnce ==
    /\ main = "wait" /\ ~walErr
    /\ main' = "switch"
    /\ UNCHANGED <<chainVars, dirVars, walVars, arg, treeVars, writerVars, rw, prune>>

WaitCommitted ==
    /\ main = "wait" /\ ~walErr /\ CaughtUp
    /\ main' = "switch"
    /\ UNCHANGED <<chainVars, dirVars, walVars, arg, treeVars, writerVars, rw, prune>>

(* the error is latched, or the time is up before the WAL caught up *)
WaitFailed ==
    /\ main = "wait" /\ (walErr \/ ~CaughtUp)
    /\ main' = "failed"
    /\ rw' = NoRewrite
    /\ UNCHANGED <<chainVars, dirVars, walVars, arg, treeVars, writerVars, prune>>

BugSwitchTreeNoFinalCatchup ==
    /\ main = "switch"
    /\ tree' = rw.mtree /\ snapVer' = Version(rw.base)
    /\ rw' = NoRewrite
    /\ main' = "prune"
    /\ UNCHANGED <<chainVars, dirVars, walVars, arg, writerVars, prune>>

(* final catch-up and reloadMultiTree; pendingLog is empty by now *)
SwitchTree ==
    /\ main = "switch" /\ CatchupOK(rw.mtree, 0)
    /\ tree' = catchupWAL(rw.mtree, 0)
    /\ snapVer' = Version(rw.base)
    /\ rw' = NoRewrite
    /\ main' = "prune"
    /\ UNCHANGED <<chainVars, dirVars, walVars, arg, writerVars, prune>>

(* the WAL can't be read, or the retired generation can't be unmapped *)
SwitchFailed ==
    /\ main = "switch"
    /\ rw' = NoRewrite
    /\ main' = "failed"
    /\ UNCHANGED <<chainVars, dirVars, walVars, arg, treeVars, writerVars, prune>>

(* pruneSnapshots takes pruneSnapshotLock before it starts the goroutine *)
pruneSnapshots ==
    /\ main = "prune" /\ prune.pc = "none"
    /\ prune' = [NoPrune EXCEPT !.pc = "read"]
    /\ main' = "rewrite"
    /\ UNCHANGED <<chainVars, dirVars, walVars, arg, treeVars, writerVars, rw>>

(* rewriteIfApplicable; Commit returns *)
rewriteIfApplicable ==
    /\ main = "rewrite"
    /\ rw' = IF arg % SnapshotInterval = 0 /\ rw.pc = "none"
             THEN [pc |-> "write", base |-> tree, mtree |-> <<>>] ELSE rw
    /\ main' = "idle"
    /\ height' = height + 1
    /\ durable' = IF Async THEN durable ELSE Max({durable, height + 1})
    /\ UNCHANGED <<chain, dirVars, walVars, arg, treeVars, writerVars, prune>>

-----------------------------------------------------------------------------
(* WaitAsyncCommit and Close. *)
WaitAsyncCommit ==
    /\ main = "idle" /\ writer # "none"
    /\ main' = "flush"
    /\ UNCHANGED <<chainVars, dirVars, walVars, arg, treeVars, writerVars, rw, prune>>

Close ==
    /\ main \in {"idle", "failed"}
    /\ main' = "closeFlush"
    /\ UNCHANGED <<chainVars, dirVars, walVars, arg, treeVars, writerVars, rw, prune>>

(* close(db.walChan) *)
ChanClosed == main \in {"flush", "closeFlush"}

BugFlushedWithoutQuit ==
    /\ ChanClosed
    /\ writer' = "none" /\ walChan' = <<>> /\ batch' = <<>>
    /\ durable' = IF walErr THEN durable ELSE Max({durable, height})
    /\ main' = IF main = "closeFlush" THEN "closeRewrite"
               ELSE IF walErr THEN "failed" ELSE "idle"
    /\ UNCHANGED <<chain, height, dirVars, walVars, arg, treeVars, walErr, rw, prune>>

(* <-db.walQuit; entries the writer never received are dropped with the channel *)
Flushed ==
    /\ ChanClosed /\ writer \in {"none", "quit"}
    /\ writer' = "none" /\ walChan' = <<>> /\ batch' = <<>>
    /\ durable' = IF walErr THEN durable ELSE Max({durable, height})
    /\ main' = IF main = "closeFlush" THEN "closeRewrite"
               ELSE IF walErr THEN "failed" ELSE "idle"
    /\ UNCHANGED <<chain, height, dirVars, walVars, arg, treeVars, walErr, rw, prune>>

(* cancel the rewrite and take its result, if there is one *)
CloseRewrite ==
    /\ main = "closeRewrite" /\ (rw.pc = "none" \/ RewriteDone)
    /\ rw' = NoRewrite
    /\ main' = "closePrune"
    /\ UNCHANGED <<chainVars, dirVars, walVars, arg, treeVars, writerVars, prune>>

(* the process is gone, and with it all that is not on disk *)
Down ==
    /\ main' = "down" /\ arg' = 0
    /\ height' = 0 /\ tree' = <<>> /\ snapVer' = BaseVersion
    /\ walErr' = FALSE /\ walChan' = <<>> /\ writer' = "none" /\ batch' = <<>>
    /\ rw' = NoRewrite /\ prune' = NoPrune
    /\ UNCHANGED <<chain, durable, dirVars, walVars>>

CloseDone == main = "closePrune" /\ prune.pc = "none" /\ Down

Crash == main # "down" /\ Down
-----------------------------------------------------------------------------
(* The async WAL writer: channelBatchRecv takes one entry, then what the   *)
(* channel holds; writeWALAsync writes them as one batch.                  *)
WriterRecv ==
    /\ writer = "recv" /\ walChan # <<>>
    /\ batch' = <<Head(walChan)>> /\ walChan' = Tail(walChan)
    /\ writer' = "drain"
    /\ UNCHANGED <<chainVars, dirVars, walVars, main, arg, treeVars, walErr, rw, prune>>

WriterDrain ==
    /\ writer = "drain"
    /\ batch' = batch \o walChan /\ walChan' = <<>>
    /\ writer' = "write"
    /\ UNCHANGED <<chainVars, dirVars, walVars, main, arg, treeVars, walErr, rw, prune>>

WriterWrite ==
    /\ writer = "write" /\ WriteBatch(batch)
    /\ batch' = <<>> /\ writer' = "recv"
    /\ UNCHANGED <<chainVars, dirVars, walFirst, main, arg, treeVars, walErr, walChan, rw, prune>>

WriterFail ==
    /\ writer = "write" /\ WriteBatchFails(batch)
    /\ batch' = <<>> /\ writer' = "latch"
    /\ UNCHANGED <<chainVars, dirVars, walFirst, main, arg, treeVars, walErr, walChan, rw, prune>>

WriterLatch ==
    /\ writer = "latch"
    /\ walErr' = TRUE /\ writer' = "exit"
    /\ UNCHANGED <<chainVars, dirVars, walVars, main, arg, treeVars, walChan, batch, rw, prune>>

WriterClosed ==
    /\ writer = "recv" /\ walChan = <<>> /\ ChanClosed
    /\ writer' = "exit"
    /\ UNCHANGED <<chainVars, dirVars, walVars, main, arg, treeVars, walErr, walChan, batch, rw, prune>>

WriterExit ==
    /\ writer = "exit"
    /\ writer' = "quit"
    /\ UNCHANGED <<chainVars, dirVars, walVars, main, arg, treeVars, walErr, walChan, batch, rw, prune>>

Writer == \/ WriterRecv \/ WriterDrain \/ WriterWrite \/ WriterFail
          \/ WriterLatch \/ WriterClosed \/ WriterExit

-----------------------------------------------------------------------------
(* The background rewrite: RewriteSnapshotWithContext on a copy of the     *)
(* tree, then LoadMultiTree(current) and a best-effort catch-up.           *)
rwFrame == <<chainVars, walVars, main, arg, treeVars, writerVars, prune>>

(* all trees and the metadata are in the tmp dir; a cancel before that is an error *)
RewriteWrite ==
    /\ rw.pc = "write" /\ main # "closeRewrite"
    /\ rw' = [rw EXCEPT !.pc = "rename"]
    /\ UNCHANGED <<dirVars, rwFrame>>

RewriteRename ==
    /\ rw.pc = "rename" /\ Version(rw.base) \notin DOMAIN snaps
    /\ snaps' = [v \in DOMAIN snaps \cup {Version(rw.base)} |->
                    IF v = Version(rw.base) THEN rw.base ELSE snaps[v]]
    /\ rw' = [rw EXCEPT !.pc = "link"]
    /\ UNCHANGED <<current, rwFrame>>

RewriteLink ==
    /\ rw.pc = "link"
    /\ current' = Version(rw.base)
    /\ rw' = [rw EXCEPT !.pc = "load"]
    /\ UNCHANGED <<snaps, rwFrame>>

(* any of these steps fails: logged, and the channel closed without a result. *)
(* A rename always fails on an existing snapshot; at "load" it is the fsync   *)
(* after the link that failed.                                                *)
RewriteFail ==
    /\ rw.pc \in {"write", "rename", "link", "load"}
    /\ rw' = [NoRewrite EXCEPT !.pc = "closed"]
    /\ UNCHANGED <<dirVars, rwFrame>>

RewriteLoad ==
    /\ rw.pc = "load" /\ current \in DOMAIN snaps
    /\ rw' = [pc |-> "catchup", base |-> snaps[current], mtree |-> snaps[current]]
    /\ UNCHANGED <<dirVars, rwFrame>>

RewriteCatchup ==
    /\ rw.pc = "catchup" /\ CatchupOK(rw.mtree, 0)
    /\ rw' = [rw EXCEPT !.pc = "result", !.mtree = catchupWAL(rw.mtree, 0)]
    /\ UNCHANGED <<dirVars, rwFrame>>

RewriteLoadFail ==
    /\ rw.pc \in {"load", "catchup"}
    /\ rw' = [NoRewrite EXCEPT !.pc = "error"]
    /\ UNCHANGED <<dirVars, rwFrame>>

Rewrite == \/ RewriteWrite \/ RewriteRename \/ RewriteLink \/ RewriteFail
           \/ RewriteLoad \/ RewriteCatchup \/ RewriteLoadFail
-----------------------------------------------------------------------------
(* The prune goroutine. *)
pruneFrame == <<chainVars, current, walLog, main, arg, treeVars, writerVars, rw>>

PruneRead ==
    /\ prune.pc = "read"
    /\ prune' = [prune EXCEPT !.pc = "list", !.cur = current]
    /\ UNCHANGED <<snaps, walFirst, pruneFrame>>

BugPrunableCurrent(cur) ==
    {v \in DOMAIN snaps :
        /\ v <= cur
        /\ Cardinality({w \in DOMAIN snaps : v < w /\ w < cur}) >= KeepRecent}

(* of the snapshots below current, all but the KeepRecent newest *)
Prunable(cur) ==
    {v \in DOMAIN snaps :
        /\ v < cur
        /\ Cardinality({w \in DOMAIN snaps : v < w /\ w < cur}) >= KeepRecent}

PruneList ==
    /\ prune.pc = "list"
    /\ prune' = [prune EXCEPT !.pc = "remove", !.todo = Prunable(prune.cur)]
    /\ UNCHANGED <<snaps, walFirst, pruneFrame>>

(* newest first; a removal that fails is logged and the next one tried *)
PruneRemove ==
    /\ prune.pc = "remove" /\ prune.todo # {}
    /\ LET v == Max(prune.todo)
       IN /\ prune' = [prune EXCEPT !.todo = @ \ {v}]
          /\ snaps' = WithoutSnapshot(v) \/ UNCHANGED snaps
    /\ UNCHANGED <<walFirst, pruneFrame>>

BugPruneScanCurrent ==
    /\ prune.pc = "remove" /\ prune.todo = {}
    /\ prune' = [prune EXCEPT !.pc = "cut", !.earliest = prune.cur]
    /\ UNCHANGED <<snaps, walFirst, pruneFrame>>

PruneScan ==
    /\ prune.pc = "remove" /\ prune.todo = {} /\ DOMAIN snaps # {}
    /\ prune' = [prune EXCEPT !.pc = "cut", !.earliest = Min(DOMAIN snaps)]
    /\ UNCHANGED <<snaps, walFirst, pruneFrame>>

BugPruneCutOffByOne ==
    /\ prune.pc = "cut"
    /\ walFirst' = IF /\ prune.earliest + 1 >= InitialVersion
                      /\ InLog(walIndex(prune.earliest + 2))
                   THEN walIndex(prune.earliest + 2) ELSE walFirst
    /\ prune' = NoPrune
    /\ UNCHANGED <<snaps, pruneFrame>>

(* the guard against walIndex underflow, then TruncateFront, whose error is logged *)
PruneCut ==
    /\ prune.pc = "cut"
    /\ walFirst' = IF /\ prune.earliest + 1 >= InitialVersion
                      /\ InLog(walIndex(prune.earliest + 1))
                   THEN walIndex(prune.earliest + 1) ELSE walFirst
    /\ prune' = NoPrune
    /\ UNCHANGED <<snaps, pruneFrame>>

(* the link or the directory can't be read, or the log can't be cut *)
PruneAbort ==
    /\ prune.pc # "none"
    /\ prune' = NoPrune
    /\ UNCHANGED <<snaps, walFirst, pruneFrame>>

Prune == \/ PruneRead \/ PruneList \/ PruneRemove
         \/ PruneScan \/ PruneCut \/ PruneAbort

-----------------------------------------------------------------------------
(* Load.  A Load that returns an error leaves the disk as it is.           *)
Opened(h, snapshot, where) ==
    /\ tree' = h /\ snapVer' = snapshot
    /\ main' = where
    /\ UNCHANGED <<chain, durable, dirVars, walVars, writerVars, rw, prune>>

LoadLatest ==
    /\ main = "down"
    /\ current \in DOMAIN snaps /\ CatchupOK(snaps[current], 0)
    /\ Opened(catchupWAL(snaps[current], 0), current, "idle")
    /\ height' = Len(tree') /\ UNCHANGED arg

(* TargetVersion without LoadForOverwriting *)
LoadTarget(v) ==
    /\ main = "down" /\ TargetLoads
    /\ LoadableAt(v)
    /\ Opened(LoadAt(v), seekSnapshot(v), "idle")
    /\ height' = Len(tree') /\ UNCHANGED arg

(* LoadForOverwriting; the disk is changed by the steps that follow *)
LoadForOverwriting(v) ==
    /\ main = "down"
    /\ LoadableAt(v) /\ InLog(walIndex(v))
    /\ Opened(LoadAt(v), seekSnapshot(v), "rollbackLink")
    /\ arg' = v /\ UNCHANGED height

rollbackFrame == <<walFirst, arg, treeVars, writerVars, rw, prune>>

(* from here on the blocks above the target are given up *)
RollbackLink ==
    /\ main = "rollbackLink"
    /\ current' = snapVer
    /\ durable' = Min({durable, Len(tree)})
    /\ main' = "rollbackDelete"
    /\ UNCHANGED <<chain, height, snaps, walLog, rollbackFrame>>

NewerSnapshots == {v \in DOMAIN snaps : v > arg}

(* newest first *)
RollbackDelete ==
    /\ main = "rollbackDelete" /\ NewerSnapshots # {}
    /\ snaps' = WithoutSnapshot(Max(NewerSnapshots))
    /\ UNCHANGED <<chainVars, current, walLog, main, rollbackFrame>>

BugRollbackCutFirst ==
    /\ main = "rollbackDelete"
    /\ walLog' = SubSeq(walLog, 1, walIndex(arg))
    /\ chain' = SubSeq(chain, 1, Min({Len(chain), Len(tree)}))
    /\ height' = Len(tree)
    /\ main' = "idle"
    /\ UNCHANGED <<durable, dirVars, rollbackFrame>>

BugRollbackCutSkipped ==
    /\ main = "rollbackDelete" /\ NewerSnapshots = {}
    /\ height' = Len(tree)
    /\ main' = "idle"
    /\ UNCHANGED <<chain, durable, dirVars, walLog, rollbackFrame>>

(* TruncateBack; the chain the caller will go on from ends here *)
RollbackCut ==
    /\ main = "rollbackDelete" /\ NewerSnapshots = {}
    /\ walLog' = SubSeq(walLog, 1, walIndex(arg))
    /\ chain' = SubSeq(chain, 1, Min({Len(chain), Len(tree)}))
    /\ height' = Len(tree)
    /\ main' = "idle"
    /\ UNCHANGED <<durable, dirVars, rollbackFrame>>
-----------------------------------------------------------------------------
Targets == 1..walVersion(MaxHeight)

(* Steps of the caller's goroutine that need nothing from outside. *)
Caller ==
    \/ WriteWALSync \/ SendWAL \/ SendWALQuit
    \/ CheckPending \/ CheckNoTree \/ CheckResult
    \/ WaitCommitted \/ WaitFailed \/ SwitchTree \/ SwitchFailed
    \/ pruneSnapshots \/ rewriteIfApplicable
    \/ Flushed \/ CloseRewrite \/ CloseDone
    \/ RollbackLink \/ RollbackDelete \/ RollbackCut

Next ==
    \/ \E cs \in ChangeSets : Commit(cs)
    \/ CommitRefused \/ WaitAsyncCommit \/ Close \/ Crash
    \/ LoadLatest
    \/ \E v \in Targets : LoadTarget(v) \/ LoadForOverwriting(v)
    \/ Caller \/ Writer \/ Rewrite \/ Prune

Spec == Init /\ [][Next]_vars

(* Every goroutine runs: a mutex holder, the writer, the rewrite and the   *)
(* prune are never descheduled forever, and a wait on the WAL times out.   *)
Fairness ==
    /\ WF_vars(Caller) /\ WF_vars(Writer) /\ WF_vars(Rewrite) /\ WF_vars(Prune)

FairSpec == Spec /\ Fairness

-----------------------------------------------------------------------------
(* Properties.                                                             *)

WalEntries == [index : Nat, data : ChangeSets]

TypeOK ==
    /\ chain \in Seq(ChangeSets) /\ height \in Nat /\ durable \in Nat
    /\ DOMAIN snaps \subseteq Nat /\ \A v \in DOMAIN snaps : snaps[v] \in Seq(ChangeSets)
    /\ current \in Nat
    /\ walLog \in Seq(ChangeSets) /\ walFirst \in Nat
    /\ main \in {"down", "idle", "failed", "write", "send", "check", "wait", "switch",
                 "prune", "rewrite", "flush", "closeFlush", "closeRewrite", "closePrune",
                 "rollbackLink", "rollbackDelete"}
    /\ arg \in Nat
    /\ tree \in Seq(ChangeSets) /\ snapVer \in Nat
    /\ walErr \in BOOLEAN
    /\ walChan \in Seq(WalEntries) /\ batch \in Seq(WalEntries)
    /\ writer \in {"none", "recv", "drain", "write", "latch", "exit", "quit"}
    /\ rw \in [pc : {"none", "write", "rename", "link", "load", "catchup",
                     "result", "error", "closed"},
               base : Seq(ChangeSets), mtree : Seq(ChangeSets)]
    /\ prune \in [pc : {"none", "read", "list", "remove", "cut"},
                  cur : Nat, todo : SUBSET Nat, earliest : Nat]

(* What a Load of the latest version would find if the process died now. *)
Recovered == catchupWAL(snaps[current], 0)

ChainUpTo(n) == SubSeq(chain, 1, n)

(* Whatever the rewrite, the prune or a rollback were doing when the       *)
(* process died, the next Load succeeds: `current` names a snapshot that   *)
(* exists and the WAL still reaches back to it.                            *)
CurrentLoadable == current \in DOMAIN snaps /\ CatchupOK(snaps[current], 0)

(* ... and it rebuilds blocks of the chain, among them every block whose   *)
(* commit was acknowledged: by Commit itself when it writes synchronously, *)
(* by WaitAsyncCommit or Close otherwise.                                  *)
CommittedBlocksKept ==
    /\ durable <= Len(Recovered) /\ Len(Recovered) <= Len(chain)
    /\ Recovered = ChainUpTo(Len(Recovered))

(* Every version from the earliest snapshot to the end of the WAL can be   *)
(* loaded, and is the block of that version: the prune never truncates     *)
(* entries that a snapshot it kept still needs, nor removes the snapshot a *)
(* kept WAL entry builds on.                                               *)
RetainedVersionsLoadable ==
    \A v \in Targets :
        /\ Min(DOMAIN snaps) <= v /\ InitialVersion <= v
        /\ v <= walVersion(LastIndex)
        => LoadableAt(v) /\ LoadAt(v) = ChainUpTo(walIndex(v))

(* A caller that is not inside a call sees the trees of the blocks it      *)
(* committed, whatever snapshot the background rewrite switched it to.     *)
TreeMatchesChain ==
    main = "idle" => /\ height <= Len(chain)
                     /\ tree = ChainUpTo(height)

(* The comment on DB.walReader: "the LastIndex always match the current    *)
(* version of MultiTree", when no entry is on its way to the WAL.          *)
LastIndexMatches ==
    main = "idle" /\ ~walErr /\ writer \in {"none", "recv"} /\ walChan = <<>> =>
        tree = <<>> \/ LastIndex = walIndex(Version(tree))

(* "no snapshot is ever newer than the WAL", also in the middle of a       *)
(* rollback: snapshots go before the WAL entries they contain.             *)
NoSnapshotNewerThanWAL ==
    \A v \in DOMAIN snaps : Len(snaps[v]) <= LastIndex

(* Only a rollback rewrites history: after any other step a version in the *)
(* WAL that could be loaded is the same state as before, if it can still   *)
(* be loaded, and it can if it is not older than the current snapshot.     *)
OnlyRollbackRewritesHistory ==
    [][ \/ UNCHANGED <<dirVars, walVars>> \/ main \in {"rollbackLink", "rollbackDelete"}
        \/ \A v \in Targets :
             InitialVersion <= v /\ v <= walVersion(LastIndex) /\ LoadableAt(v) =>
                 /\ v >= current => LoadableAt(v)'
                 /\ LoadableAt(v)' => LoadAt(v)' = LoadAt(v) ]_vars

(* Every call returns: no send to a dead writer, no wait for a WAL that    *)
(* makes no progress, no lock the prune keeps, blocks the caller forever.  *)
CallsReturn == main \notin {"idle", "down", "failed"} ~> main \in {"idle", "down", "failed"}
=============================================================================
