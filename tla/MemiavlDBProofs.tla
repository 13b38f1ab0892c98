--------------------------- MODULE MemiavlDBProofs ---------------------------
(***************************************************************************)
(* memiavl.DB can always be loaded again: for any options, any number of   *)
(* blocks and a crash at any step, the `current` link names a snapshot     *)
(* that exists and the WAL reaches back to it.  Then how long the          *)
(* histories are that the disk and the goroutines hold: WAL indexes never  *)
(* come near the point where they wrap around.                             *)
(***************************************************************************)
EXTENDS MemiavlDB, SequenceTheorems, WellFoundedInduction, TLAPS

Rollback == {"rollbackLink", "rollbackDelete"}

(* The directory: a snapshot is named by its version, the WAL starts at or *)
(* before the entry that follows any of them, and `current` is one of them. *)
DirInv ==
    /\ current \in DOMAIN snaps
    /\ \A v \in DOMAIN snaps : Version(snaps[v]) = v /\ walFirst <= Len(snaps[v]) + 1
    /\ \E n \in Nat : \A v \in DOMAIN snaps : v <= n

(* The caller's goroutine. *)
MainInv ==
    /\ main \in Rollback \cup {"down"} => rw.pc = "none" /\ prune.pc = "none"
    /\ main # "down" => walFirst <= Len(tree) + 1
    /\ main \in {"write", "send"} => tree # <<>>
    /\ main \in {"wait", "switch"} => rw.pc = "result"
    /\ main = "prune" => rw.pc = "none" /\ Len(snaps[current]) <= Len(tree)
    /\ main \in Rollback => snapVer \in DOMAIN snaps /\ snapVer <= arg /\ InLog(walIndex(arg))
    /\ main = "rollbackDelete" => current = snapVer

(* A rewrite copies the tree, which only grows until the switch, and the   *)
(* tree it loads is built on the snapshot it linked.                       *)
RewriteInv ==
    /\ rw.pc \in {"write", "rename", "link"} =>
         Len(rw.base) <= Len(tree) /\ walFirst <= Len(rw.base) + 1
    /\ rw.pc = "link" => Version(rw.base) \in DOMAIN snaps /\ snaps[Version(rw.base)] = rw.base
    /\ rw.pc \in {"catchup", "result"} =>
         rw.base = snaps[current] /\ Len(rw.base) <= Len(rw.mtree)

(* A prune runs beside a tree, and beside rewrites, that are not older     *)
(* than `current`: the link can only move forward while it runs.           *)
PruneInv ==
    /\ prune.pc # "none" =>
         /\ Len(snaps[current]) <= Len(tree)
         /\ rw.pc \in {"write", "rename", "link"} => Len(snaps[current]) <= Len(rw.base)
    /\ prune.pc \in {"list", "remove", "cut"} => prune.cur <= current
    /\ prune.pc = "read" => prune.todo = {}
    /\ \A v \in prune.todo : v < prune.cur
    /\ prune.pc = "cut" => /\ prune.earliest \in DOMAIN snaps
                           /\ \A v \in DOMAIN snaps : prune.earliest <= v

IndInv == TypeOK /\ DirInv /\ MainInv /\ RewriteInv /\ PruneInv
-----------------------------------------------------------------------------
(* Facts about numbers and sequences. *)

(* A nonempty set of naturals has a least element, and Min is it. *)
LEMMA MinOfNats ==
    ASSUME NEW S \in SUBSET Nat, S # {}
    PROVE  Min(S) \in S /\ \A x \in S : Min(S) <= x
<1>1. PICK m \in S : \A y \in S : ~(<<y, m>> \in OpToRel(<, Nat))
  BY WFMin, NatLessThanWellFounded, Zenon
<1>2. ASSUME NEW y \in S PROVE m <= y
  <2>1. ~(y < m)
    BY <1>1, Zenon DEF OpToRel
  <2>. QED  BY <2>1
<1>. QED  BY <1>2, Zenon DEF Min

(* A nonempty bounded set of naturals has a greatest element, and Max is it. *)
LEMMA MaxOfNats ==
    ASSUME NEW S \in SUBSET Nat, S # {}, NEW n \in Nat, \A x \in S : x <= n
    PROVE  Max(S) \in S /\ \A x \in S : x <= Max(S)
<1>. DEFINE B == {b \in Nat : \A x \in S : x <= b}
            m == Min(B)
<1>1. m \in B /\ \A b \in B : m <= b
  BY MinOfNats, Zenon
<1>. HIDE DEF m
<1>2. m \in S
  <2>. SUFFICES ASSUME m \notin S PROVE FALSE
    OBVIOUS
  <2>1. \A x \in S : x <= m - 1
    BY <1>1
  <2>2. m - 1 \in Nat
    <3>1. PICK x \in S : TRUE
      BY Zenon
    <3>. QED  BY <2>1, <3>1, <1>1
  <2>3. m - 1 \in B
    BY <2>1, <2>2
  <2>. QED  BY <2>2, <2>3, <1>1
<1>3. \A x \in S : m >= x
  BY <1>1
<1>. QED  BY <1>2, <1>3, Zenon DEF Max

LEMMA MaxOfPair ==
    ASSUME NEW a \in Nat, NEW b \in Nat
    PROVE  Max({a, b}) \in Nat /\ Min({a, b}) \in Nat /\ Min({a, b}) <= a
<1>1. \A x \in {a, b} : x <= a + b
  OBVIOUS
<1>2. {a, b} \in SUBSET Nat /\ {a, b} # {} /\ a + b \in Nat
  OBVIOUS
<1>3. Max({a, b}) \in {a, b}
  BY <1>1, <1>2, MaxOfNats
<1>4. Min({a, b}) \in {a, b} /\ \A x \in {a, b} : Min({a, b}) <= x
  BY <1>2, MinOfNats
<1>. QED  BY <1>3, <1>4, Zenon

(* A part of a sequence is a sequence over the same set. *)
LEMMA SubSeqType ==
    ASSUME NEW S, NEW s \in Seq(S), NEW m \in Nat \ {0}, NEW n \in Nat, n <= Len(s)
    PROVE  SubSeq(s, m, n) \in Seq(S)
<1>1. \A i \in m..n : s[i] \in S
  BY ElementOfSeq
<1>. QED  BY <1>1, SubSeqProperties

-----------------------------------------------------------------------------
(* Versions and WAL indexes. *)

LEMMA WalIndexType == ASSUME NEW v \in Nat PROVE walIndex(v) \in Nat
BY DBAssumption DEF walIndex, uint64

LEMMA VersionType == ASSUME NEW h \in Seq(ChangeSets) PROVE Version(h) \in Nat
BY DBAssumption, LenProperties DEF Version, walVersion

(* A longer history has a higher version: a version stands for the length. *)
LEMMA VersionOrder ==
    ASSUME NEW g \in Seq(ChangeSets), NEW h \in Seq(ChangeSets)
    PROVE  Version(g) <= Version(h) <=> Len(g) <= Len(h)
BY DBAssumption, LenProperties, EmptySeq DEF Version, walVersion

(* The entry that follows a tree of n versions is entry n + 1, whether the *)
(* chain starts at version 1, at InitialVersion, or after an import: the   *)
(* gap nextVersion jumps over is the one walIndex subtracts.               *)
LEMMA CatchupFromNext ==
    ASSUME NEW h \in Seq(ChangeSets)
    PROVE  CatchupFrom(h) = Len(h) + 1
<1>1. CASE h = <<>>
  BY <1>1, DBAssumption, EmptySeq DEF CatchupFrom, walIndex, uint64, nextVersion, Version
<1>2. CASE h # <<>>
  BY <1>2, DBAssumption, EmptySeq, LenProperties
     DEF CatchupFrom, walIndex, uint64, nextVersion, Version, walVersion
<1>. QED  BY <1>1, <1>2

(* catchupWAL only adds to the tree. *)
LEMMA CatchupGrows ==
    ASSUME walLog \in Seq(ChangeSets), NEW h \in Seq(ChangeSets), NEW v \in Nat
    PROVE  /\ catchupWAL(h, v) \in Seq(ChangeSets)
           /\ Len(h) <= Len(catchupWAL(h, v))
<1>1. Len(h) \in Nat /\ LastIndex \in Nat
  BY LenProperties DEF LastIndex
<1>2. CatchupTo(v) \in Nat /\ CatchupTo(v) <= Len(walLog)
  BY <1>1, WalIndexType DEF CatchupTo, LastIndex
<1>. DEFINE s == SubSeq(walLog, CatchupFrom(h), CatchupTo(v))
<1>3. s \in Seq(ChangeSets)
  BY <1>1, <1>2, CatchupFromNext, SubSeqType
<1>. HIDE DEF s
<1>4. h \o s \in Seq(ChangeSets) /\ Len(h) <= Len(h \o s)
  <2>1. Len(s) \in Nat
    BY <1>3, LenProperties
  <2>. QED  BY <1>1, <1>3, <2>1, ConcatProperties
<1>5. catchupWAL(h, v) = IF CatchupFrom(h) > LastIndex THEN h ELSE h \o s
  BY DEF catchupWAL, s
<1>. QED  BY <1>1, <1>4, <1>5

(* Catching up to the end of the WAL works whenever the WAL reaches back   *)
(* to the tree.                                                            *)
LEMMA CatchupReaches ==
    ASSUME walLog \in Seq(ChangeSets), NEW h \in Seq(ChangeSets), walFirst <= Len(h) + 1
    PROVE  CatchupOK(h, 0)
<1>1. Len(h) \in Nat /\ LastIndex \in Nat
  BY LenProperties DEF LastIndex
<1>. QED  BY <1>1, CatchupFromNext DEF CatchupOK, CatchupTo

-----------------------------------------------------------------------------
(* Types. *)

(* Whatever part of a batch is written, the log is extended. *)
LEMMA AppendType ==
    ASSUME walLog \in Seq(ChangeSets), NEW b \in Seq(WalEntries),
           NEW k \in Nat, NEW n \in Nat, k + n <= Len(b), AppendWAL(b, k, n)
    PROVE  walLog' \in Seq(ChangeSets) /\ Len(walLog) <= Len(walLog')
<1>. DEFINE s == [i \in 1..n |-> b[k + i].data]
<1>1. \A i \in 1..n : b[k + i].data \in ChangeSets
  <2>. SUFFICES ASSUME NEW i \in 1..n PROVE b[k + i].data \in ChangeSets
    OBVIOUS
  <2>1. k + i \in 1..Len(b)
    BY LenProperties
  <2>2. b[k + i] \in WalEntries
    BY <2>1, ElementOfSeq
  <2>. QED  BY <2>2 DEF WalEntries
<1>2. s \in Seq(ChangeSets) /\ Len(s) = n
  BY <1>1
<1>3. walLog' = walLog \o s
  BY DEF AppendWAL
<1>. HIDE DEF s
<1>. QED  BY <1>2, <1>3, ConcatProperties, LenProperties

LEMMA WriteType ==
    ASSUME walLog \in Seq(ChangeSets), NEW b \in Seq(WalEntries),
           WriteBatch(b) \/ WriteBatchFails(b)
    PROVE  walLog' \in Seq(ChangeSets) /\ Len(walLog) <= Len(walLog')
<1>1. Len(b) \in Nat
  BY LenProperties
<1>2. CASE WriteBatch(b)
  <2>1. PICK k \in 0..Len(b) : AppendWAL(b, k, Len(b) - k)
    BY <1>2 DEF WriteBatch
  <2>. QED  BY <1>1, <2>1, AppendType
<1>3. CASE WriteBatchFails(b)
  <2>1. PICK k \in 0..Len(b) : \E n \in 0..(Len(b) - k) : AppendWAL(b, k, n)
    BY <1>3 DEF WriteBatchFails
  <2>2. PICK n \in 0..(Len(b) - k) : AppendWAL(b, k, n)
    BY <2>1
  <2>. QED  BY <1>1, <2>2, AppendType
<1>. QED  BY <1>2, <1>3

LEMMA EntryType ==
    ASSUME tree \in Seq(ChangeSets), tree # <<>>
    PROVE  Entry \in WalEntries /\ <<Entry>> \in Seq(WalEntries)
<1>1. tree[Len(tree)] \in ChangeSets
  BY EmptySeq, ElementOfSeq
<1>2. walIndex(Version(tree)) \in Nat
  BY VersionType, WalIndexType
<1>3. Entry \in WalEntries
  BY <1>1, <1>2 DEF Entry, WalEntries
<1>. QED  BY <1>3

(* The snapshot a Load starts from exists and is not above the target. *)
LEMMA SeekSnapshot ==
    ASSUME DOMAIN snaps \subseteq Nat, NEW v \in Nat, SnapshotsUpTo(v) # {}
    PROVE  seekSnapshot(v) \in DOMAIN snaps /\ seekSnapshot(v) <= v
<1>1. SnapshotsUpTo(v) \in SUBSET Nat /\ \A x \in SnapshotsUpTo(v) : x <= v
  BY DEF SnapshotsUpTo
<1>2. Max(SnapshotsUpTo(v)) \in SnapshotsUpTo(v)
  BY <1>1, MaxOfNats, Zenon
<1>. QED  BY <1>2 DEF seekSnapshot, SnapshotsUpTo

LEMMA LoadAtType ==
    ASSUME TypeOK, NEW v \in Nat, SnapshotsUpTo(v) # {}
    PROVE  /\ LoadAt(v) \in Seq(ChangeSets)
           /\ Len(snaps[seekSnapshot(v)]) <= Len(LoadAt(v))
<1>. DEFINE h == snaps[seekSnapshot(v)]
<1>1. h \in Seq(ChangeSets)
  BY SeekSnapshot DEF TypeOK
<1>. HIDE DEF h
<1>2. /\ catchupWAL(h, v) \in Seq(ChangeSets)
      /\ Len(h) <= Len(catchupWAL(h, v))
  BY <1>1, CatchupGrows DEF TypeOK
<1>3. LoadAt(v) = IF v > Version(h) THEN catchupWAL(h, v) ELSE h
  BY DEF LoadAt, h
<1>4. Len(h) \in Nat
  BY <1>1, LenProperties
<1>. QED  BY <1>1, <1>2, <1>3, <1>4 DEF h

LEMMA TargetType == ASSUME NEW v \in Targets PROVE v \in Nat
BY DBAssumption DEF Targets, walVersion

(* The records of the two background tasks. *)
RewriteRecords ==
    [pc : {"none", "write", "rename", "link", "load", "catchup",
           "result", "error", "closed"},
     base : Seq(ChangeSets), mtree : Seq(ChangeSets)]

PruneRecords ==
    [pc : {"none", "read", "list", "remove", "cut"},
     cur : Nat, todo : SUBSET Nat, earliest : Nat]

SnapsType == DOMAIN snaps \subseteq Nat /\ \A v \in DOMAIN snaps : snaps[v] \in Seq(ChangeSets)

(* A task only has to keep the types of its record and of the disk. *)
LEMMA RewriteFrameType ==
    ASSUME TypeOK, UNCHANGED rwFrame, SnapsType', current' \in Nat, rw' \in RewriteRecords
    PROVE  TypeOK'
BY DEF TypeOK, RewriteRecords, SnapsType, rwFrame, chainVars, walVars, treeVars, writerVars

LEMMA PruneFrameType ==
    ASSUME TypeOK, UNCHANGED pruneFrame, SnapsType', walFirst' \in Nat, prune' \in PruneRecords
    PROVE  TypeOK'
BY DEF TypeOK, PruneRecords, SnapsType, pruneFrame, chainVars, treeVars, writerVars

LEMMA NoTaskType ==
    /\ \A p \in {"none", "error", "closed"} :
         [NoRewrite EXCEPT !.pc = p] = [pc |-> p, base |-> <<>>, mtree |-> <<>>]
    /\ <<>> \in Seq(ChangeSets) /\ <<>> \in Seq(WalEntries)
    /\ NoRewrite \in RewriteRecords /\ NoPrune \in PruneRecords
BY EmptySeq DEF NoRewrite, NoPrune, RewriteRecords, PruneRecords

LEMMA DownType == ASSUME TypeOK, Down PROVE TypeOK'
<1>1. rw' \in RewriteRecords /\ prune' \in PruneRecords
  BY NoTaskType DEF Down
<1>. QED  BY <1>1, NoTaskType, DBAssumption, Zenon
          DEF TypeOK, RewriteRecords, PruneRecords, Down, dirVars, walVars

(* The caller's steps keep the types. *)
LEMMA CallerType ==
    ASSUME IndInv, Caller
    PROVE  TypeOK'
<1>. USE DEF IndInv
<1>1. CASE WriteWALSync
  <2>1. <<Entry>> \in Seq(WalEntries)
    BY <1>1, EntryType DEF TypeOK, MainInv, WriteWALSync
  <2>2. walLog' \in Seq(ChangeSets)
    BY <1>1, <2>1, WriteType, Zenon DEF TypeOK, WriteWALSync
  <2>3. main' \in {"check", "failed"} /\ walErr' \in BOOLEAN
    BY <1>1, Zenon DEF TypeOK, WriteWALSync
  <2>4. UNCHANGED <<chainVars, dirVars, walFirst, arg, treeVars, walChan, writer, batch, rw, prune>>
    BY <1>1 DEF WriteWALSync
  <2>. QED  BY <2>2, <2>3, <2>4 DEF TypeOK, chainVars, dirVars, treeVars
<1>2. CASE SendWAL
  <2>1. Entry \in WalEntries
    BY <1>2, EntryType DEF TypeOK, MainInv, SendWAL
  <2>2. walChan' \in Seq(WalEntries)
    BY <1>2, <2>1 DEF TypeOK, SendWAL
  <2>. QED  BY <1>2, <2>2 DEF TypeOK, SendWAL, chainVars, dirVars, walVars, treeVars
<1>3. CASE SendWALQuit
  BY <1>3 DEF TypeOK, SendWALQuit, chainVars, dirVars, walVars, treeVars, writerVars
<1>4. CASE CheckPending
  BY <1>4 DEF TypeOK, CheckPending, AfterCheck, chainVars, dirVars, walVars, treeVars, writerVars
<1>5. CASE CheckNoTree
  BY <1>5 DEF TypeOK, CheckNoTree, AfterCheck, NoRewrite, chainVars, dirVars, walVars, treeVars, writerVars
<1>6. CASE CheckResult
  BY <1>6 DEF TypeOK, CheckResult, chainVars, dirVars, walVars, treeVars, writerVars
<1>7. CASE WaitCommitted
  BY <1>7 DEF TypeOK, WaitCommitted, chainVars, dirVars, walVars, treeVars, writerVars
<1>8. CASE WaitFailed
  BY <1>8 DEF TypeOK, WaitFailed, NoRewrite, chainVars, dirVars, walVars, treeVars, writerVars
<1>9. CASE SwitchTree
  <2>1. tree' \in Seq(ChangeSets)
    BY <1>9, CatchupGrows DEF TypeOK, SwitchTree
  <2>2. snapVer' \in Nat
    BY <1>9, VersionType DEF TypeOK, SwitchTree
  <2>. QED  BY <1>9, <2>1, <2>2 DEF TypeOK, SwitchTree, NoRewrite, chainVars, dirVars, walVars, writerVars
<1>10. CASE SwitchFailed
  BY <1>10 DEF TypeOK, SwitchFailed, NoRewrite, chainVars, dirVars, walVars, treeVars, writerVars
<1>11. CASE pruneSnapshots
  BY <1>11, Zenon DEF TypeOK, pruneSnapshots, NoPrune, chainVars, dirVars, walVars, treeVars, writerVars
<1>12. CASE rewriteIfApplicable
  <2>1. durable' \in Nat /\ height' \in Nat
    <3>1. height + 1 \in Nat /\ durable \in Nat
      BY DEF TypeOK
    <3>2. Max({durable, height + 1}) \in Nat
      BY <3>1, MaxOfPair
    <3>. QED  BY <1>12, <3>1, <3>2 DEF rewriteIfApplicable
  <2>2. rw' \in RewriteRecords
    BY <1>12, NoTaskType DEF TypeOK, RewriteRecords, rewriteIfApplicable
  <2>. QED  BY <1>12, <2>1, <2>2
            DEF TypeOK, RewriteRecords, rewriteIfApplicable, dirVars, walVars, treeVars, writerVars
<1>13. CASE Flushed
  <2>1. durable' \in Nat
    BY <1>13, MaxOfPair, SMTT(30) DEF TypeOK, Flushed
  <2>. QED  BY <1>13, <2>1 DEF TypeOK, Flushed, dirVars, walVars, treeVars
<1>14. CASE CloseRewrite
  BY <1>14 DEF TypeOK, CloseRewrite, NoRewrite, chainVars, dirVars, walVars, treeVars, writerVars
<1>15. CASE CloseDone
  BY <1>15, DownType DEF CloseDone
<1>16. CASE RollbackLink
  <2>1. durable' \in Nat
    BY <1>16, MaxOfPair, LenProperties, Zenon DEF TypeOK, RollbackLink
  <2>. QED  BY <1>16, <2>1 DEF TypeOK, RollbackLink, rollbackFrame, treeVars, writerVars
<1>17. CASE RollbackDelete
  BY <1>17 DEF TypeOK, RollbackDelete, WithoutSnapshot, Restrict, rollbackFrame,
               chainVars, treeVars, writerVars
<1>18. CASE RollbackCut
  <2>1. InLog(walIndex(arg)) /\ walIndex(arg) \in Nat
    BY <1>18, WalIndexType DEF TypeOK, MainInv, Rollback, RollbackCut
  <2>2. walLog' \in Seq(ChangeSets)
    BY <1>18, <2>1, SubSeqType DEF TypeOK, RollbackCut, InLog, LastIndex
  <2>3. chain' \in Seq(ChangeSets)
    <3>. DEFINE m == Min({Len(chain), Len(tree)})
    <3>1. m \in Nat /\ m <= Len(chain)
      BY MaxOfPair, LenProperties, Zenon DEF TypeOK
    <3>2. chain' = SubSeq(chain, 1, m)
      BY <1>18 DEF RollbackCut
    <3>. HIDE DEF m
    <3>3. SubSeq(chain, 1, m) \in Seq(ChangeSets)
      BY <3>1, SubSeqType DEF TypeOK
    <3>. QED  BY <3>2, <3>3
  <2>4. height' \in Nat
    BY <1>18, LenProperties DEF TypeOK, RollbackCut
  <2>. QED  BY <1>18, <2>2, <2>3, <2>4, ZenonT(60)
            DEF TypeOK, RollbackCut, rollbackFrame, dirVars, treeVars, writerVars
<1>. QED
  BY <1>1, <1>2, <1>3, <1>4, <1>5, <1>6, <1>7, <1>8, <1>9, <1>10, <1>11, <1>12,
     <1>13, <1>14, <1>15, <1>16, <1>17, <1>18, Zenon DEF Caller

(* The background goroutines keep the types. *)
LEMMA BackgroundType ==
    ASSUME IndInv, Writer \/ Rewrite \/ Prune
    PROVE  TypeOK'
<1>. USE DEF IndInv
<1>1. CASE WriterRecv
  <2>1. batch' \in Seq(WalEntries) /\ walChan' \in Seq(WalEntries)
    BY <1>1, HeadTailProperties DEF TypeOK, WriterRecv
  <2>. QED  BY <1>1, <2>1 DEF TypeOK, WriterRecv, chainVars, dirVars, walVars, treeVars
<1>2. CASE WriterDrain
  <2>1. batch' \in Seq(WalEntries) /\ walChan' \in Seq(WalEntries)
    BY <1>2, ConcatProperties, EmptySeq DEF TypeOK, WriterDrain
  <2>. QED  BY <1>2, <2>1 DEF TypeOK, WriterDrain, chainVars, dirVars, walVars, treeVars
<1>3. CASE WriterWrite
  <2>1. walLog' \in Seq(ChangeSets)
    BY <1>3, WriteType DEF TypeOK, WriterWrite
  <2>. QED  BY <1>3, <2>1 DEF TypeOK, WriterWrite, chainVars, dirVars, treeVars
<1>4. CASE WriterFail
  <2>1. walLog' \in Seq(ChangeSets)
    BY <1>4, WriteType DEF TypeOK, WriterFail
  <2>. QED  BY <1>4, <2>1 DEF TypeOK, WriterFail, chainVars, dirVars, treeVars
<1>5. CASE WriterLatch
  BY <1>5 DEF TypeOK, WriterLatch, chainVars, dirVars, walVars, treeVars, writerVars
<1>6. CASE WriterClosed
  BY <1>6 DEF TypeOK, WriterClosed, chainVars, dirVars, walVars, treeVars, writerVars
<1>7. CASE WriterExit
  BY <1>7 DEF TypeOK, WriterExit, chainVars, dirVars, walVars, treeVars, writerVars
<1>. rw \in RewriteRecords /\ prune \in PruneRecords /\ SnapsType /\ current \in Nat /\ walFirst \in Nat
  BY DEF TypeOK, RewriteRecords, PruneRecords, SnapsType
<1>8. CASE RewriteWrite \/ RewriteFail \/ RewriteLoadFail
  <2>1. rw' \in RewriteRecords
    BY <1>8, NoTaskType, Zenon DEF RewriteRecords, RewriteWrite, RewriteFail, RewriteLoadFail
  <2>2. UNCHANGED <<dirVars, rwFrame>>
    BY <1>8 DEF RewriteWrite, RewriteFail, RewriteLoadFail
  <2>. QED  BY <2>1, <2>2, RewriteFrameType DEF SnapsType, dirVars
<1>9. CASE RewriteRename
  <2>1. Version(rw.base) \in Nat /\ rw.base \in Seq(ChangeSets)
    BY VersionType DEF RewriteRecords
  <2>2. SnapsType'
    BY <1>9, <2>1 DEF SnapsType, RewriteRename
  <2>3. rw' \in RewriteRecords
    BY <1>9 DEF RewriteRecords, RewriteRename
  <2>. QED  BY <1>9, <2>2, <2>3, RewriteFrameType DEF RewriteRename
<1>10. CASE RewriteLink
  <2>1. current' \in Nat
    BY <1>10, VersionType DEF RewriteRecords, RewriteLink
  <2>2. rw' \in RewriteRecords
    BY <1>10 DEF RewriteRecords, RewriteLink
  <2>. QED  BY <1>10, <2>1, <2>2, RewriteFrameType DEF SnapsType, RewriteLink
<1>11. CASE RewriteLoad
  <2>1. rw' \in RewriteRecords
    BY <1>11 DEF RewriteRecords, SnapsType, RewriteLoad
  <2>. QED  BY <1>11, <2>1, RewriteFrameType DEF SnapsType, RewriteLoad, dirVars
<1>12. CASE RewriteCatchup
  <2>1. catchupWAL(rw.mtree, 0) \in Seq(ChangeSets)
    BY CatchupGrows DEF TypeOK
  <2>2. rw' \in RewriteRecords
    BY <1>12, <2>1, Zenon DEF RewriteRecords, RewriteCatchup
  <2>. QED  BY <1>12, <2>2, RewriteFrameType DEF SnapsType, RewriteCatchup, dirVars
<1>13. CASE PruneRead
  <2>1. prune' \in PruneRecords
    BY <1>13, Zenon DEF PruneRecords, PruneRead
  <2>. QED  BY <1>13, <2>1, PruneFrameType DEF SnapsType, PruneRead
<1>14. CASE PruneList
  <2>1. Prunable(prune.cur) \in SUBSET Nat
    BY DEF Prunable, SnapsType
  <2>2. prune' \in PruneRecords
    BY <1>14, <2>1, Zenon DEF PruneRecords, PruneList
  <2>. QED  BY <1>14, <2>2, PruneFrameType DEF SnapsType, PruneList
<1>15. CASE PruneRemove
  <2>1. SnapsType'
    BY <1>15 DEF SnapsType, PruneRemove, WithoutSnapshot, Restrict
  <2>2. prune' \in PruneRecords
    BY <1>15 DEF PruneRecords, PruneRemove
  <2>. QED  BY <1>15, <2>1, <2>2, PruneFrameType DEF PruneRemove
<1>16. CASE PruneScan
  <2>1. Min(DOMAIN snaps) \in Nat
    BY <1>16, MinOfNats DEF SnapsType, PruneScan
  <2>2. prune' \in PruneRecords
    BY <1>16, <2>1, Zenon DEF PruneRecords, PruneScan
  <2>. QED  BY <1>16, <2>2, PruneFrameType DEF SnapsType, PruneScan
<1>17. CASE PruneCut \/ PruneAbort
  <2>1. walFirst' \in Nat
    BY <1>17, WalIndexType DEF PruneRecords, PruneCut, PruneAbort
  <2>2. prune' = NoPrune /\ UNCHANGED <<snaps, pruneFrame>>
    BY <1>17 DEF PruneCut, PruneAbort
  <2>. QED  BY <2>1, <2>2, NoTaskType, PruneFrameType DEF SnapsType
<1>. QED
  BY <1>1, <1>2, <1>3, <1>4, <1>5, <1>6, <1>7, <1>8, <1>9, <1>10, <1>11, <1>12, <1>13,
     <1>14, <1>15, <1>16, <1>17, Zenon DEF Writer, Rewrite, Prune

(* Every step keeps the types. *)
LEMMA StepType == ASSUME IndInv, Next PROVE TypeOK'
<1>. USE DEF IndInv
<1>1. ASSUME NEW cs \in ChangeSets, Commit(cs) PROVE TypeOK'
  <2>1. tree' \in Seq(ChangeSets) /\ chain' \in Seq(ChangeSets)
    <3>1. Append(tree, cs) \in Seq(ChangeSets) /\ Append(chain, cs) \in Seq(ChangeSets)
      BY AppendProperties DEF TypeOK
    <3>. QED  BY <1>1, <3>1, Zenon DEF TypeOK, Commit
  <2>2. arg' \in Nat
    BY <1>1, <2>1, VersionType, Zenon DEF Commit
  <2>. QED  BY <1>1, <2>1, <2>2 DEF TypeOK, Commit, dirVars, walVars
<1>2. CASE CommitRefused
  BY <1>2 DEF TypeOK, CommitRefused, chainVars, dirVars, walVars, treeVars, writerVars
<1>3. CASE WaitAsyncCommit
  BY <1>3 DEF TypeOK, WaitAsyncCommit, chainVars, dirVars, walVars, treeVars, writerVars
<1>4. CASE Close
  BY <1>4 DEF TypeOK, Close, chainVars, dirVars, walVars, treeVars, writerVars
<1>5. CASE Crash
  BY <1>5, DownType DEF Crash
<1>6. CASE LoadLatest
  <2>1. tree' \in Seq(ChangeSets)
    BY <1>6, CatchupGrows DEF TypeOK, LoadLatest, Opened
  <2>2. height' \in Nat
    BY <1>6, <2>1, LenProperties DEF LoadLatest
  <2>. QED  BY <1>6, <2>1, <2>2 DEF TypeOK, LoadLatest, Opened, dirVars, walVars, writerVars
<1>7. ASSUME NEW v \in Targets, LoadTarget(v) \/ LoadForOverwriting(v) PROVE TypeOK'
  <2>1. v \in Nat /\ SnapshotsUpTo(v) # {}
    BY <1>7, TargetType DEF LoadTarget, LoadForOverwriting, LoadableAt
  <2>2. tree' = LoadAt(v) /\ snapVer' = seekSnapshot(v)
    BY <1>7 DEF LoadTarget, LoadForOverwriting, Opened
  <2>3. tree' \in Seq(ChangeSets) /\ snapVer' \in Nat
    BY <2>1, <2>2, LoadAtType, SeekSnapshot DEF TypeOK
  <2>4. height' \in Nat /\ arg' \in Nat
    BY <1>7, <2>1, <2>3, LenProperties DEF TypeOK, LoadTarget, LoadForOverwriting
  <2>. QED  BY <1>7, <2>3, <2>4, Zenon
            DEF TypeOK, LoadTarget, LoadForOverwriting, Opened, dirVars, walVars, writerVars
<1>. QED
  BY <1>1, <1>2, <1>3, <1>4, <1>5, <1>6, <1>7, CallerType, BackgroundType, Zenon DEF Next

-----------------------------------------------------------------------------
(* Steps that leave the directory, the trees and the background tasks      *)
(* alone: the writer's, and the caller's between them.                     *)
LEMMA WriterStep ==
    ASSUME IndInv, TypeOK',
           UNCHANGED <<snaps, current, walFirst, main, arg, tree, snapVer, rw, prune>>,
           Len(walLog) <= Len(walLog')
    PROVE  IndInv'
<1>1. DirInv'
  BY DEF IndInv, DirInv, Version
<1>2. MainInv'
  <2>1. InLog(walIndex(arg)) => InLog(walIndex(arg))'
    <3>1. walIndex(arg) \in Nat /\ Len(walLog) \in Nat /\ Len(walLog') \in Nat
      BY WalIndexType, LenProperties, Zenon DEF IndInv, TypeOK
    <3>2. walIndex(arg)' = walIndex(arg)
      BY DEF walIndex, uint64
    <3>. QED  BY <3>1, <3>2 DEF InLog, LastIndex
  <2>. QED  BY <2>1, Zenon DEF IndInv, MainInv, Rollback
<1>3. RewriteInv' /\ PruneInv'
  BY DEF IndInv, RewriteInv, PruneInv, Version
<1>. QED  BY <1>1, <1>2, <1>3 DEF IndInv

LEMMA CallerStep ==
    ASSUME IndInv, TypeOK',
           UNCHANGED <<snaps, current, walFirst, tree, prune>>,
           rw' = rw \/ rw'.pc = "none",
           main \notin Rollback \cup {"down"},
           main' \notin Rollback \cup {"down", "prune", "write", "send"},
           main' \in {"wait", "switch"} => rw'.pc = "result"
    PROVE  IndInv'
<1>1. DirInv'
  BY DEF IndInv, DirInv, Version
<1>2. MainInv'
  BY DEF IndInv, MainInv, Rollback
<1>3. RewriteInv' /\ PruneInv'
  BY DEF IndInv, RewriteInv, PruneInv, Version
<1>. QED  BY <1>1, <1>2, <1>3 DEF IndInv

-----------------------------------------------------------------------------
(* The caller's steps. *)

LEMMA SnapOrder ==
    ASSUME IndInv, NEW v \in DOMAIN snaps, NEW w \in DOMAIN snaps
    PROVE  v <= w <=> Len(snaps[v]) <= Len(snaps[w])
<1>1. snaps[v] \in Seq(ChangeSets) /\ snaps[w] \in Seq(ChangeSets)
  BY DEF IndInv, TypeOK
<1>2. Version(snaps[v]) = v /\ Version(snaps[w]) = w
  BY DEF IndInv, DirInv
<1>. QED  BY <1>1, <1>2, VersionOrder

(* What the lengths are: naturals. *)
LEMMA Lengths ==
    ASSUME IndInv
    PROVE  /\ Len(tree) \in Nat /\ Len(rw.base) \in Nat /\ Len(rw.mtree) \in Nat
           /\ Len(walLog) \in Nat /\ walFirst \in Nat
           /\ \A v \in DOMAIN snaps : Len(snaps[v]) \in Nat
           /\ current \in DOMAIN snaps /\ DOMAIN snaps \subseteq Nat
BY LenProperties DEF IndInv, TypeOK, DirInv

(* A commit makes the tree longer. *)
LEMMA CommitInv ==
    ASSUME IndInv, TypeOK', NEW cs \in ChangeSets, Commit(cs)
    PROVE  IndInv'
<1>1. Len(tree') = Len(tree) + 1 /\ tree' # <<>>
  <2>1. tree' = Append(tree, cs) /\ tree \in Seq(ChangeSets)
    BY DEF IndInv, TypeOK, Commit
  <2>2. Len(Append(tree, cs)) = Len(tree) + 1 /\ Append(tree, cs) # <<>>
    BY <2>1, AppendProperties
  <2>. QED  BY <2>1, <2>2
<1>2. /\ UNCHANGED <<snaps, current, walFirst, snapVer, rw, prune>>
      /\ main = "idle" /\ main' \in {"send", "write"}
  BY DEF Commit, dirVars, walVars
<1>3. DirInv'
  BY <1>2 DEF IndInv, DirInv, Version
<1>4. MainInv'
  BY <1>1, <1>2, Lengths DEF IndInv, MainInv, Rollback
<1>5. RewriteInv'
  BY <1>1, <1>2, Lengths DEF IndInv, RewriteInv, Version
<1>6. PruneInv'
  BY <1>1, <1>2, Lengths DEF IndInv, PruneInv
<1>. QED  BY <1>3, <1>4, <1>5, <1>6 DEF IndInv

(* The switch: the new tree is the snapshot `current` names, caught up. *)
LEMMA SwitchTreeInv ==
    ASSUME IndInv, TypeOK', SwitchTree
    PROVE  IndInv'
<1>1. Len(snaps[current]) <= Len(tree') /\ Len(tree') \in Nat
  <2>1. rw.base = snaps[current] /\ Len(rw.base) <= Len(rw.mtree)
    BY DEF IndInv, MainInv, RewriteInv, SwitchTree
  <2>2. Len(rw.mtree) <= Len(tree')
    BY CatchupGrows DEF IndInv, TypeOK, SwitchTree
  <2>3. Len(tree') \in Nat
    BY LenProperties DEF TypeOK
  <2>. QED  BY <2>1, <2>2, <2>3, Lengths
<1>2. walFirst <= Len(snaps[current]) + 1
  BY DEF IndInv, DirInv
<1>3. /\ UNCHANGED <<snaps, current, walFirst, prune>>
      /\ rw'.pc = "none" /\ main = "switch" /\ main' = "prune"
  BY DEF SwitchTree, NoRewrite, dirVars, walVars
<1>4. DirInv'
  BY <1>3 DEF IndInv, DirInv, Version
<1>5. MainInv'
  BY <1>1, <1>2, <1>3, Lengths DEF MainInv, Rollback
<1>6. RewriteInv'
  BY <1>3 DEF RewriteInv
<1>7. PruneInv'
  BY <1>1, <1>3 DEF IndInv, PruneInv
<1>. QED  BY <1>4, <1>5, <1>6, <1>7 DEF IndInv

(* A prune starts beside a tree built on `current`, with no rewrite running. *)
LEMMA pruneSnapshotsInv ==
    ASSUME IndInv, TypeOK', pruneSnapshots
    PROVE  IndInv'
<1>1. /\ UNCHANGED <<snaps, current, walFirst, tree, rw>>
      /\ main = "prune" /\ main' = "rewrite"
      /\ prune'.pc = "read" /\ prune'.todo = {}
  BY DEF pruneSnapshots, NoPrune, dirVars, walVars, treeVars
<1>2. DirInv'
  BY <1>1 DEF IndInv, DirInv, Version
<1>3. MainInv'
  BY <1>1 DEF IndInv, MainInv, Rollback
<1>4. RewriteInv'
  BY <1>1 DEF IndInv, RewriteInv, Version
<1>5. PruneInv'
  BY <1>1 DEF IndInv, MainInv, PruneInv
<1>. QED  BY <1>2, <1>3, <1>4, <1>5 DEF IndInv

(* A rewrite starts from the tree as it is. *)
LEMMA rewriteIfApplicableInv ==
    ASSUME IndInv, TypeOK', rewriteIfApplicable
    PROVE  IndInv'
<1>1. /\ UNCHANGED <<snaps, current, walFirst, tree, prune>>
      /\ main = "rewrite" /\ main' = "idle"
      /\ rw' = rw \/ (rw'.pc = "write" /\ rw'.base = tree)
  BY DEF rewriteIfApplicable, dirVars, walVars, treeVars
<1>2. DirInv'
  BY <1>1 DEF IndInv, DirInv, Version
<1>3. MainInv'
  BY <1>1 DEF IndInv, MainInv, Rollback
<1>4. RewriteInv'
  <2>1. CASE rw' = rw
    BY <1>1, <2>1 DEF IndInv, RewriteInv, Version
  <2>2. CASE rw'.pc = "write" /\ rw'.base = tree
    <3>1. walFirst <= Len(tree) + 1
      BY <1>1 DEF IndInv, MainInv
    <3>. QED  BY <1>1, <2>2, <3>1, Lengths DEF RewriteInv
  <2>. QED  BY <1>1, <2>1, <2>2
<1>5. PruneInv'
  BY <1>1 DEF IndInv, PruneInv
<1>. QED  BY <1>2, <1>3, <1>4, <1>5 DEF IndInv

(* When the process is gone only the directory is left. *)
LEMMA DownInv ==
    ASSUME IndInv, TypeOK', Down
    PROVE  IndInv'
<1>1. /\ UNCHANGED <<snaps, current, walFirst>> /\ main' = "down"
      /\ rw'.pc = "none" /\ prune'.pc = "none" /\ prune'.todo = {}
  BY DEF Down, NoRewrite, NoPrune, dirVars, walVars
<1>2. DirInv'
  BY <1>1 DEF IndInv, DirInv, Version
<1>3. MainInv' /\ RewriteInv' /\ PruneInv'
  BY <1>1 DEF MainInv, RewriteInv, PruneInv, Rollback
<1>. QED  BY <1>2, <1>3 DEF IndInv

(* A Load builds on a snapshot, so the WAL reaches back to the new tree. *)
LEMMA OpenedInv ==
    ASSUME IndInv, TypeOK', main = "down", NEW s \in DOMAIN snaps,
           Len(snaps[s]) <= Len(tree'), main' = "idle",
           UNCHANGED <<snaps, current, walFirst, rw, prune>>
    PROVE  IndInv'
<1>1. walFirst <= Len(tree') + 1
  <2>1. walFirst <= Len(snaps[s]) + 1
    BY DEF IndInv, DirInv
  <2>2. Len(tree') \in Nat
    BY LenProperties DEF TypeOK
  <2>. QED  BY <2>1, <2>2, Lengths
<1>2. rw.pc = "none" /\ prune.pc = "none"
  BY DEF IndInv, MainInv
<1>3. DirInv'
  BY DEF IndInv, DirInv, Version
<1>4. MainInv'
  BY <1>1 DEF MainInv, Rollback
<1>5. RewriteInv' /\ PruneInv'
  BY <1>2 DEF IndInv, RewriteInv, PruneInv
<1>. QED  BY <1>3, <1>4, <1>5 DEF IndInv

LEMMA LoadInv ==
    ASSUME IndInv, TypeOK', LoadLatest \/ \E v \in Targets : LoadTarget(v)
    PROVE  IndInv'
<1>1. CASE LoadLatest
  <2>1. Len(snaps[current]) <= Len(tree')
    BY <1>1, CatchupGrows DEF IndInv, TypeOK, LoadLatest, Opened
  <2>. QED  BY <1>1, <2>1, Lengths, OpenedInv DEF LoadLatest, Opened, dirVars, walVars
<1>2. ASSUME NEW v \in Targets, LoadTarget(v) PROVE IndInv'
  <2>1. v \in Nat /\ SnapshotsUpTo(v) # {}
    BY <1>2, TargetType, Zenon DEF LoadTarget, LoadableAt
  <2>2. seekSnapshot(v) \in DOMAIN snaps /\ Len(snaps[seekSnapshot(v)]) <= Len(LoadAt(v))
    BY <2>1, SeekSnapshot, LoadAtType, Zenon DEF IndInv, TypeOK
  <2>3. /\ main = "down" /\ tree' = LoadAt(v) /\ main' = "idle"
        /\ UNCHANGED <<snaps, current, walFirst, rw, prune>>
    BY <1>2 DEF LoadTarget, Opened, dirVars, walVars
  <2>. QED  BY <2>2, <2>3, OpenedInv
<1>. QED  BY <1>1, <1>2

(* LoadForOverwriting: the snapshot it starts from is not above the target. *)
LEMMA LoadForOverwritingInv ==
    ASSUME IndInv, TypeOK', NEW v \in Targets, LoadForOverwriting(v)
    PROVE  IndInv'
<1>1. v \in Nat /\ SnapshotsUpTo(v) # {}
  BY TargetType, Zenon DEF LoadForOverwriting, LoadableAt
<1>2. /\ seekSnapshot(v) \in DOMAIN snaps /\ seekSnapshot(v) <= v
      /\ Len(snaps[seekSnapshot(v)]) <= Len(LoadAt(v))
  BY <1>1, SeekSnapshot, LoadAtType, Zenon DEF IndInv, TypeOK
<1>3. /\ main = "down" /\ main' = "rollbackLink" /\ arg' = v
      /\ tree' = LoadAt(v) /\ snapVer' = seekSnapshot(v)
      /\ UNCHANGED <<snaps, current, walFirst, walLog, rw, prune>>
      /\ InLog(walIndex(v))
  BY DEF LoadForOverwriting, Opened, dirVars, walVars
<1>4. rw.pc = "none" /\ prune.pc = "none"
  BY <1>3 DEF IndInv, MainInv
<1>5. DirInv'
  BY <1>3 DEF IndInv, DirInv, Version
<1>6. walFirst <= Len(tree') + 1
  <2>1. walFirst <= Len(snaps[seekSnapshot(v)]) + 1
    BY <1>2 DEF IndInv, DirInv
  <2>2. Len(tree') \in Nat
    BY LenProperties DEF TypeOK
  <2>. QED  BY <2>1, <2>2, <1>2, <1>3, Lengths
<1>7. InLog(walIndex(arg))'
  BY <1>3 DEF InLog, LastIndex, walIndex, uint64
<1>8. MainInv'
  BY <1>2, <1>3, <1>4, <1>6, <1>7 DEF MainInv, Rollback
<1>9. RewriteInv' /\ PruneInv'
  BY <1>3, <1>4 DEF IndInv, RewriteInv, PruneInv
<1>. QED  BY <1>5, <1>8, <1>9 DEF IndInv

(* The rollback links a snapshot at or below its target, and deletes only  *)
(* snapshots above it.                                                     *)
LEMMA RollbackInv ==
    ASSUME IndInv, TypeOK', RollbackLink \/ RollbackDelete \/ RollbackCut
    PROVE  IndInv'
<1>1. /\ main \in Rollback /\ rw.pc = "none" /\ prune.pc = "none"
      /\ UNCHANGED <<walFirst, arg, tree, snapVer, rw, prune>>
      /\ snapVer \in DOMAIN snaps /\ snapVer <= arg /\ InLog(walIndex(arg))
      /\ walFirst <= Len(tree) + 1
  BY DEF IndInv, MainInv, Rollback, RollbackLink, RollbackDelete, RollbackCut,
         rollbackFrame, treeVars
<1>2. RewriteInv' /\ PruneInv'
  BY <1>1 DEF IndInv, RewriteInv, PruneInv
<1>3. CASE RollbackLink
  <2>1. UNCHANGED <<snaps, walLog>> /\ current' = snapVer /\ main' = "rollbackDelete"
    BY <1>3, Zenon DEF RollbackLink
  <2>2. DirInv'
    BY <1>1, <2>1 DEF IndInv, DirInv, Version
  <2>3. InLog(walIndex(arg))'
    BY <1>1, <2>1 DEF InLog, LastIndex, walIndex, uint64
  <2>4. MainInv'
    BY <1>1, <2>1, <2>3 DEF MainInv, Rollback
  <2>. QED  BY <1>2, <2>2, <2>4 DEF IndInv
<1>4. CASE RollbackDelete
  <2>. DEFINE m == Max(NewerSnapshots)
  <2>1. m \in DOMAIN snaps /\ m > arg
    <3>1. PICK n \in Nat : \A v \in DOMAIN snaps : v <= n
      BY DEF IndInv, DirInv
    <3>2. NewerSnapshots \in SUBSET Nat /\ NewerSnapshots # {} /\ \A x \in NewerSnapshots : x <= n
      BY <1>4, <3>1, Lengths DEF NewerSnapshots, RollbackDelete
    <3>3. m \in NewerSnapshots
      BY <3>2, MaxOfNats
    <3>. QED  BY <3>3 DEF NewerSnapshots
  <2>2. /\ snaps' = [v \in DOMAIN snaps \ {m} |-> snaps[v]]
        /\ UNCHANGED <<current, walLog, main>> /\ main = "rollbackDelete"
    BY <1>4 DEF RollbackDelete, WithoutSnapshot, Restrict
  <2>. HIDE DEF m
  <2>3. current = snapVer /\ snapVer # m
    <3>1. current = snapVer
      BY <2>2 DEF IndInv, MainInv
    <3>2. arg \in Nat /\ snapVer \in Nat /\ m \in Nat
      BY <2>1, Lengths, SMTT(30) DEF IndInv, TypeOK
    <3>. QED  BY <1>1, <2>1, <3>1, <3>2
  <2>4. DirInv'
    BY <1>1, <2>2, <2>3 DEF IndInv, DirInv, Version
  <2>5. InLog(walIndex(arg))'
    BY <1>1, <2>2 DEF InLog, LastIndex, walIndex, uint64
  <2>6. MainInv'
    BY <1>1, <2>2, <2>3, <2>5 DEF MainInv, Rollback
  <2>. QED  BY <1>2, <2>4, <2>6 DEF IndInv
<1>5. CASE RollbackCut
  <2>1. UNCHANGED <<snaps, current>> /\ main' = "idle"
    BY <1>5 DEF RollbackCut, dirVars
  <2>2. DirInv'
    BY <1>1, <2>1 DEF IndInv, DirInv, Version
  <2>3. MainInv'
    BY <1>1, <2>1 DEF MainInv, Rollback
  <2>. QED  BY <1>2, <2>2, <2>3 DEF IndInv
<1>. QED  BY <1>3, <1>4, <1>5

-----------------------------------------------------------------------------
(* The rewrite.  While one runs the caller is not loading or rolling back. *)

(* Steps of the rewrite that leave the directory alone. *)
LEMMA RewriteQuietInv ==
    ASSUME IndInv, TypeOK', RewriteWrite \/ RewriteFail \/ RewriteLoad
                            \/ RewriteCatchup \/ RewriteLoadFail
    PROVE  IndInv'
<1>1. /\ UNCHANGED <<snaps, current, walFirst, walLog, main, arg, tree, snapVer, prune>>
      /\ rw.pc \in {"write", "rename", "link", "load", "catchup"}
  BY DEF RewriteWrite, RewriteFail, RewriteLoad, RewriteCatchup, RewriteLoadFail,
         rwFrame, dirVars, walVars, treeVars
<1>2. \/ rw.pc = "write" /\ rw'.pc = "rename" /\ rw'.base = rw.base
      \/ rw'.pc \in {"closed", "error"}
      \/ /\ rw'.pc \in {"catchup", "result"} /\ rw'.base = snaps[current]
         /\ Len(rw'.base) <= Len(rw'.mtree)
  <2>1. CASE RewriteWrite
    BY <2>1 DEF RewriteWrite, IndInv, TypeOK
  <2>2. CASE RewriteFail \/ RewriteLoadFail
    BY <2>2 DEF RewriteFail, RewriteLoadFail, NoRewrite
  <2>3. CASE RewriteLoad
    BY <2>3, Lengths DEF RewriteLoad
  <2>4. CASE RewriteCatchup
    <3>1. rw.base = snaps[current] /\ Len(rw.base) <= Len(rw.mtree)
      BY <2>4 DEF IndInv, RewriteInv, RewriteCatchup
    <3>2. rw'.pc = "result" /\ rw'.base = rw.base /\ rw'.mtree = catchupWAL(rw.mtree, 0)
      BY <2>4 DEF RewriteCatchup, IndInv, TypeOK
    <3>3. Len(rw.mtree) <= Len(rw'.mtree)
      BY <3>2, CatchupGrows DEF IndInv, TypeOK
    <3>4. Len(rw'.mtree) \in Nat
      BY LenProperties DEF TypeOK
    <3>. QED  BY <3>1, <3>2, <3>3, <3>4, Lengths
  <2>. QED  BY <2>1, <2>2, <2>3, <2>4
<1>3. main \notin Rollback \cup {"down", "wait", "switch", "prune"}
  BY <1>1 DEF IndInv, MainInv
<1>4. DirInv'
  BY <1>1 DEF IndInv, DirInv, Version
<1>5. MainInv'
  BY <1>1, <1>3 DEF IndInv, MainInv, Rollback
<1>6. RewriteInv'
  BY <1>1, <1>2 DEF IndInv, RewriteInv, Version
<1>7. PruneInv'
  BY <1>1, <1>2 DEF IndInv, PruneInv
<1>. QED  BY <1>4, <1>5, <1>6, <1>7 DEF IndInv

(* The rename adds a snapshot the WAL reaches back to, and not below one a *)
(* prune that is about to cut the WAL has seen.                            *)
LEMMA RewriteRenameInv ==
    ASSUME IndInv, TypeOK', RewriteRename
    PROVE  IndInv'
<1>. DEFINE n == Version(rw.base)
<1>1. /\ UNCHANGED <<current, walFirst, walLog, main, arg, tree, snapVer, prune>>
      /\ rw.pc = "rename" /\ rw'.pc = "link" /\ rw'.base = rw.base
      /\ n \notin DOMAIN snaps
      /\ DOMAIN snaps' = DOMAIN snaps \cup {n} /\ snaps'[n] = rw.base
      /\ \A v \in DOMAIN snaps : snaps'[v] = snaps[v]
  BY DEF RewriteRename, rwFrame, walVars, treeVars, IndInv, TypeOK
<1>2. n \in Nat /\ rw.base \in Seq(ChangeSets)
  BY VersionType DEF IndInv, TypeOK
<1>3. main \notin Rollback \cup {"down", "wait", "switch", "prune"}
  BY <1>1 DEF IndInv, MainInv
<1>4. current \in DOMAIN snaps /\ snaps'[current] = snaps[current]
  BY <1>1, Lengths
<1>5. Len(rw.base) <= Len(tree) /\ walFirst <= Len(rw.base) + 1
  BY <1>1 DEF IndInv, RewriteInv
<1>6. DirInv'
  <2>1. PICK m \in Nat : \A v \in DOMAIN snaps : v <= m
    BY DEF IndInv, DirInv
  <2>2. n + m \in Nat /\ \A v \in DOMAIN snaps' : v <= n + m
    <3>. HIDE DEF n
    <3>. QED  BY <1>1, <1>2, <2>1, Lengths
  <2>3. \A v \in DOMAIN snaps' : Version(snaps'[v]) = v /\ walFirst' <= Len(snaps'[v]) + 1
    <3>1. \A v \in DOMAIN snaps : Version(snaps[v]) = v /\ walFirst <= Len(snaps[v]) + 1
      BY DEF IndInv, DirInv
    <3>. QED  BY <1>1, <1>5, <3>1
  <2>. QED  BY <1>1, <1>4, <2>2, <2>3 DEF DirInv, Version
<1>7. MainInv'
  BY <1>1, <1>3, Zenon DEF IndInv, MainInv, Rollback
<1>8. RewriteInv'
  BY <1>1, <1>5 DEF RewriteInv, Version
<1>9. PruneInv'
  <2>1. ASSUME prune.pc = "cut" PROVE prune.earliest <= n
    <3>1. Len(snaps[current]) <= Len(rw.base) /\ prune.earliest <= current
      BY <1>1, <1>4, <2>1 DEF IndInv, PruneInv
    <3>2. Version(snaps[current]) = current /\ snaps[current] \in Seq(ChangeSets)
      BY <1>4 DEF IndInv, DirInv, TypeOK
    <3>3. current <= n
      BY <1>2, <3>1, <3>2, VersionOrder
    <3>4. prune.earliest \in Nat /\ current \in Nat
      BY DEF IndInv, TypeOK
    <3>. QED  BY <1>2, <3>1, <3>3, <3>4
  <2>. HIDE DEF n
  <2>. QED  BY <1>1, <1>4, <2>1 DEF IndInv, PruneInv
<1>. QED  BY <1>6, <1>7, <1>8, <1>9 DEF IndInv

(* The link moves to a snapshot that exists, and never back while a prune  *)
(* holds the version it used to name.                                      *)
LEMMA RewriteLinkInv ==
    ASSUME IndInv, TypeOK', RewriteLink
    PROVE  IndInv'
<1>. DEFINE n == Version(rw.base)
<1>1. /\ UNCHANGED <<snaps, walFirst, walLog, main, arg, tree, snapVer, prune>>
      /\ rw.pc = "link" /\ rw'.pc = "load" /\ current' = n
  BY DEF RewriteLink, rwFrame, walVars, treeVars, IndInv, TypeOK
<1>2. n \in DOMAIN snaps /\ snaps[n] = rw.base /\ Len(rw.base) <= Len(tree)
  BY <1>1 DEF IndInv, RewriteInv
<1>. HIDE DEF n
<1>3. main \notin Rollback \cup {"down", "wait", "switch", "prune"}
  BY <1>1 DEF IndInv, MainInv
<1>4. DirInv'
  BY <1>1, <1>2 DEF IndInv, DirInv, Version
<1>5. MainInv'
  BY <1>1, <1>3 DEF IndInv, MainInv, Rollback
<1>6. RewriteInv'
  BY <1>1, Zenon DEF RewriteInv
<1>7. prune.pc # "none" => current <= n
  BY <1>1, <1>2, Lengths, SnapOrder DEF IndInv, PruneInv
<1>8. PruneInv'
  <2>1. prune.cur \in Nat /\ current \in Nat /\ n \in Nat
    BY <1>2, Lengths DEF IndInv, TypeOK
  <2>. QED  BY <1>1, <1>2, <1>7, <2>1, SMTT(60) DEF IndInv, PruneInv
<1>. QED  BY <1>4, <1>5, <1>6, <1>8 DEF IndInv

-----------------------------------------------------------------------------
(* The prune.  While one runs the caller is not loading or rolling back. *)

(* Steps of the prune that leave the directory and the WAL alone. *)
LEMMA PruneQuietInv ==
    ASSUME IndInv, TypeOK', PruneRead \/ PruneList \/ PruneScan \/ PruneAbort
    PROVE  IndInv'
<1>1. /\ UNCHANGED <<snaps, current, walFirst, walLog, main, arg, tree, snapVer, rw>>
      /\ prune.pc # "none"
  BY DEF PruneRead, PruneList, PruneScan, PruneAbort, pruneFrame, treeVars
<1>2. main \notin Rollback \cup {"down"}
  BY <1>1 DEF IndInv, MainInv
<1>3. DirInv'
  BY <1>1 DEF IndInv, DirInv, Version
<1>4. MainInv'
  BY <1>1, <1>2, Zenon DEF IndInv, MainInv, Rollback
<1>5. RewriteInv'
  BY <1>1 DEF IndInv, RewriteInv, Version
<1>6. PruneInv'
  <2>1. CASE PruneRead
    <3>1. prune'.pc = "list" /\ prune'.cur = current /\ prune'.todo = prune.todo
      BY <2>1 DEF PruneRead, IndInv, TypeOK
    <3>2. prune.todo = {}
      BY <2>1 DEF PruneRead, IndInv, PruneInv
    <3>3. prune'.cur <= current' /\ \A v \in prune'.todo : v < prune'.cur
      BY <1>1, <3>1, <3>2, Lengths
    <3>. QED  BY <1>1, <3>1, <3>3 DEF IndInv, PruneInv
  <2>2. CASE PruneList
    <3>1. /\ prune.pc = "list" /\ prune'.pc = "remove" /\ prune'.cur = prune.cur
          /\ prune'.todo = Prunable(prune.cur)
      BY <2>2 DEF PruneList, IndInv, TypeOK
    <3>2. \A v \in Prunable(prune.cur) : v < prune.cur
      BY Zenon DEF Prunable
    <3>. QED  BY <1>1, <3>1, <3>2 DEF IndInv, PruneInv
  <2>3. CASE PruneScan
    <3>1. /\ prune.pc = "remove" /\ prune'.pc = "cut" /\ prune'.cur = prune.cur
          /\ prune'.todo = prune.todo /\ prune'.earliest = Min(DOMAIN snaps)
      BY <2>3 DEF PruneScan, IndInv, TypeOK
    <3>2. Min(DOMAIN snaps) \in DOMAIN snaps /\ \A v \in DOMAIN snaps : Min(DOMAIN snaps) <= v
      BY MinOfNats, Lengths
    <3>. QED  BY <1>1, <3>1, <3>2 DEF IndInv, PruneInv
  <2>4. CASE PruneAbort
    BY <2>4 DEF PruneAbort, NoPrune, PruneInv
  <2>. QED  BY <2>1, <2>2, <2>3, <2>4
<1>. QED  BY <1>3, <1>4, <1>5, <1>6 DEF IndInv

(* A removed snapshot is older than the `current` the prune read, which is *)
(* not newer than the link is now, nor than a snapshot about to be linked. *)
LEMMA PruneRemoveInv ==
    ASSUME IndInv, TypeOK', PruneRemove
    PROVE  IndInv'
<1>. DEFINE m == Max(prune.todo)
<1>1. /\ UNCHANGED <<current, walFirst, walLog, main, arg, tree, snapVer, rw>>
      /\ prune.pc = "remove" /\ prune'.pc = "remove" /\ prune'.cur = prune.cur
      /\ prune'.todo = prune.todo \ {m}
      /\ snaps' = [v \in DOMAIN snaps \ {m} |-> snaps[v]] \/ snaps' = snaps
  BY DEF PruneRemove, WithoutSnapshot, Restrict, pruneFrame, treeVars, IndInv, TypeOK
<1>2. m \in Nat /\ m < prune.cur
  <2>1. /\ prune.todo \in SUBSET Nat /\ prune.todo # {} /\ prune.cur \in Nat
        /\ \A v \in prune.todo : v < prune.cur
    BY Zenon DEF IndInv, TypeOK, PruneInv, PruneRemove
  <2>2. \A v \in prune.todo : v <= prune.cur
    BY <2>1
  <2>. QED  BY <2>1, <2>2, MaxOfNats, Zenon
<1>. HIDE DEF m
<1>3. main \notin Rollback \cup {"down"}
  BY <1>1, ZenonT(40) DEF IndInv, MainInv
<1>4. prune.cur <= current /\ prune.cur \in Nat /\ current \in Nat
  BY <1>1 DEF IndInv, TypeOK, PruneInv
<1>5. /\ current \in DOMAIN snaps' /\ snaps'[current] = snaps[current]
      /\ DOMAIN snaps' \subseteq DOMAIN snaps
      /\ \A v \in DOMAIN snaps' : snaps'[v] = snaps[v]
  BY <1>1, <1>2, <1>4, Lengths
<1>6. DirInv'
  BY <1>1, <1>5 DEF IndInv, DirInv, Version
<1>7. MainInv'
  BY <1>1, <1>3, <1>5 DEF IndInv, MainInv, Rollback
<1>8. RewriteInv'
  <2>. DEFINE n == Version(rw.base)
  <2>1. ASSUME rw.pc = "link" PROVE n \in DOMAIN snaps' /\ snaps'[n] = rw.base
    <3>1. /\ n \in DOMAIN snaps /\ snaps[n] = rw.base
          /\ Len(snaps[current]) <= Len(rw.base)
      BY <1>1, <2>1 DEF IndInv, RewriteInv, PruneInv
    <3>. HIDE DEF n
    <3>2. current <= n /\ n \in Nat
      BY <3>1, Lengths, SnapOrder
    <3>. QED  BY <1>1, <1>2, <1>4, <3>1, <3>2
  <2>2. n' = n
    BY <1>1 DEF Version
  <2>. QED  BY <1>1, <1>5, <2>1, <2>2 DEF IndInv, RewriteInv
<1>9. PruneInv'
  BY <1>1, <1>5 DEF IndInv, PruneInv
<1>. QED  BY <1>6, <1>7, <1>8, <1>9 DEF IndInv

(* The WAL is cut after the oldest snapshot, wherever the versions start. *)
LEMMA CutIndex ==
    ASSUME NEW h \in Seq(ChangeSets), Version(h) + 1 >= InitialVersion
    PROVE  walIndex(Version(h) + 1) = Len(h) + 1
<1>1. CASE h = <<>>
  BY <1>1, DBAssumption, EmptySeq DEF walIndex, uint64, Version
<1>2. CASE h # <<>>
  BY <1>2, DBAssumption, EmptySeq, LenProperties DEF walIndex, uint64, Version, walVersion
<1>. QED  BY <1>1, <1>2

LEMMA PruneCutInv ==
    ASSUME IndInv, TypeOK', PruneCut
    PROVE  IndInv'
<1>. DEFINE e == prune.earliest
<1>1. /\ UNCHANGED <<snaps, current, walLog, main, arg, tree, snapVer, rw>>
      /\ prune.pc = "cut" /\ prune'.pc = "none" /\ prune'.todo = {}
  BY Zenon DEF PruneCut, NoPrune, pruneFrame, treeVars
<1>2. e \in DOMAIN snaps /\ \A v \in DOMAIN snaps : e <= v
  BY <1>1 DEF IndInv, PruneInv
<1>3. walFirst' = walFirst \/ walFirst' = Len(snaps[e]) + 1
  <2>1. snaps[e] \in Seq(ChangeSets) /\ Version(snaps[e]) = e
    BY <1>2 DEF IndInv, TypeOK, DirInv
  <2>2. e + 1 >= InitialVersion => walIndex(e + 1) = Len(snaps[e]) + 1
    BY <2>1, CutIndex
  <2>. QED  BY <2>2 DEF PruneCut
<1>4. \A v \in DOMAIN snaps : walFirst' <= Len(snaps[v]) + 1
  <2>. SUFFICES ASSUME NEW v \in DOMAIN snaps PROVE walFirst' <= Len(snaps[v]) + 1
    OBVIOUS
  <2>1. Len(snaps[e]) <= Len(snaps[v])
    BY <1>2, SnapOrder
  <2>2. walFirst <= Len(snaps[v]) + 1
    BY DEF IndInv, DirInv
  <2>. HIDE DEF e
  <2>. QED  BY <1>2, <1>3, <2>1, <2>2, Lengths
<1>5. /\ walFirst' <= Len(snaps[current]) + 1 /\ walFirst' \in Nat
      /\ Len(snaps[current]) <= Len(tree)
      /\ rw.pc \in {"write", "rename", "link"} => Len(snaps[current]) <= Len(rw.base)
  <2>1. walFirst' <= Len(snaps[current]) + 1
    BY <1>4, Lengths
  <2>2. walFirst' \in Nat
    BY DEF TypeOK
  <2>. QED  BY <1>1, <2>1, <2>2 DEF IndInv, PruneInv
<1>6. main \notin Rollback \cup {"down"}
  BY <1>1 DEF IndInv, MainInv
<1>7. DirInv'
  BY <1>1, <1>4 DEF IndInv, DirInv, Version
<1>8. MainInv'
  <2>1. walFirst' <= Len(tree) + 1
    BY <1>5, Lengths, SMTT(30)
  <2>. QED  BY <1>1, <1>6, <2>1 DEF IndInv, MainInv, Rollback
<1>9. RewriteInv'
  <2>1. rw.pc \in {"write", "rename", "link"} => walFirst' <= Len(rw.base) + 1
    BY <1>5, Lengths
  <2>2. Version(rw.base)' = Version(rw.base)
    BY <1>1 DEF Version
  <2>. QED  BY <1>1, <2>1, <2>2 DEF IndInv, RewriteInv
<1>10. PruneInv'
  BY <1>1 DEF PruneInv
<1>. QED  BY <1>7, <1>8, <1>9, <1>10 DEF IndInv

-----------------------------------------------------------------------------
(* The inductive step, one case per action. *)
LEMMA CallerInv == ASSUME IndInv, TypeOK', Caller PROVE IndInv'
<1>1. CASE WriteWALSync \/ SendWAL \/ SendWALQuit
  BY <1>1, CallerStep
     DEF WriteWALSync, SendWAL, SendWALQuit, Rollback, dirVars, walVars, treeVars
<1>2. CASE CheckPending \/ CheckNoTree \/ CheckResult
  BY <1>2, CallerStep, SMTT(60)
     DEF CheckPending, CheckNoTree, CheckResult, AfterCheck, NoRewrite, Rollback,
         dirVars, walVars, treeVars
<1>3. CASE WaitCommitted
  <2>1. rw.pc = "result"
    BY <1>3 DEF WaitCommitted, IndInv, MainInv
  <2>. QED  BY <1>3, <2>1, CallerStep DEF WaitCommitted, Rollback, dirVars, walVars, treeVars
<1>4. CASE WaitFailed \/ SwitchFailed
  BY <1>4, CallerStep
     DEF WaitFailed, SwitchFailed, NoRewrite, Rollback, dirVars, walVars, treeVars
<1>5. CASE Flushed \/ CloseRewrite
  BY <1>5, CallerStep
     DEF Flushed, ChanClosed, CloseRewrite, NoRewrite, Rollback, dirVars, walVars, treeVars
<1>. QED
  BY <1>1, <1>2, <1>3, <1>4, <1>5, SwitchTreeInv, pruneSnapshotsInv,
     rewriteIfApplicableInv, DownInv, RollbackInv, ZenonT(40) DEF Caller, CloseDone

LEMMA WriterInv == ASSUME IndInv, TypeOK', Writer PROVE IndInv'
<1>1. UNCHANGED <<snaps, current, walFirst, main, arg, tree, snapVer, rw, prune>>
  BY DEF Writer, WriterRecv, WriterDrain, WriterWrite, WriterFail, WriterLatch,
         WriterClosed, WriterExit, dirVars, walVars, treeVars
<1>2. Len(walLog) <= Len(walLog')
  <2>1. CASE WriterWrite \/ WriterFail
    BY <2>1, WriteType DEF WriterWrite, WriterFail, IndInv, TypeOK
  <2>2. CASE walLog' = walLog
    BY <2>2, Lengths
  <2>. QED  BY <2>1, <2>2, SMTT(30)
            DEF Writer, WriterRecv, WriterDrain, WriterLatch, WriterClosed, WriterExit, walVars
<1>. QED  BY <1>1, <1>2, WriterStep, Zenon

LEMMA StepInv == ASSUME IndInv, [Next]_vars PROVE IndInv'
<1>1. CASE Next
  <2>. TypeOK'
    BY <1>1, StepType
  <2>1. ASSUME NEW cs \in ChangeSets, Commit(cs) PROVE IndInv'
    BY <2>1, CommitInv
  <2>2. CASE CommitRefused \/ WaitAsyncCommit \/ Close
    BY <2>2, CallerStep
       DEF CommitRefused, WaitAsyncCommit, Close, Rollback, dirVars, walVars, treeVars
  <2>3. CASE Crash
    BY <2>3, DownInv DEF Crash
  <2>4. CASE LoadLatest
    BY <2>4, LoadInv
  <2>5. ASSUME NEW v \in Targets, LoadTarget(v) \/ LoadForOverwriting(v) PROVE IndInv'
    BY <2>5, LoadInv, LoadForOverwritingInv
  <2>6. CASE Caller
    BY <2>6, CallerInv
  <2>7. CASE Writer
    BY <2>7, WriterInv
  <2>8. CASE Rewrite
    BY <2>8, RewriteQuietInv, RewriteRenameInv, RewriteLinkInv, Zenon DEF Rewrite
  <2>9. CASE Prune
    BY <2>9, PruneQuietInv, PruneRemoveInv, PruneCutInv, Zenon DEF Prune
  <2>. QED
    BY <1>1, <2>1, <2>2, <2>3, <2>4, <2>5, <2>6, <2>7, <2>8, <2>9, Zenon DEF Next
<1>2. CASE UNCHANGED vars
  <2>. USE <1>2 DEF vars, chainVars, dirVars, walVars, treeVars, writerVars
  <2>1. TypeOK'
    BY SMTT(60) DEF IndInv, TypeOK
  <2>2. Len(walLog) <= Len(walLog')
    BY Lengths
  <2>. QED  BY <2>1, <2>2, WriterStep, ZenonT(40)
<1>. QED  BY <1>1, <1>2

LEMMA InitInv == Init => IndInv
<1>. SUFFICES ASSUME Init PROVE IndInv
  OBVIOUS
<1>1. DOMAIN snaps = {BaseVersion} /\ snaps[BaseVersion] = <<>> /\ BaseVersion \in Nat
  BY DBAssumption DEF Init
<1>2. TypeOK
  BY <1>1, NoTaskType, Zenon DEF Init, TypeOK, NoRewrite, NoPrune
<1>3. DirInv
  BY <1>1, EmptySeq DEF Init, DirInv, Version
<1>4. MainInv /\ RewriteInv /\ PruneInv
  BY DEF Init, MainInv, RewriteInv, PruneInv, Rollback, NoRewrite, NoPrune
<1>. QED  BY <1>2, <1>3, <1>4 DEF IndInv

(* The inductive invariant holds in every reachable state. *)
THEOREM Invariance == Spec => []IndInv
BY InitInv, StepInv, PTL DEF Spec

(* Every variable keeps its type, the log and the trees included, however  *)
(* replay, batches and truncation cut and extend them.                     *)
THEOREM TypeCorrect == Spec => []TypeOK
<1>1. IndInv => TypeOK
  BY DEF IndInv
<1>. QED  BY <1>1, Invariance, PTL

(* Whatever the rewrite, the prune or a rollback were doing when the       *)
(* process died, the `current` link names a snapshot that exists and the   *)
(* WAL holds every entry that catchupWAL needs to start from it.           *)
THEOREM AlwaysLoadable == Spec => []CurrentLoadable
<1>1. IndInv => CurrentLoadable
  BY CatchupReaches DEF IndInv, TypeOK, DirInv, CurrentLoadable
<1>. QED  BY <1>1, Invariance, PTL

-----------------------------------------------------------------------------

(* entries on their way to the WAL *)
InFlight == Range(walChan) \cup Range(batch)

(* Nothing is longer than MaxHeight, so that an index the WAL holds is not *)
(* one that wrapped around, and the tree of a rollback is that of its      *)
(* target.                                                                 *)
SizeInv ==
    /\ LastIndex <= MaxHeight /\ Len(tree) <= MaxHeight
    /\ \A v \in DOMAIN snaps : Len(snaps[v]) <= MaxHeight
    /\ Len(rw.base) <= MaxHeight /\ Len(rw.mtree) <= MaxHeight
    /\ \A e \in InFlight : e.index <= MaxHeight
    /\ main \in Rollback => tree # <<>> /\ Version(tree) = arg

-----------------------------------------------------------------------------
(* Versions and indexes. *)

(* The entry of a committed version is the one at its length. *)
LEMMA IndexOfVersion ==
    ASSUME NEW h \in Seq(ChangeSets), h # <<>>
    PROVE  walIndex(Version(h)) = Len(h)
BY DBAssumption, EmptySeq, LenProperties DEF walIndex, uint64, Version, walVersion

(* A version whose index is small did not wrap around. *)
LEMMA VersionOfIndex ==
    ASSUME NEW v \in Nat, walIndex(v) <= MaxHeight, v <= walVersion(MaxHeight), walIndex(v) > 0
    PROVE  walVersion(walIndex(v)) = v
BY DBAssumption DEF walIndex, uint64, walVersion

(* ... so the history of that length has that version. *)
LEMMA VersionOfLength ==
    ASSUME NEW h \in Seq(ChangeSets), NEW v \in Targets, Len(h) = walIndex(v),
           Len(h) <= MaxHeight, Len(h) > 0
    PROVE  Version(h) = v
<1>1. v \in Nat /\ v <= walVersion(MaxHeight)
  BY TargetType, DBAssumption DEF Targets, walVersion
<1>2. walVersion(Len(h)) = v
  BY <1>1, VersionOfIndex, SMTT(30)
<1>. QED  BY <1>2, EmptySeq DEF Version

-----------------------------------------------------------------------------
(* What catchupWAL and a write of the WAL do, entry by entry. *)

(* catchupWAL keeps the tree and adds the entries after it, up to the      *)
(* target or to the end of the log.                                        *)
LEMMA CatchupEntries ==
    ASSUME walLog \in Seq(ChangeSets), NEW h \in Seq(ChangeSets), NEW v \in Nat
    PROVE  LET c == catchupWAL(h, v)
           IN  /\ c \in Seq(ChangeSets)
               /\ Len(c) = IF Len(h) < LastIndex /\ Len(h) < CatchupTo(v)
                           THEN CatchupTo(v) ELSE Len(h)
               /\ CatchupTo(v) <= LastIndex
               /\ \A i \in 1..Len(h) : c[i] = h[i]
               /\ \A i \in (Len(h) + 1)..Len(c) : c[i] = walLog[i]
<1>1. Len(h) \in Nat /\ LastIndex \in Nat
  BY LenProperties DEF LastIndex
<1>2. CatchupTo(v) \in Nat /\ CatchupTo(v) <= LastIndex
  BY <1>1, WalIndexType DEF CatchupTo
<1>. DEFINE m == Len(h) + 1  n == CatchupTo(v)
            s == SubSeq(walLog, m, n)
<1>3. catchupWAL(h, v) = IF m > LastIndex THEN h ELSE h \o s
  BY CatchupFromNext DEF catchupWAL
<1>4. \A i \in m..n : walLog[i] \in ChangeSets
  BY <1>1, <1>2, ElementOfSeq DEF LastIndex
<1>5. m \in Int /\ n \in Int
  BY <1>1, <1>2
<1>. HIDE DEF n, m
<1>6. /\ s \in Seq(ChangeSets) /\ Len(s) = IF m <= n THEN n - m + 1 ELSE 0
      /\ \A i \in 1..(n - m + 1) : s[i] = walLog[m + i - 1]
  BY <1>4, <1>5, SubSeqProperties
<1>. HIDE DEF s
<1>7. /\ h \o s \in Seq(ChangeSets) /\ Len(h \o s) = Len(h) + Len(s)
      /\ \A i \in 1..(Len(h) + Len(s)) : (h \o s)[i] = IF i <= Len(h) THEN h[i] ELSE s[i - Len(h)]
  BY <1>6, ConcatProperties
<1>. DEFINE c == catchupWAL(h, v)
<1>8. CASE m > LastIndex
  BY <1>1, <1>2, <1>3, <1>8, SMTT(30) DEF m, n
<1>9. CASE ~(m > LastIndex)
  <2>1. c = h \o s
    BY <1>3, <1>9
  <2>. HIDE DEF c
  <2>2. Len(c) = IF Len(h) < n THEN n ELSE Len(h)
    BY <1>1, <1>2, <1>6, <1>7, <2>1, SMTT(30) DEF m, n
  <2>3. \A i \in 1..Len(h) : c[i] = h[i]
    BY <1>1, <1>2, <1>6, <1>7, <2>1 DEF m, n
  <2>4. ASSUME NEW i \in (Len(h) + 1)..Len(c) PROVE c[i] = walLog[i]
    <3>1. Len(c) = Len(h) + Len(s) /\ Len(s) \in Nat
      BY <1>6, <1>7, <2>1, LenProperties
    <3>2. c[i] = s[i - Len(h)]
      BY <1>1, <1>7, <2>1, <3>1
    <3>3. i - Len(h) \in 1..(n - m + 1)
      BY <1>1, <1>2, <1>5, <1>6, <3>1
    <3>4. s[i - Len(h)] = walLog[m + (i - Len(h)) - 1]
      BY <1>6, <3>3
    <3>5. m + (i - Len(h)) - 1 = i
      BY <1>1 DEF m
    <3>. QED  BY <3>2, <3>4, <3>5
  <2>5. c \in Seq(ChangeSets)
    BY <1>7, <2>1
  <2>6. Len(h) < LastIndex
    BY <1>1, <1>9 DEF m
  <2>. QED  BY <1>2, <2>2, <2>3, <2>4, <2>5, <2>6 DEF c, n
<1>. QED  BY <1>8, <1>9

(* Catching up to the end of the log. *)
LEMMA CatchupAll ==
    ASSUME walLog \in Seq(ChangeSets), NEW h \in Seq(ChangeSets)
    PROVE  Len(catchupWAL(h, 0)) = IF Len(h) < LastIndex THEN LastIndex ELSE Len(h)
BY CatchupEntries, Zenon DEF CatchupTo

(* What part of a batch a write adds. *)
LEMMA AppendEntries ==
    ASSUME walLog \in Seq(ChangeSets), NEW b \in Seq(WalEntries),
           NEW k \in Nat, NEW n \in Nat, k + n <= Len(b), AppendWAL(b, k, n)
    PROVE  /\ walLog' \in Seq(ChangeSets) /\ Len(walLog') = Len(walLog) + n
           /\ \A i \in 1..Len(walLog) : walLog'[i] = walLog[i]
           /\ \A i \in 1..n : walLog'[Len(walLog) + i] = b[k + i].data
<1>. DEFINE s == [i \in 1..n |-> b[k + i].data]
<1>1. \A i \in 1..n : b[k + i].data \in ChangeSets
  <2>. SUFFICES ASSUME NEW i \in 1..n PROVE b[k + i].data \in ChangeSets
    OBVIOUS
  <2>1. k + i \in 1..Len(b)
    BY LenProperties
  <2>2. b[k + i] \in WalEntries
    BY <2>1, ElementOfSeq
  <2>. QED  BY <2>2 DEF WalEntries
<1>2. s \in Seq(ChangeSets) /\ Len(s) = n /\ \A i \in 1..n : s[i] = b[k + i].data
  BY <1>1
<1>3. walLog' = walLog \o s
  BY DEF AppendWAL
<1>. HIDE DEF s
<1>4. Len(walLog) \in Nat
  BY LenProperties
<1>5. /\ walLog' \in Seq(ChangeSets) /\ Len(walLog') = Len(walLog) + n
      /\ \A i \in 1..(Len(walLog) + n) :
           walLog'[i] = IF i <= Len(walLog) THEN walLog[i] ELSE s[i - Len(walLog)]
  BY <1>2, <1>3, ConcatProperties, Zenon
<1>6. \A i \in 1..Len(walLog) : walLog'[i] = walLog[i]
  BY <1>4, <1>5
<1>7. ASSUME NEW i \in 1..n PROVE walLog'[Len(walLog) + i] = b[k + i].data
  <2>1. Len(walLog) + i \in 1..(Len(walLog) + n) /\ ~(Len(walLog) + i <= Len(walLog))
        /\ (Len(walLog) + i) - Len(walLog) = i
    BY <1>4
  <2>2. walLog'[Len(walLog) + i] = s[i]
    BY <1>5, <2>1
  <2>. QED  BY <1>2, <2>2
<1>. QED  BY <1>5, <1>6, <1>7

(* A write of the WAL keeps what is there and adds entries of the batch at *)
(* their own indexes; one that succeeds leaves none of the batch out.      *)
LEMMA WriteEntries ==
    ASSUME walLog \in Seq(ChangeSets), NEW b \in Seq(WalEntries),
           WriteBatch(b) \/ WriteBatchFails(b)
    PROVE  /\ walLog' \in Seq(ChangeSets) /\ Len(walLog) <= Len(walLog')
           /\ \A i \in 1..Len(walLog) : walLog'[i] = walLog[i]
           /\ \A i \in (Len(walLog) + 1)..Len(walLog') :
                \E j \in 1..Len(b) : b[j].index = i /\ b[j].data = walLog'[i]
           /\ WriteBatch(b) => \A j \in 1..Len(b) : b[j].index <= Len(walLog')
<1>1. Len(b) \in Nat /\ Len(walLog) \in Nat
  BY LenProperties, SMTT(30)
<1>2. ASSUME NEW k \in Nat, NEW n \in Nat, k + n <= Len(b), AppendWAL(b, k, n),
             n > 0 => InOrder(b, k)
      PROVE  /\ walLog' \in Seq(ChangeSets) /\ Len(walLog') = Len(walLog) + n
             /\ \A i \in 1..Len(walLog) : walLog'[i] = walLog[i]
             /\ \A i \in (Len(walLog) + 1)..Len(walLog') :
                  \E j \in 1..Len(b) : b[j].index = i /\ b[j].data = walLog'[i]
  <2>1. /\ walLog' \in Seq(ChangeSets) /\ Len(walLog') = Len(walLog) + n
        /\ \A i \in 1..Len(walLog) : walLog'[i] = walLog[i]
        /\ \A i \in 1..n : walLog'[Len(walLog) + i] = b[k + i].data
    BY <1>2, AppendEntries, Zenon
  <2>2. ASSUME NEW i \in (Len(walLog) + 1)..Len(walLog')
        PROVE  \E j \in 1..Len(b) : b[j].index = i /\ b[j].data = walLog'[i]
    <3>. DEFINE m == i - Len(walLog)
    <3>1. m \in 1..n /\ k + m \in 1..Len(b) /\ k + m \in (k + 1)..Len(b) /\ n > 0
      BY <1>1, <1>2, <2>1
    <3>2. b[k + m].index = Len(walLog) + (k + m) - k
      BY <1>2, <3>1, Zenon DEF InOrder, LastIndex
    <3>3. Len(walLog) + (k + m) - k = i /\ Len(walLog) + m = i
      BY <1>1, <1>2
    <3>. HIDE DEF m
    <3>4. walLog'[i] = b[k + m].data
      BY <2>1, <3>1, <3>3, SMTT(30)
    <3>. QED  BY <3>1, <3>2, <3>3, <3>4
  <2>. QED  BY <2>1, <2>2, SMTT(30)
<1>3. CASE WriteBatch(b)
  <2>1. PICK k \in 0..Len(b) : Skips(b, k) /\ InOrder(b, k) /\ AppendWAL(b, k, Len(b) - k)
    BY <1>3 DEF WriteBatch
  <2>. DEFINE n == Len(b) - k
  <2>2. k \in Nat /\ n \in Nat /\ k + n <= Len(b)
    BY <1>1
  <2>3. /\ walLog' \in Seq(ChangeSets) /\ Len(walLog') = Len(walLog) + n
        /\ \A i \in 1..Len(walLog) : walLog'[i] = walLog[i]
        /\ \A i \in (Len(walLog) + 1)..Len(walLog') :
             \E j \in 1..Len(b) : b[j].index = i /\ b[j].data = walLog'[i]
    BY <1>2, <2>1, <2>2, Zenon
  <2>4. ASSUME NEW j \in 1..Len(b) PROVE b[j].index <= Len(walLog')
    <3>0. b[j] \in WalEntries
      BY ElementOfSeq
    <3>1. CASE j <= k
      <4>1. b[j].index <= Len(walLog)
        BY <1>1, <2>1, <3>1 DEF Skips, LastIndex
      <4>. QED  BY <1>1, <2>2, <2>3, <3>0, <4>1, SMTT(30) DEF WalEntries
    <3>2. CASE ~(j <= k)
      <4>1. b[j].index = Len(walLog) + j - k
        BY <1>1, <2>1, <3>2, SMTT(30) DEF InOrder, LastIndex
      <4>. QED  BY <1>1, <2>2, <2>3, <4>1
    <3>. QED  BY <3>1, <3>2
  <2>. QED  BY <1>1, <2>2, <2>3, <2>4
<1>4. CASE WriteBatchFails(b) /\ ~WriteBatch(b)
  <2>1. PICK k \in 0..Len(b) : \E n \in 0..(Len(b) - k) :
            (n > 0 => InOrder(b, k)) /\ AppendWAL(b, k, n)
    BY <1>4 DEF WriteBatchFails
  <2>2. PICK n \in 0..(Len(b) - k) : (n > 0 => InOrder(b, k)) /\ AppendWAL(b, k, n)
    BY <2>1
  <2>3. k \in Nat /\ n \in Nat /\ k + n <= Len(b)
    BY <1>1
  <2>. QED  BY <1>1, <1>2, <1>4, <2>2, <2>3, SMTT(30)
<1>. QED  BY <1>3, <1>4

(* The tree of a target version: the snapshot below it, or longer, and of  *)
(* the target's length when the WAL reaches it.                            *)
LEMMA LoadAtLength ==
    ASSUME IndInv, SizeInv, NEW v \in Targets, SnapshotsUpTo(v) # {}
    PROVE  /\ LoadAt(v) \in Seq(ChangeSets) /\ Len(LoadAt(v)) <= MaxHeight
           /\ \/ Len(LoadAt(v)) <= LastIndex
              \/ LoadAt(v) = snaps[seekSnapshot(v)]
           /\ InLog(walIndex(v)) => Len(LoadAt(v)) = walIndex(v)
<1>. DEFINE s == seekSnapshot(v)
            h == snaps[s]
<1>1. v \in Nat /\ v > 0
  BY TargetType DEF Targets
<1>2. s \in DOMAIN snaps /\ s <= v
  BY <1>1, SeekSnapshot, SMTT(30) DEF IndInv, TypeOK
<1>3. /\ h \in Seq(ChangeSets) /\ Version(h) = s /\ Len(h) <= MaxHeight
      /\ walLog \in Seq(ChangeSets) /\ s \in Nat
  BY <1>2 DEF IndInv, TypeOK, DirInv, SizeInv
<1>4. /\ Len(h) \in Nat /\ LastIndex \in Nat /\ LastIndex <= MaxHeight /\ MaxHeight \in Nat
      /\ walIndex(v) \in Nat
  BY <1>1, <1>3, LenProperties, DBAssumption, WalIndexType, Zenon DEF SizeInv, LastIndex
<1>5. LoadAt(v) = IF v > Version(h) THEN catchupWAL(h, v) ELSE h
  BY DEF LoadAt
<1>. HIDE DEF h, s
<1>6. CASE v > Version(h)
  <2>1. /\ LoadAt(v) \in Seq(ChangeSets) /\ CatchupTo(v) <= LastIndex
        /\ Len(LoadAt(v)) = IF Len(h) < LastIndex /\ Len(h) < CatchupTo(v)
                            THEN CatchupTo(v) ELSE Len(h)
        /\ \A i \in 1..Len(h) : LoadAt(v)[i] = h[i]
    <3>1. LoadAt(v) = catchupWAL(h, v)
      BY <1>5, <1>6
    <3>2. /\ catchupWAL(h, v) \in Seq(ChangeSets) /\ CatchupTo(v) <= LastIndex
          /\ Len(catchupWAL(h, v)) = IF Len(h) < LastIndex /\ Len(h) < CatchupTo(v)
                                     THEN CatchupTo(v) ELSE Len(h)
          /\ \A i \in 1..Len(h) : catchupWAL(h, v)[i] = h[i]
      BY <1>1, <1>3, CatchupEntries
    <3>. QED  BY <3>1, <3>2, Zenon
  <2>2. CatchupTo(v) \in Nat
    BY <1>1, <1>4 DEF CatchupTo
  <2>3. Len(LoadAt(v)) = Len(h) => LoadAt(v) = h
    BY <1>3, <2>1, SeqEqual
  <2>4. ASSUME InLog(walIndex(v)) PROVE Len(LoadAt(v)) = walIndex(v)
    <3>1. CatchupTo(v) = walIndex(v) /\ walIndex(v) <= LastIndex /\ walIndex(v) > 0
      BY <1>1, <1>4, <2>4 DEF InLog, CatchupTo
    <3>2. Len(h) < walIndex(v)
      <4>1. walVersion(walIndex(v)) = v
        BY <1>1, <1>4, <3>1, VersionOfIndex, DBAssumption DEF Targets, walVersion
      <4>2. h # <<>> => Version(h) = walVersion(Len(h))
        BY DEF Version
      <4>3. h = <<>> => Len(h) = 0
        BY EmptySeq
      <4>. QED  BY <1>1, <1>3, <1>4, <1>6, <3>1, <4>1, <4>2, <4>3, DBAssumption DEF walVersion
    <3>. QED  BY <1>4, <2>1, <3>1, <3>2
  <2>. QED  BY <1>3, <1>4, <2>1, <2>2, <2>3, <2>4 DEF h, s
<1>7. CASE ~(v > Version(h))
  <2>1. LoadAt(v) = h /\ Version(h) = v
    BY <1>1, <1>2, <1>3, <1>5, <1>7
  <2>2. ASSUME InLog(walIndex(v)) PROVE Len(h) = walIndex(v)
    <3>1. walIndex(v) <= LastIndex /\ walIndex(v) > 0
      BY <2>2 DEF InLog
    <3>2. walVersion(walIndex(v)) = v
      BY <1>1, <1>4, <3>1, VersionOfIndex, DBAssumption DEF Targets, walVersion
    <3>3. CASE h # <<>>
      BY <1>3, <2>1, <3>3, IndexOfVersion
    <3>4. CASE h = <<>>
      BY <1>1, <1>4, <2>1, <3>1, <3>2, <3>4, DBAssumption DEF Version, walVersion
    <3>. QED  BY <3>3, <3>4
  <2>. QED  BY <1>3, <2>1, <2>2 DEF h, s
<1>. QED  BY <1>6, <1>7

-----------------------------------------------------------------------------
(* The steps, grouped by what they touch. *)

(* Steps of the caller that only move on, or drop a rewrite's result. *)
QuietCaller ==
    \/ CommitRefused \/ WaitAsyncCommit \/ Close
    \/ CheckPending \/ CheckNoTree \/ CheckResult
    \/ WaitCommitted \/ WaitFailed \/ SwitchFailed
    \/ pruneSnapshots \/ CloseRewrite

LEMMA QuietCallerEffect ==
    ASSUME QuietCaller
    PROVE  /\ UNCHANGED <<chainVars, dirVars, walVars, arg, treeVars, writerVars>>
           /\ rw' = rw \/ rw' = NoRewrite
           /\ \/ main = "idle" /\ main' \in {"failed", "closeFlush"}
              \/ main = "idle" /\ main' = "flush" /\ writer # "none"
              \/ main = "failed" /\ main' = "closeFlush"
              \/ main = "check" /\ main' \in {"failed", "rewrite", "wait"}
              \/ main = "wait" /\ main' = "failed"
              \/ main = "wait" /\ main' = "switch" /\ CaughtUp
              \/ main = "switch" /\ main' = "failed"
              \/ main = "prune" /\ main' = "rewrite"
              \/ main = "closeRewrite" /\ main' = "closePrune"
<1>1. CASE CommitRefused \/ WaitAsyncCommit \/ Close
  BY <1>1, Zenon DEF CommitRefused, WaitAsyncCommit, Close
<1>2. CASE CheckPending \/ CheckNoTree \/ CheckResult
  BY <1>2, Zenon DEF CheckPending, CheckNoTree, CheckResult, AfterCheck
<1>3. CASE WaitCommitted \/ WaitFailed \/ SwitchFailed
  BY <1>3, Zenon DEF WaitCommitted, WaitFailed, SwitchFailed
<1>4. CASE pruneSnapshots \/ CloseRewrite
  BY <1>4, Zenon DEF pruneSnapshots, CloseRewrite, walVars, treeVars
<1>. QED  BY <1>1, <1>2, <1>3, <1>4, Zenon DEF QuietCaller

(* Steps of the writer that only touch its queue. *)
QuietWriter == WriterRecv \/ WriterDrain \/ WriterLatch \/ WriterClosed \/ WriterExit

LEMMA InFlightType == ASSUME TypeOK PROVE InFlight \subseteq WalEntries
<1>1. /\ walChan \in Seq(WalEntries) /\ batch \in Seq(WalEntries)
  BY DEF TypeOK
<1>2. /\ \A i \in DOMAIN walChan : walChan[i] \in WalEntries
      /\ \A i \in DOMAIN batch : batch[i] \in WalEntries
  BY <1>1, ElementOfSeq, LenProperties
<1>. QED  BY <1>2 DEF InFlight, Range

(* Facts about the entries a sequence holds. *)
LEMMA RangeEmpty == Range(<<>>) = {}
<1>1. DOMAIN <<>> = {}
  OBVIOUS
<1>. QED  BY <1>1 DEF Range

LEMMA RangeAppend ==
    ASSUME NEW S, NEW s \in Seq(S), NEW e \in S
    PROVE  Range(Append(s, e)) = Range(s) \cup {e}
<1>1. DOMAIN <<e>> = {1} /\ <<e>>[1] = e /\ <<e>> \in Seq(S)
  OBVIOUS
<1>2. Range(<<e>>) = {e}
  BY <1>1 DEF Range
<1>3. Range(s \o <<e>>) = Range(s) \cup Range(<<e>>)
  BY <1>1, RangeConcatenation, ZenonT(40)
<1>. QED  BY <1>2, <1>3, AppendIsConcat, Zenon

LEMMA RangeHeadTail ==
    ASSUME NEW S, NEW s \in Seq(S), s # <<>>
    PROVE  Range(<<Head(s)>>) \cup Range(Tail(s)) = Range(s)
<1>. DEFINE h == Head(s)  t == Tail(s)
<1>1. /\ h \in S /\ t \in Seq(S) /\ Len(t) = Len(s) - 1
      /\ \A i \in 1..Len(t) : t[i] = s[i + 1]
  BY HeadTailProperties
<1>2. h = s[1] /\ Len(s) \in Nat \ {0}
  BY EmptySeq
<1>. HIDE DEF h, t
<1>3. /\ <<h>> \o t \in Seq(S) /\ Len(<<h>> \o t) = Len(s)
      /\ \A i \in 1..Len(s) : (<<h>> \o t)[i] = s[i]
  <2>1. <<h>> \in Seq(S) /\ Len(<<h>>) = 1 /\ <<h>>[1] = h
    BY <1>1
  <2>2. /\ <<h>> \o t \in Seq(S) /\ Len(<<h>> \o t) = 1 + Len(t)
        /\ \A i \in 1..(1 + Len(t)) : (<<h>> \o t)[i] = IF i <= 1 THEN <<h>>[i] ELSE t[i - 1]
    BY <1>1, <2>1, ConcatProperties
  <2>3. ASSUME NEW i \in 1..Len(s) PROVE (<<h>> \o t)[i] = s[i]
    <3>1. CASE i = 1
      BY <1>1, <1>2, <2>1, <2>2, <3>1
    <3>2. CASE i # 1
      <4>1. i - 1 \in 1..Len(t) /\ (i - 1) + 1 = i /\ i \in 1..(1 + Len(t)) /\ ~(i <= 1)
        BY <1>1, <1>2, <3>2
      <4>. QED  BY <1>1, <2>2, <4>1
    <3>. QED  BY <3>1, <3>2, Zenon
  <2>. QED  BY <1>1, <1>2, <2>2, <2>3
<1>4. <<h>> \o t = s
  BY <1>3, SeqEqual
<1>5. Range(<<h>>) \cup Range(t) = Range(s)
  <2>1. <<h>> \in Seq(S)
    BY <1>1
  <2>2. Range(<<h>> \o t) = Range(<<h>>) \cup Range(t)
    BY <1>1, <2>1, RangeConcatenation, ZenonT(40)
  <2>. QED  BY <1>4, <2>2, Zenon
<1>. QED  BY <1>5 DEF h, t

(* What is in flight after the writer received or collected entries. *)
LEMMA QuietWriterEffect ==
    ASSUME TypeOK, QuietWriter
    PROVE  /\ UNCHANGED <<chainVars, dirVars, walVars, main, arg, treeVars, rw, prune>>
           /\ InFlight' \subseteq InFlight
           /\ batch = <<>> \/ ~WriterRecv => InFlight' = InFlight
<1>1. UNCHANGED <<chainVars, dirVars, walVars, main, arg, treeVars, rw, prune>>
  BY Zenon DEF QuietWriter, WriterRecv, WriterDrain, WriterLatch, WriterClosed, WriterExit
<1>2. walChan \in Seq(WalEntries) /\ batch \in Seq(WalEntries)
  BY DEF TypeOK
<1>3. ASSUME WriterRecv
      PROVE  InFlight' \subseteq InFlight /\ (batch = <<>> => InFlight' = InFlight)
  <2>1. batch' = <<Head(walChan)>> /\ walChan' = Tail(walChan) /\ walChan # <<>>
    BY <1>3 DEF WriterRecv
  <2>2. Range(<<Head(walChan)>>) \cup Range(Tail(walChan)) = Range(walChan)
    BY <1>2, <2>1, RangeHeadTail, Zenon
  <2>. QED  BY <2>1, <2>2, RangeEmpty, Zenon DEF InFlight
<1>4. ASSUME WriterDrain PROVE InFlight' = InFlight
  <2>1. batch' = batch \o walChan /\ walChan' = <<>>
    BY <1>4 DEF WriterDrain
  <2>2. Range(batch \o walChan) = Range(batch) \cup Range(walChan)
    BY <1>2, RangeConcatenation
  <2>. QED  BY <2>1, <2>2, RangeEmpty, Zenon DEF InFlight
<1>5. ASSUME WriterLatch \/ WriterClosed \/ WriterExit PROVE InFlight' = InFlight
  BY <1>5 DEF WriterLatch, WriterClosed, WriterExit, InFlight
<1>. QED  BY <1>1, <1>3, <1>4, <1>5, Zenon DEF QuietWriter

(* Steps of the rewrite that leave the directory alone. *)
QuietRewrite ==
    RewriteWrite \/ RewriteFail \/ RewriteLoad \/ RewriteCatchup \/ RewriteLoadFail

LEMMA QuietRewriteEffect ==
    ASSUME TypeOK, QuietRewrite
    PROVE  /\ UNCHANGED <<dirVars, chainVars, walVars, main, arg, treeVars, writerVars, prune>>
           /\ \/ /\ rw.pc = "write" /\ rw'.pc = "rename"
                 /\ rw'.base = rw.base /\ rw'.mtree = rw.mtree
              \/ rw'.pc \in {"closed", "error"} /\ rw'.base = <<>> /\ rw'.mtree = <<>>
              \/ /\ rw'.pc = "catchup"
                 /\ rw'.base = snaps[current] /\ rw'.mtree = snaps[current]
              \/ /\ rw.pc = "catchup" /\ rw'.pc = "result"
                 /\ rw'.base = rw.base /\ rw'.mtree = catchupWAL(rw.mtree, 0)
<1>1. UNCHANGED <<dirVars, chainVars, walVars, main, arg, treeVars, writerVars, prune>>
  BY Zenon DEF QuietRewrite, RewriteWrite, RewriteFail, RewriteLoad, RewriteCatchup,
               RewriteLoadFail, rwFrame
<1>2. rw \in RewriteRecords
  BY DEF TypeOK, RewriteRecords
<1>3. CASE RewriteWrite
  BY <1>1, <1>2, <1>3 DEF RewriteWrite, RewriteRecords
<1>4. CASE RewriteFail \/ RewriteLoadFail
  BY <1>1, <1>4 DEF RewriteFail, RewriteLoadFail, NoRewrite
<1>5. CASE RewriteLoad
  BY <1>1, <1>5 DEF RewriteLoad
<1>6. CASE RewriteCatchup
  BY <1>1, <1>2, <1>6 DEF RewriteCatchup, RewriteRecords
<1>. QED  BY <1>3, <1>4, <1>5, <1>6, Zenon DEF QuietRewrite

(* The rename adds one snapshot. *)
LEMMA RewriteRenameEffect ==
    ASSUME TypeOK, RewriteRename
    PROVE  /\ UNCHANGED <<current, chainVars, walVars, main, arg, treeVars, writerVars, prune>>
           /\ rw.pc = "rename" /\ rw'.pc = "link"
           /\ rw'.base = rw.base /\ rw'.mtree = rw.mtree
           /\ Version(rw.base) \notin DOMAIN snaps
           /\ \A v \in DOMAIN snaps : v \in DOMAIN snaps' /\ snaps'[v] = snaps[v]
           /\ \A v \in DOMAIN snaps' :
                v \in DOMAIN snaps \/ (v = Version(rw.base) /\ snaps'[v] = rw.base)
BY DEF TypeOK, RewriteRename, rwFrame

(* Steps of the prune that leave the snapshots alone. *)
QuietPrune == PruneRead \/ PruneList \/ PruneScan \/ PruneCut \/ PruneAbort

LEMMA PruneEffect ==
    ASSUME QuietPrune \/ PruneRemove
    PROVE  /\ UNCHANGED <<current, chainVars, walLog, main, arg, treeVars, writerVars, rw>>
           /\ DOMAIN snaps' \subseteq DOMAIN snaps
           /\ \A v \in DOMAIN snaps' : snaps'[v] = snaps[v]
<1>1. CASE QuietPrune
  BY <1>1 DEF QuietPrune, PruneRead, PruneList, PruneScan, PruneCut, PruneAbort, pruneFrame
<1>2. CASE PruneRemove
  BY <1>2 DEF PruneRemove, pruneFrame, WithoutSnapshot, Restrict
<1>. QED  BY <1>1, <1>2

(* Steps that write entries of the WAL, and the entries they write. *)
WriteStep(b) ==
    /\ WriteBatch(b) \/ WriteBatchFails(b)
    /\ UNCHANGED <<chainVars, dirVars, walFirst, arg, treeVars, walChan, rw, prune>>
    /\ \/ /\ main = "write" /\ b = <<Entry>> /\ UNCHANGED <<writer, batch>>
          /\ \/ main' = "check" /\ WriteBatch(b) /\ UNCHANGED walErr
             \/ main' = "failed" /\ walErr' = TRUE
       \/ /\ writer = "write" /\ b = batch /\ batch' = <<>> /\ UNCHANGED <<main, walErr>>
          /\ \/ writer' = "recv" /\ WriteBatch(b)
             \/ writer' = "latch"

LEMMA WriteSteps ==
    ASSUME IndInv, WriteWALSync \/ WriterWrite \/ WriterFail
    PROVE  \E b \in Seq(WalEntries) : WriteStep(b)
<1>1. CASE WriteWALSync
  <2>1. tree \in Seq(ChangeSets) /\ tree # <<>>
    BY <1>1 DEF IndInv, TypeOK, MainInv, WriteWALSync
  <2>2. <<Entry>> \in Seq(WalEntries)
    BY <2>1, EntryType
  <2>3. WriteStep(<<Entry>>)
    BY <1>1, Zenon DEF WriteWALSync, WriteStep
  <2>. QED  BY <2>2, <2>3, Zenon
<1>2. CASE WriterWrite \/ WriterFail
  <2>1. batch \in Seq(WalEntries)
    BY DEF IndInv, TypeOK
  <2>2. WriteStep(batch)
    BY <1>2, Zenon DEF WriterWrite, WriterFail, WriteStep
  <2>. QED  BY <2>1, <2>2
<1>. QED  BY <1>1, <1>2

(* The entry of the version being committed stands at the tree's length. *)
LEMMA EntryIndex ==
    ASSUME tree \in Seq(ChangeSets), tree # <<>>
    PROVE  Entry.index = Len(tree) /\ Entry.data = tree[Len(tree)]
BY IndexOfVersion DEF Entry

-----------------------------------------------------------------------------
(* Sizes: the inductive step. *)

(* Steps that leave the trees and the disk as long as they were. *)
LEMMA SizeFrame ==
    ASSUME SizeInv, UNCHANGED <<walLog, tree, arg>>,
           \A v \in DOMAIN snaps' : v \in DOMAIN snaps /\ snaps'[v] = snaps[v],
           Len(rw'.base) <= MaxHeight, Len(rw'.mtree) <= MaxHeight,
           InFlight' \subseteq InFlight, main' \in Rollback => main \in Rollback
    PROVE  SizeInv'
<1>1. LastIndex' = LastIndex /\ Version(tree)' = Version(tree)
  BY DEF LastIndex, Version
<1>. QED  BY <1>1, Zenon DEF SizeInv, Rollback

LEMMA EmptySizes == Len(<<>>) = 0 /\ 0 <= MaxHeight /\ MaxHeight \in Nat
BY DBAssumption

(* The queue is unchanged. *)
LEMMA QueueSame == ASSUME UNCHANGED <<walChan, batch>> PROVE InFlight' = InFlight
BY DEF InFlight

LEMMA CommitSize ==
    ASSUME IndInv, SizeInv, NEW cs \in ChangeSets, Commit(cs)
    PROVE  SizeInv'
<1>1. /\ UNCHANGED <<dirVars, walVars, walChan, batch, rw>>
      /\ main' \in {"send", "write"} /\ tree' = Append(tree, cs) /\ Len(tree) < MaxHeight
  BY DEF Commit
<1>2. tree \in Seq(ChangeSets) /\ Len(tree) \in Nat /\ MaxHeight \in Nat
  BY LenProperties, DBAssumption DEF IndInv, TypeOK
<1>3. Len(tree') <= MaxHeight
  BY <1>1, <1>2, AppendProperties
<1>4. LastIndex' = LastIndex /\ snaps' = snaps /\ InFlight' = InFlight /\ main' \notin Rollback
  BY <1>1, QueueSame DEF LastIndex, walVars, dirVars, Rollback
<1>. QED  BY <1>1, <1>3, <1>4, Zenon DEF SizeInv

(* Steps of the caller that commit, send, or start and end a rewrite. *)
LEMMA CallerSize ==
    ASSUME IndInv, SizeInv, IndInv',
           QuietCaller \/ SendWAL \/ SendWALQuit \/ rewriteIfApplicable \/ Flushed
    PROVE  SizeInv'
<1>. USE EmptySizes
<1>1. CASE QuietCaller
  <2>1. /\ UNCHANGED <<dirVars, walVars, arg, treeVars, writerVars>>
        /\ rw' = rw \/ rw' = NoRewrite
        /\ main' \notin Rollback
    BY <1>1, QuietCallerEffect DEF Rollback
  <2>2. Len(rw'.base) <= MaxHeight /\ Len(rw'.mtree) <= MaxHeight
    BY <2>1 DEF SizeInv, NoRewrite
  <2>. QED  BY <2>1, <2>2, SizeFrame, QueueSame DEF dirVars, walVars, treeVars, writerVars
<1>2. CASE SendWAL
  <2>1. /\ UNCHANGED <<dirVars, walVars, arg, treeVars, batch, rw>>
        /\ main = "send" /\ main' = "check" /\ walChan' = Append(walChan, Entry)
    BY <1>2, SMTT(30) DEF SendWAL
  <2>2. tree \in Seq(ChangeSets) /\ tree # <<>> /\ walChan \in Seq(WalEntries)
    BY <2>1 DEF IndInv, TypeOK, MainInv
  <2>3. Entry \in WalEntries /\ Entry.index <= MaxHeight
    BY <2>2, EntryType, EntryIndex DEF SizeInv
  <2>4. InFlight' = InFlight \cup {Entry}
    <3>1. Range(Append(walChan, Entry)) = Range(walChan) \cup {Entry}
      BY <2>2, <2>3, RangeAppend
    <3>. QED  BY <2>1, <3>1, Zenon DEF InFlight
  <2>5. \A e \in InFlight' : e.index <= MaxHeight
    BY <2>3, <2>4 DEF SizeInv
  <2>. QED  BY <2>1, <2>5, Zenon DEF SizeInv, LastIndex, dirVars, walVars, treeVars, Rollback
<1>3. CASE SendWALQuit
  <2>1. UNCHANGED <<dirVars, walVars, arg, treeVars, walChan, batch, rw>> /\ main' = "failed"
    BY <1>3 DEF SendWALQuit
  <2>2. Len(rw'.base) <= MaxHeight /\ Len(rw'.mtree) <= MaxHeight
    BY <2>1 DEF SizeInv
  <2>. QED  BY <2>1, <2>2, SizeFrame, QueueSame DEF dirVars, walVars, treeVars, Rollback
<1>4. CASE rewriteIfApplicable
  <2>1. /\ UNCHANGED <<dirVars, walVars, arg, treeVars, writerVars>> /\ main' = "idle"
        /\ rw' = rw \/ rw' = [pc |-> "write", base |-> tree, mtree |-> <<>>]
    BY <1>4 DEF rewriteIfApplicable
  <2>2. Len(rw'.base) <= MaxHeight /\ Len(rw'.mtree) <= MaxHeight
    BY <2>1 DEF SizeInv
  <2>. QED  BY <2>1, <2>2, SizeFrame, QueueSame DEF dirVars, walVars, treeVars, writerVars, Rollback
<1>5. CASE Flushed
  <2>1. /\ UNCHANGED <<dirVars, walVars, arg, treeVars, rw>>
        /\ walChan' = <<>> /\ batch' = <<>> /\ main' \notin Rollback
    BY <1>5 DEF Flushed, Rollback
  <2>2. Len(rw'.base) <= MaxHeight /\ Len(rw'.mtree) <= MaxHeight
    BY <2>1 DEF SizeInv
  <2>3. InFlight' = {}
    BY <2>1, RangeEmpty, Zenon DEF InFlight
  <2>. QED  BY <2>1, <2>2, <2>3, SizeFrame DEF dirVars, walVars, treeVars
<1>. QED  BY <1>1, <1>2, <1>3, <1>4, <1>5

(* Steps that write the WAL. *)
LEMMA WriteSize ==
    ASSUME IndInv, SizeInv, IndInv', NEW b \in Seq(WalEntries), WriteStep(b)
    PROVE  SizeInv'
<1>1. /\ UNCHANGED <<dirVars, arg, treeVars, rw>>
      /\ main' \in Rollback => main \in Rollback
  BY DEF WriteStep, Rollback
<1>2. \A j \in 1..Len(b) : b[j].index <= MaxHeight
  <2>1. CASE b = batch
    <3>1. \A j \in 1..Len(b) : b[j] \in InFlight
      BY <2>1, LenProperties DEF InFlight, Range
    <3>. QED  BY <3>1 DEF SizeInv
  <2>2. CASE main = "write" /\ b = <<Entry>>
    <3>1. tree \in Seq(ChangeSets) /\ tree # <<>>
      BY <2>2 DEF IndInv, TypeOK, MainInv
    <3>2. Entry.index <= MaxHeight
      BY <3>1, EntryIndex DEF SizeInv
    <3>. QED  BY <2>2, <3>2, SMTT(30)
  <2>. QED  BY <2>1, <2>2 DEF WriteStep
<1>3. LastIndex' <= MaxHeight
  <2>1. walLog \in Seq(ChangeSets) /\ (WriteBatch(b) \/ WriteBatchFails(b))
    BY DEF IndInv, TypeOK, WriteStep
  <2>2. /\ Len(walLog) <= Len(walLog') /\ Len(walLog) \in Nat /\ Len(walLog') \in Nat
        /\ \A i \in (Len(walLog) + 1)..Len(walLog') : \E j \in 1..Len(b) : b[j].index = i
    BY <2>1, WriteEntries, LenProperties
  <2>3. CASE Len(walLog') = Len(walLog)
    BY <2>3 DEF SizeInv, LastIndex
  <2>4. CASE Len(walLog') # Len(walLog)
    <3>1. Len(walLog') \in (Len(walLog) + 1)..Len(walLog')
      BY <2>2, <2>4
    <3>2. PICK j \in 1..Len(b) : b[j].index = Len(walLog')
      BY <2>2, <3>1
    <3>. QED  BY <1>2, <3>2 DEF LastIndex
  <2>. QED  BY <2>3, <2>4, SMTT(30)
<1>4. InFlight' \subseteq InFlight
  <2>1. batch' = batch \/ batch' = <<>>
    BY DEF WriteStep
  <2>2. walChan' = walChan
    BY DEF WriteStep
  <2>. QED  BY <2>1, <2>2, RangeEmpty, Zenon DEF InFlight
<1>5. Version(tree)' = Version(tree)
  BY <1>1 DEF Version, treeVars
<1>. QED  BY <1>1, <1>3, <1>4, <1>5, Zenon DEF SizeInv, dirVars, treeVars

(* The switch to the tree the rewrite loaded, and the end of the process. *)
LEMMA SwitchSize ==
    ASSUME IndInv, SizeInv, SwitchTree
    PROVE  SizeInv'
<1>1. /\ UNCHANGED <<dirVars, walVars, arg, writerVars>> /\ rw' = NoRewrite
      /\ main' = "prune" /\ tree' = catchupWAL(rw.mtree, 0)
  BY DEF SwitchTree
<1>2. walLog \in Seq(ChangeSets) /\ rw.mtree \in Seq(ChangeSets)
  BY DEF IndInv, TypeOK
<1>3. Len(tree') <= MaxHeight
  BY <1>1, <1>2, CatchupAll DEF SizeInv
<1>4. /\ LastIndex' = LastIndex /\ snaps' = snaps /\ InFlight' = InFlight /\ main' \notin Rollback
      /\ Len(rw'.base) <= MaxHeight /\ Len(rw'.mtree) <= MaxHeight
  BY <1>1, QueueSame, EmptySizes
     DEF LastIndex, walVars, dirVars, writerVars, Rollback, NoRewrite
<1>. QED  BY <1>3, <1>4, Zenon DEF SizeInv

LEMMA DownSize ==
    ASSUME IndInv, SizeInv, Down
    PROVE  SizeInv'
<1>1. /\ UNCHANGED <<dirVars, walVars>> /\ rw' = NoRewrite /\ main' = "down" /\ tree' = <<>>
      /\ walChan' = <<>> /\ batch' = <<>>
  BY DEF Down
<1>2. InFlight' = {}
  BY <1>1, RangeEmpty, Zenon DEF InFlight
<1>3. /\ LastIndex' = LastIndex /\ snaps' = snaps /\ main' \notin Rollback
      /\ Len(rw'.base) <= MaxHeight /\ Len(rw'.mtree) <= MaxHeight /\ Len(tree') <= MaxHeight
  BY <1>1, EmptySizes DEF LastIndex, walVars, dirVars, Rollback, NoRewrite
<1>. QED  BY <1>2, <1>3, Zenon DEF SizeInv

(* Loads. *)
LEMMA OpenedSize ==
    ASSUME SizeInv, Len(tree') <= MaxHeight, UNCHANGED <<dirVars, walVars, writerVars, rw>>,
           main' \in Rollback => tree' # <<>> /\ Version(tree)' = arg'
    PROVE  SizeInv'
<1>1. LastIndex' = LastIndex /\ snaps' = snaps /\ InFlight' = InFlight /\ rw' = rw
  BY QueueSame DEF LastIndex, walVars, dirVars, writerVars
<1>. QED  BY <1>1, Zenon DEF SizeInv

LEMMA LoadSize ==
    ASSUME IndInv, SizeInv,
           LoadLatest \/ \E v \in Targets : LoadTarget(v) \/ LoadForOverwriting(v)
    PROVE  SizeInv'
<1>1. CASE LoadLatest
  <2>1. /\ UNCHANGED <<dirVars, walVars, writerVars, rw>> /\ main' = "idle"
        /\ tree' = catchupWAL(snaps[current], 0) /\ current \in DOMAIN snaps
    BY <1>1 DEF LoadLatest, Opened
  <2>2. walLog \in Seq(ChangeSets) /\ snaps[current] \in Seq(ChangeSets)
    BY <2>1 DEF IndInv, TypeOK
  <2>3. Len(tree') <= MaxHeight
    BY <2>1, <2>2, CatchupAll DEF SizeInv
  <2>. QED  BY <2>1, <2>3, OpenedSize DEF Rollback
<1>2. ASSUME NEW v \in Targets, LoadTarget(v) PROVE SizeInv'
  <2>1. /\ UNCHANGED <<dirVars, walVars, writerVars, rw>> /\ main' = "idle"
        /\ tree' = LoadAt(v) /\ SnapshotsUpTo(v) # {}
    BY <1>2 DEF LoadTarget, Opened, LoadableAt
  <2>2. Len(tree') <= MaxHeight
    BY <2>1, LoadAtLength
  <2>. QED  BY <2>1, <2>2, OpenedSize DEF Rollback
<1>3. ASSUME NEW v \in Targets, LoadForOverwriting(v) PROVE SizeInv'
  <2>1. /\ UNCHANGED <<dirVars, walVars, writerVars, rw>> /\ arg' = v
        /\ tree' = LoadAt(v) /\ SnapshotsUpTo(v) # {} /\ InLog(walIndex(v))
    BY <1>3 DEF LoadForOverwriting, Opened, LoadableAt
  <2>2. tree' \in Seq(ChangeSets) /\ Len(tree') <= MaxHeight /\ Len(tree') = walIndex(v)
    BY <2>1, LoadAtLength
  <2>3. Len(tree') > 0
    BY <2>1, <2>2 DEF InLog
  <2>4. Version(tree') = v /\ tree' # <<>>
    BY <2>2, <2>3, VersionOfLength
  <2>5. Version(tree)' = Version(tree')
    BY DEF Version
  <2>. QED  BY <2>1, <2>2, <2>4, <2>5, OpenedSize
<1>. QED  BY <1>1, <1>2, <1>3

(* The rollback shortens the WAL to its target's index. *)
LEMMA RollbackSize ==
    ASSUME IndInv, SizeInv, RollbackLink \/ RollbackDelete \/ RollbackCut
    PROVE  SizeInv'
<1>1. /\ UNCHANGED <<arg, treeVars, writerVars, rw>> /\ main \in Rollback
  BY DEF RollbackLink, RollbackDelete, RollbackCut, rollbackFrame, Rollback
<1>2. \A v \in DOMAIN snaps' : v \in DOMAIN snaps /\ snaps'[v] = snaps[v]
  BY DEF RollbackLink, RollbackDelete, RollbackCut, dirVars, WithoutSnapshot, Restrict
<1>3. LastIndex' <= MaxHeight
  <2>1. CASE walLog' = walLog
    BY <2>1 DEF SizeInv, LastIndex
  <2>2. CASE RollbackCut
    <3>1. InLog(walIndex(arg)) /\ walIndex(arg) \in Nat /\ walLog \in Seq(ChangeSets)
      BY <1>1, WalIndexType DEF IndInv, TypeOK, MainInv
    <3>2. walIndex(arg) <= Len(walLog) /\ walIndex(arg) > 0
      BY <3>1 DEF InLog, LastIndex
    <3>3. walLog' = SubSeq(walLog, 1, walIndex(arg))
      BY <2>2 DEF RollbackCut
    <3>4. \A i \in 1..walIndex(arg) : walLog[i] \in ChangeSets
      BY <3>1, <3>2, ElementOfSeq, LenProperties
    <3>5. Len(walLog') = walIndex(arg)
      BY <3>1, <3>2, <3>3, <3>4, SubSeqProperties
    <3>. QED  BY <3>1, <3>2, <3>5, LenProperties, DBAssumption DEF SizeInv, LastIndex
  <2>. QED  BY <2>1, <2>2 DEF RollbackLink, RollbackDelete
<1>4. InFlight' = InFlight /\ Version(tree)' = Version(tree) /\ tree' = tree
  BY <1>1, QueueSame DEF writerVars, treeVars, Version
<1>. QED  BY <1>1, <1>2, <1>3, <1>4, Zenon DEF SizeInv

(* The background goroutines. *)
LEMMA BackgroundSize ==
    ASSUME IndInv, SizeInv,
           QuietWriter \/ QuietRewrite \/ RewriteRename \/ RewriteLink \/ QuietPrune \/ PruneRemove
    PROVE  SizeInv'
<1>. /\ TypeOK /\ walLog \in Seq(ChangeSets) /\ rw.mtree \in Seq(ChangeSets)
     /\ current \in DOMAIN snaps
  BY DEF IndInv, TypeOK, DirInv
<1>1. CASE QuietWriter
  <2>1. /\ UNCHANGED <<dirVars, walVars, main, arg, treeVars, rw>> /\ InFlight' \subseteq InFlight
    BY <1>1, QuietWriterEffect
  <2>2. Len(rw'.base) <= MaxHeight /\ Len(rw'.mtree) <= MaxHeight
    BY <2>1 DEF SizeInv
  <2>. QED  BY <2>1, <2>2, SizeFrame DEF dirVars, walVars, treeVars
<1>2. CASE QuietRewrite
  <2>1. /\ UNCHANGED <<dirVars, walVars, main, arg, treeVars, writerVars>>
        /\ \/ rw'.base = rw.base /\ rw'.mtree = rw.mtree
           \/ rw'.base = <<>> /\ rw'.mtree = <<>>
           \/ rw'.base = snaps[current] /\ rw'.mtree = snaps[current]
           \/ rw'.base = rw.base /\ rw'.mtree = catchupWAL(rw.mtree, 0)
    BY <1>2, QuietRewriteEffect
  <2>2. Len(catchupWAL(rw.mtree, 0)) <= MaxHeight
    BY CatchupAll DEF SizeInv
  <2>3. Len(rw'.base) <= MaxHeight /\ Len(rw'.mtree) <= MaxHeight
    BY <2>1, <2>2, EmptySizes DEF SizeInv
  <2>. QED  BY <2>1, <2>3, SizeFrame, QueueSame, SMTT(30) DEF dirVars, walVars, treeVars, writerVars
<1>3. CASE RewriteRename
  <2>1. /\ UNCHANGED <<walVars, main, arg, treeVars, writerVars>>
        /\ rw'.base = rw.base /\ rw'.mtree = rw.mtree
        /\ \A v \in DOMAIN snaps : v \in DOMAIN snaps' /\ snaps'[v] = snaps[v]
        /\ \A v \in DOMAIN snaps' : v \in DOMAIN snaps \/ snaps'[v] = rw.base
    BY <1>3, RewriteRenameEffect
  <2>2. \A v \in DOMAIN snaps' : Len(snaps'[v]) <= MaxHeight
    BY <2>1 DEF SizeInv
  <2>3. LastIndex' = LastIndex /\ InFlight' = InFlight /\ Version(tree)' = Version(tree) /\ tree' = tree
    BY <2>1, QueueSame DEF LastIndex, walVars, writerVars, treeVars, Version
  <2>. QED  BY <2>1, <2>2, <2>3, Zenon DEF SizeInv
<1>4. CASE RewriteLink
  <2>1. /\ UNCHANGED <<snaps, walVars, main, arg, treeVars, writerVars>>
        /\ rw'.base = rw.base /\ rw'.mtree = rw.mtree
    BY <1>4 DEF RewriteLink, rwFrame, TypeOK
  <2>2. Len(rw'.base) <= MaxHeight /\ Len(rw'.mtree) <= MaxHeight
    BY <2>1, SMTT(30) DEF SizeInv
  <2>. QED  BY <2>1, <2>2, SizeFrame, QueueSame DEF walVars, treeVars, writerVars
<1>5. CASE QuietPrune \/ PruneRemove
  <2>1. /\ UNCHANGED <<walLog, main, arg, treeVars, writerVars, rw>>
        /\ \A v \in DOMAIN snaps' : v \in DOMAIN snaps /\ snaps'[v] = snaps[v]
    BY <1>5, PruneEffect
  <2>2. Len(rw'.base) <= MaxHeight /\ Len(rw'.mtree) <= MaxHeight
    BY <2>1 DEF SizeInv
  <2>. QED  BY <2>1, <2>2, SizeFrame, QueueSame DEF treeVars, writerVars
<1>. QED  BY <1>1, <1>2, <1>3, <1>4, <1>5, SMTT(30)

(* Every step is of one of these groups. *)
LEMMA StepCases ==
    ASSUME Next
    PROVE  \/ \E cs \in ChangeSets : Commit(cs)
           \/ QuietCaller \/ SendWAL \/ SendWALQuit \/ rewriteIfApplicable \/ Flushed
           \/ WriteWALSync \/ WriterWrite \/ WriterFail
           \/ SwitchTree \/ Down
           \/ LoadLatest \/ \E v \in Targets : LoadTarget(v) \/ LoadForOverwriting(v)
           \/ RollbackLink \/ RollbackDelete \/ RollbackCut
           \/ QuietWriter \/ QuietRewrite \/ RewriteRename \/ RewriteLink
           \/ QuietPrune \/ PruneRemove
<1>1. CASE Caller
  BY <1>1, Zenon DEF Caller, QuietCaller, CloseDone
<1>2. CASE Writer \/ Rewrite \/ Prune
  BY <1>2, Zenon DEF Writer, Rewrite, Prune, QuietWriter, QuietRewrite, QuietPrune
<1>3. CASE CommitRefused \/ WaitAsyncCommit \/ Close \/ Crash
  BY <1>3, Zenon DEF QuietCaller, Crash
<1>. QED  BY <1>1, <1>2, <1>3, Zenon DEF Next

LEMMA StepSize == ASSUME IndInv, SizeInv, IndInv', [Next]_vars PROVE SizeInv'
<1>1. CASE Next
  BY <1>1, StepCases, CommitSize, CallerSize, WriteSteps, WriteSize, SwitchSize, DownSize,
     LoadSize, RollbackSize, BackgroundSize, Zenon
<1>2. CASE UNCHANGED vars
  <2>1. UNCHANGED <<walLog, tree, arg, snaps, rw, main>> /\ InFlight' = InFlight
    BY <1>2, QueueSame DEF vars, dirVars, walVars, treeVars, writerVars
  <2>2. Len(rw'.base) <= MaxHeight /\ Len(rw'.mtree) <= MaxHeight
    BY <2>1 DEF SizeInv
  <2>. QED  BY <2>1, <2>2, SizeFrame
<1>. QED  BY <1>1, <1>2

LEMMA InitSize == Init => SizeInv
<1>. SUFFICES ASSUME Init PROVE SizeInv
  OBVIOUS
<1>1. InFlight = {}
  BY RangeEmpty, Zenon DEF Init, InFlight
<1>. QED  BY <1>1, EmptySizes DEF Init, SizeInv, LastIndex, NoRewrite, Rollback

(* No history outgrows the chain's bound, so no WAL index in use is one    *)
(* that uint64 arithmetic wrapped around, and a rollback loads exactly the *)
(* tree of the version it rolls back to.                                   *)
THEOREM Sizes == Spec => []SizeInv
BY InitSize, StepSize, Invariance, PTL DEF Spec
=============================================================================
