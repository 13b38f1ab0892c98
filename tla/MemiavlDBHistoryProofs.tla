------------------------ MODULE MemiavlDBHistoryProofs ------------------------
(***************************************************************************)
(* memiavl.DB keeps the history of the chain through crashes, Loads,       *)
(* rollbacks and the background goroutines, and what the caller may rely   *)
(* on because of it.  From one step to the next only a rollback rewrites   *)
(* history, and what a Load would find on disk is a durable history.       *)
(***************************************************************************)
EXTENDS MemiavlDBDurable, MemiavlDBChainProofs

LEMMA DownHist ==
    ASSUME IndInv, HistInv, Down
    PROVE  HistInv'
<1>1. /\ UNCHANGED <<chain, durable, snaps, current, walLog>>
      /\ main' = "down" /\ walErr' = FALSE /\ walChan' = <<>> /\ batch' = <<>> /\ writer' = "none"
      /\ rw'.pc = "none"
  BY DEF Down, dirVars, walVars, NoRewrite
<1>2. InFlight' = {}
  BY <1>1, RangeEmpty DEF InFlight
<1>3. ChainInv'
  BY <1>1, <1>2, ChainFrame DEF HistInv
<1>4. AheadInv' /\ HeightInv'
  BY <1>1 DEF AheadInv, HeightInv, Serving
<1>5. DurableInv'
  <2>1. OnDisk(durable)' <=> OnDisk(durable)
    BY <1>1 DEF OnDisk, LastIndex
  <2>. QED  BY <1>1, <2>1 DEF HistInv, DurableInv, Committing
<1>6. QueueInv'
  BY <1>1 DEF QueueInv
<1>. QED  BY <1>3, <1>4, <1>5, <1>6 DEF HistInv

LEMMA LoadHist ==
    ASSUME IndInv, SizeInv, HistInv, ~TargetLoads,
           LoadLatest \/ \E v \in Targets : LoadTarget(v) \/ LoadForOverwriting(v)
    PROVE  HistInv'
<1>1. /\ UNCHANGED <<chain, durable, snaps, current, walLog, walErr, walChan, writer, batch, rw>>
      /\ main = "down" /\ InFlight' = InFlight
  BY QueueSame DEF LoadLatest, LoadTarget, LoadForOverwriting, Opened, dirVars, walVars, writerVars
<1>2. /\ InFlight = {} /\ writer = "none" /\ ~walErr /\ rw.pc = "none"
  BY <1>1, RangeEmpty DEF HistInv, QueueInv, Serving, InFlight, IndInv, MainInv
<1>3. \/ /\ tree' = catchupWAL(snaps[current], 0) /\ snapVer' = current
         /\ main' = "idle" /\ height' = Len(tree')
      \/ \E v \in Targets : /\ tree' = LoadAt(v) /\ SnapshotsUpTo(v) # {}
                            /\ main' = "rollbackLink"
  BY DEF LoadLatest, LoadTarget, LoadForOverwriting, Opened, LoadableAt
<1>4. /\ walLog \in Seq(ChangeSets) /\ snaps[current] \in Seq(ChangeSets)
      /\ PrefixOf(walLog, chain) /\ PrefixOf(snaps[current], chain)
      /\ Len(walLog) \in Nat /\ Len(snaps[current]) \in Nat
  BY Histories, LenProperties DEF HistInv, ChainInv
<1>5. PrefixOf(tree', chain)
  <2>1. PrefixOf(catchupWAL(snaps[current], 0), chain)
    BY <1>4, PrefixCatchup, 0 \in Nat, Zenon
  <2>2. \A v \in Targets : SnapshotsUpTo(v) # {} => PrefixOf(LoadAt(v), chain)
    BY PrefixLoadAt, TargetType DEF HistInv
  <2>. QED  BY <1>3, <2>1, <2>2
<1>6. ChainInv'
  BY <1>1, <1>2, <1>5, ChainFrame DEF HistInv
<1>7. /\ OnDisk(durable)'
      /\ OnDisk(durable)
  BY <1>1 DEF HistInv, DurableInv, OnDisk, LastIndex
<1>8. QueueInv'
  BY <1>1, <1>2, <1>3 DEF HistInv, QueueInv, Serving, Rollback
<1>9. CASE main' = "rollbackLink"
  <2>1. AheadInv' /\ HeightInv' /\ DurableInv'
    BY <1>7, <1>9 DEF AheadInv, HeightInv, DurableInv, Serving, Rollback, Committing
  <2>. QED  BY <1>6, <1>8, <2>1 DEF HistInv
<1>10. CASE /\ tree' = catchupWAL(snaps[current], 0) /\ snapVer' = current
            /\ main' = "idle" /\ height' = Len(tree')
  <2>1. Len(tree') = IF Len(snaps[current]) < LastIndex THEN LastIndex ELSE Len(snaps[current])
    BY <1>4, <1>10, CatchupAll
  <2>2. AheadInv'
    BY <1>1, <1>2, <1>4, <2>1 DEF AheadInv, LastIndex
  <2>3. HeightInv'
    <3>1. Version(snaps[current]) = current /\ tree' \in Seq(ChangeSets)
      BY <1>4, <1>10, PrefixCatchup, Histories DEF IndInv, DirInv
    <3>2. Version(snaps[current]) <= Version(tree')
      BY <1>4, <2>1, <3>1, VersionOrder DEF LastIndex
    <3>. QED  BY <1>10, <3>1, <3>2 DEF HeightInv
  <2>4. DurableInv'
    <3>1. Reaches(height)'
      BY <1>1, <1>4, <1>10, <2>1 DEF Reaches, OnDisk, LastIndex
    <3>. QED  BY <1>7, <1>10, <3>1 DEF DurableInv, Committing
  <2>. QED  BY <1>6, <1>8, <2>2, <2>3, <2>4 DEF HistInv
<1>. QED  BY <1>3, <1>9, <1>10

LEMMA RollbackHist ==
    ASSUME IndInv, SizeInv, HistInv, IndInv', RollbackLink \/ RollbackDelete \/ RollbackCut
    PROVE  HistInv'
<1>1. /\ UNCHANGED <<arg, tree, snapVer, walErr, walChan, writer, batch, rw>>
      /\ main \in {"rollbackLink", "rollbackDelete"} /\ main \in Rollback
      /\ \A v \in DOMAIN snaps' : v \in DOMAIN snaps /\ snaps'[v] = snaps[v]
      /\ InFlight' = InFlight
  BY QueueSame DEF RollbackLink, RollbackDelete, RollbackCut, rollbackFrame, Rollback,
         dirVars, treeVars, writerVars, WithoutSnapshot, Restrict
<1>2. InFlight = {} /\ writer = "none" /\ ~walErr /\ rw.pc = "none" /\ PrefixOf(tree, chain)
  BY <1>1, RangeEmpty DEF HistInv, QueueInv, ChainInv, Serving, InFlight, IndInv, MainInv
<1>3. QueueInv'
  <2>1. main' \in {"idle", "rollbackDelete"}
    BY DEF RollbackLink, RollbackDelete, RollbackCut
  <2>. QED  BY <1>1, <1>2, <2>1 DEF HistInv, QueueInv
<1>4. /\ chain \in Seq(ChangeSets) /\ walLog \in Seq(ChangeSets) /\ tree \in Seq(ChangeSets)
      /\ Len(chain) \in Nat /\ Len(walLog) \in Nat /\ Len(tree) \in Nat /\ durable \in Nat
  BY Histories, LenProperties
<1>5. Len(tree) <= LastIndex /\ Len(tree) > 0
  BY <1>1, RollbackTarget
<1>6. CASE RollbackLink \/ RollbackDelete
  <2>1. UNCHANGED <<chain, walLog>> /\ main' = "rollbackDelete"
    BY <1>6 DEF RollbackLink, RollbackDelete, chainVars
  <2>2. ChainInv'
    BY <1>1, <1>2, <2>1, ChainFrame DEF HistInv
  <2>3. AheadInv' /\ HeightInv'
    BY <2>1 DEF AheadInv, HeightInv, Serving, Rollback
  <2>4. DurableInv'
    <3>1. CASE RollbackLink
      <4>1. durable' = Min({durable, Len(tree)})
        BY <3>1 DEF RollbackLink
      <4>2. durable' \in Nat /\ durable' <= Len(tree)
        BY <1>4, <4>1, SMTT(30) DEF Min
      <4>. QED  BY <1>1, <1>4, <1>5, <2>1, <4>2 DEF DurableInv, OnDisk, LastIndex, Committing
    <3>2. CASE RollbackDelete
      <4>1. main = "rollbackDelete" /\ UNCHANGED <<durable, current>>
        BY <3>2 DEF RollbackDelete, chainVars
      <4>2. current \in DOMAIN snaps'
        BY <4>1, Histories DEF IndInv, DirInv
      <4>3. snaps'[current'] = snaps[current]
        BY <1>1, <4>1, <4>2
      <4>. QED  BY <1>1, <2>1, <4>1, <4>3 DEF HistInv, DurableInv, OnDisk, LastIndex, Committing
    <3>. QED  BY <1>6, <3>1, <3>2
  <2>. QED  BY <1>3, <2>2, <2>3, <2>4 DEF HistInv
<1>7. CASE RollbackCut
  <2>1. /\ UNCHANGED <<durable, snaps, current>> /\ main = "rollbackDelete" /\ main' = "idle"
        /\ height' = Len(tree) /\ chain' = SubSeq(chain, 1, Min({Len(chain), Len(tree)}))
    BY <1>7 DEF RollbackCut, dirVars
  <2>2. /\ walLog' \in Seq(ChangeSets) /\ LastIndex' = Len(tree) /\ Len(tree) <= LastIndex
        /\ \A i \in 1..Len(tree) : walLog'[i] = walLog[i]
        /\ \A v \in DOMAIN snaps : Len(snaps[v]) <= Len(tree)
    BY <1>7, RollbackCutEntries
  <2>3. /\ chain' \in Seq(ChangeSets) /\ Len(chain') = Len(tree)
        /\ \A i \in 1..Len(tree) : chain'[i] = chain[i]
    <3>1. Len(tree) <= Len(chain) /\ Min({Len(chain), Len(tree)}) = Len(tree)
      <4>1. Len(tree) <= Len(chain)
        BY <1>2 DEF PrefixOf
      <4>. QED  BY <1>4, <4>1 DEF Min
    <3>2. chain' = SubSeq(chain, 1, Len(tree))
      BY <2>1, <3>1, Zenon
    <3>. QED  BY <1>4, <3>1, <3>2, PrefixCut
  <2>4. ASSUME NEW h \in Seq(ChangeSets), PrefixOf(h, chain), Len(h) <= Len(tree)
        PROVE  PrefixOf(h, chain')
    <3>1. Len(h) \in Nat
      BY LenProperties
    <3>. QED  BY <1>4, <2>3, <2>4, <3>1 DEF PrefixOf
  <2>5. PrefixOf(walLog', chain')
    <3>1. \A i \in 1..Len(tree) : walLog[i] = chain[i]
      BY <1>4, <2>2 DEF HistInv, ChainInv, PrefixOf, LastIndex
    <3>. QED  BY <1>4, <2>2, <2>3, <3>1 DEF PrefixOf, LastIndex
  <2>6. PrefixOf(tree', chain') /\ \A v \in DOMAIN snaps' : PrefixOf(snaps'[v], chain')
    <3>1. PrefixOf(tree, chain')
      BY <1>2, <1>4, <2>4
    <3>2. \A v \in DOMAIN snaps : snaps[v] \in Seq(ChangeSets) /\ PrefixOf(snaps[v], chain)
      BY Histories DEF HistInv, ChainInv
    <3>3. \A v \in DOMAIN snaps : PrefixOf(snaps[v], chain')
      BY <2>2, <2>4, <3>2, Zenon
    <3>4. tree' = tree /\ snaps' = snaps
      BY <1>1, <2>1
    <3>. QED  BY <3>1, <3>3, <3>4, Zenon
  <2>7. ChainInv'
    BY <1>1, <1>2, <2>5, <2>6 DEF ChainInv
  <2>8. AheadInv'
    BY <1>1, <1>2, <1>4, <2>1, <2>2, Histories, SMTT(30) DEF AheadInv
  <2>9. HeightInv'
    <3>1. snapVer <= Version(tree)
      BY <1>1 DEF IndInv, MainInv, SizeInv
    <3>2. Version(tree') = Version(tree)
      BY <1>1
    <3>. QED  BY <1>1, <2>1, <3>1, <3>2, SMTT(30) DEF HeightInv
  <2>10. DurableInv'
    BY <1>1, <1>4, <2>1, <2>2 DEF HistInv, DurableInv, OnDisk, Reaches, Committing
  <2>. QED  BY <1>3, <2>7, <2>8, <2>9, <2>10, SMTT(30) DEF HistInv
<1>. QED  BY <1>6, <1>7

LEMMA QuietWriterHist ==
    ASSUME IndInv, HistInv, QuietWriter
    PROVE  HistInv'
<1>1. /\ UNCHANGED <<chain, height, durable, snaps, current, walLog, main, arg, tree, snapVer, rw>>
      /\ InFlight' = InFlight
  BY QuietWriterEffect
     DEF chainVars, dirVars, walVars, treeVars, IndInv, HistInv, QueueInv, WriterRecv
<1>2. Serving
  BY DEF QuietWriter, WriterRecv, WriterDrain, WriterLatch, WriterClosed, WriterExit,
         HistInv, QueueInv
<1>3. ChainInv'
  BY <1>1, ChainFrame DEF HistInv, ChainInv
<1>4. AheadInv'
  BY <1>1, <1>2, AheadFrame, Histories DEF HistInv, Serving
<1>5. HeightInv'
  BY <1>1 DEF HistInv, HeightInv, LastIndex
<1>6. DurableInv'
  <2>1. /\ OnDisk(durable)' <=> OnDisk(durable)
        /\ Reaches(height)' <=> Reaches(height)
        /\ Reaches(height + 1)' <=> Reaches(height + 1)
    BY <1>1 DEF OnDisk, Reaches, LastIndex
  <2>2. ~walErr' /\ writer' # "latch" => ~walErr /\ writer # "latch"
    BY DEF QuietWriter, WriterRecv, WriterDrain, WriterLatch, WriterClosed, WriterExit
  <2>. QED  BY <1>1, <2>1, <2>2, SMTT(30) DEF HistInv, DurableInv
<1>7. QueueInv'
  <2>1. CASE WriterRecv \/ WriterDrain
    BY <1>1, <1>2, <2>1, SMTT(30) DEF HistInv, QueueInv, WriterRecv, WriterDrain, Serving
  <2>2. CASE WriterLatch
    BY <1>1, <1>2, <2>2 DEF HistInv, QueueInv, WriterLatch, Serving
  <2>3. CASE WriterClosed \/ WriterExit
    BY <1>1, <1>2, <2>3, SMTT(30) DEF HistInv, QueueInv, WriterClosed, WriterExit, Serving, ChanClosed
  <2>. QED  BY <2>1, <2>2, <2>3, SMTT(30) DEF QuietWriter
<1>. QED  BY <1>3, <1>4, <1>5, <1>6, <1>7 DEF HistInv

LEMMA QuietRewriteHist ==
    ASSUME IndInv, HistInv, QuietRewrite
    PROVE  HistInv'
<1>1. /\ UNCHANGED <<chain, height, durable, snaps, current, walLog, main, tree, snapVer,
                     walErr, walChan, writer, batch>>
      /\ \/ rw.pc = "write" /\ rw'.pc = "rename" /\ rw'.base = rw.base
         \/ rw'.pc \in {"closed", "error"}
         \/ rw'.pc = "catchup" /\ rw'.mtree = snaps[current]
         \/ rw.pc = "catchup" /\ rw'.pc = "result" /\ rw'.mtree = catchupWAL(rw.mtree, 0)
      /\ InFlight' = InFlight
  BY QuietRewriteEffect, QueueSame
     DEF IndInv, chainVars, dirVars, walVars, treeVars, writerVars
<1>2. Serving
  <2>1. rw.pc # "none"
    BY DEF QuietRewrite, RewriteWrite, RewriteFail, RewriteLoad, RewriteCatchup, RewriteLoadFail
  <2>. QED  BY <2>1 DEF IndInv, MainInv, Serving
<1>3. /\ walLog \in Seq(ChangeSets) /\ rw.mtree \in Seq(ChangeSets)
      /\ PrefixOf(walLog, chain) /\ PrefixOf(snaps[current], chain) /\ Len(rw.mtree) \in Nat
  BY Histories, LenProperties DEF HistInv, ChainInv
<1>4. ASSUME rw.pc = "catchup"
      PROVE  PrefixOf(catchupWAL(rw.mtree, 0), chain) /\ Len(catchupWAL(rw.mtree, 0)) <= Len(tree)
  <2>1. PrefixOf(rw.mtree, chain) /\ Len(rw.mtree) <= Len(tree) /\ LastIndex <= Len(tree)
    BY <1>2, <1>4 DEF HistInv, ChainInv, AheadInv
  <2>2. PrefixOf(catchupWAL(rw.mtree, 0), chain)
    BY <1>3, <2>1, PrefixCatchup, 0 \in Nat, Zenon
  <2>3. Len(catchupWAL(rw.mtree, 0)) = IF Len(rw.mtree) < LastIndex THEN LastIndex ELSE Len(rw.mtree)
    BY <1>3, CatchupAll
  <2>. QED  BY <2>1, <2>2, <2>3
<1>5. ChainInv'
  <2>1. /\ rw'.pc \in {"write", "rename", "link"} => PrefixOf(rw'.base, chain')
        /\ rw'.pc \in {"catchup", "result"} => PrefixOf(rw'.mtree, chain')
    BY <1>1, <1>3, <1>4 DEF HistInv, ChainInv
  <2>2. /\ PrefixOf(walLog', chain') /\ \A v \in DOMAIN snaps' : PrefixOf(snaps'[v], chain')
        /\ main' # "down" => PrefixOf(tree', chain')
        /\ \A e \in InFlight' : e.index \in 1..Len(tree') /\ e.data = chain'[e.index]
    BY <1>1 DEF HistInv, ChainInv
  <2>. QED  BY <2>1, <2>2, Zenon DEF ChainInv
<1>6. AheadInv'
  <2>1. LastIndex <= Len(tree) /\ Len(snaps[current]) <= Len(tree)
    BY <1>2 DEF HistInv, AheadInv
  <2>2. /\ rw'.pc \in {"write", "rename", "link"} => Len(snaps[current]) <= Len(rw'.base)
        /\ rw'.pc \in {"catchup", "result"} => Len(rw'.mtree) <= Len(tree)
    BY <1>1, <1>2, <1>4, <2>1, SMTT(30) DEF HistInv, AheadInv
  <2>. QED  BY <1>1, <2>1, <2>2, SMTT(30) DEF AheadInv, LastIndex
<1>7. HeightInv'
  BY <1>1 DEF HistInv, HeightInv, LastIndex
<1>8. DurableInv'
  <2>1. /\ OnDisk(durable)' <=> OnDisk(durable)
        /\ Reaches(height)' <=> Reaches(height)
        /\ Reaches(height + 1)' <=> Reaches(height + 1)
    BY <1>1 DEF OnDisk, Reaches, LastIndex
  <2>. QED  BY <1>1, <2>1 DEF HistInv, DurableInv
<1>9. QueueInv'
  BY <1>1 DEF HistInv, QueueInv, Serving, ChanClosed
<1>. QED  BY <1>5, <1>6, <1>7, <1>8, <1>9 DEF HistInv

(* The rename adds a snapshot of blocks of the chain, and the link moves   *)
(* `current` to it, or to one that is not older than it was.               *)
LEMMA RenameLinkHist ==
    ASSUME IndInv, HistInv, RewriteRename \/ RewriteLink
    PROVE  HistInv'
<1>1. /\ UNCHANGED <<chain, height, durable, walLog, main, tree, snapVer,
                     walErr, walChan, writer, batch>>
      /\ rw'.base = rw.base /\ InFlight' = InFlight /\ rw.pc \in {"rename", "link"}
  BY QueueSame, SMTT(30)
     DEF RewriteRename, RewriteLink, rwFrame, chainVars, walVars, treeVars, writerVars,
         IndInv, TypeOK
<1>2. /\ Serving /\ PrefixOf(rw.base, chain) /\ Len(snaps[current]) <= Len(rw.base)
      /\ Len(rw.base) <= Len(tree) /\ current \in DOMAIN snaps
  BY <1>1 DEF IndInv, MainInv, RewriteInv, DirInv, Serving, HistInv, ChainInv, AheadInv
<1>3. Len(snaps[current]) \in Nat /\ Len(rw.base) \in Nat
  BY Lengths, SMTT(30)
<1>4. /\ \A v \in DOMAIN snaps' :
           (v \in DOMAIN snaps /\ snaps'[v] = snaps[v]) \/ snaps'[v] = rw.base
      /\ \/ rw'.pc = "link" /\ current' = current /\ snaps'[current'] = snaps[current]
         \/ rw'.pc = "load" /\ snaps'[current'] = rw.base
  <2>1. CASE RewriteRename
    <3>1. /\ UNCHANGED current /\ rw'.pc = "link"
          /\ \A v \in DOMAIN snaps : v \in DOMAIN snaps' /\ snaps'[v] = snaps[v]
          /\ \A v \in DOMAIN snaps' :
               v \in DOMAIN snaps \/ (v = Version(rw.base) /\ snaps'[v] = rw.base)
      BY <2>1, RewriteRenameEffect, Zenon DEF IndInv
    <3>. QED  BY <1>2, <3>1
  <2>2. CASE RewriteLink
    <3>1. UNCHANGED snaps /\ current' = Version(rw.base) /\ rw'.pc = "load" /\ rw.pc = "link"
      BY <2>2 DEF RewriteLink, IndInv, TypeOK
    <3>2. snaps[Version(rw.base)] = rw.base
      BY <3>1 DEF IndInv, RewriteInv
    <3>. QED  BY <3>1, <3>2
  <2>. QED  BY <2>1, <2>2
<1>5. ChainInv'
  <2>1. \A v \in DOMAIN snaps' : PrefixOf(snaps'[v], chain')
    BY <1>1, <1>2, <1>4 DEF HistInv, ChainInv
  <2>2. rw'.pc \in {"link", "load"} /\ PrefixOf(rw'.base, chain')
    BY <1>1, <1>2, <1>4, SMTT(30)
  <2>. QED  BY <1>1, <2>1, <2>2, SMTT(30) DEF HistInv, ChainInv
<1>6. AheadInv'
  BY <1>1, <1>2, <1>4 DEF HistInv, AheadInv, LastIndex
<1>7. HeightInv'
  BY <1>1 DEF HistInv, HeightInv, LastIndex
<1>8. DurableInv'
  <2>1. Len(snaps[current]) <= Len(snaps'[current']) /\ Len(snaps'[current']) \in Nat
    BY <1>2, <1>3, <1>4
  <2>2. height \in Nat /\ durable \in Nat /\ Len(walLog) \in Nat
    BY Histories, LenProperties
  <2>3. /\ OnDisk(durable) => OnDisk(durable)'
        /\ Reaches(height) => Reaches(height)'
        /\ Reaches(height + 1) => Reaches(height + 1)'
    BY <1>1, <1>3, <2>1, <2>2, SMTT(30) DEF OnDisk, Reaches, LastIndex
  <2>. QED  BY <1>1, <2>3 DEF HistInv, DurableInv
<1>9. QueueInv'
  BY <1>1 DEF HistInv, QueueInv, Serving, ChanClosed
<1>. QED  BY <1>5, <1>6, <1>7, <1>8, <1>9, SMTT(30) DEF HistInv

LEMMA PruneHist ==
    ASSUME IndInv, HistInv, IndInv', QuietPrune \/ PruneRemove
    PROVE  HistInv'
<1>1. /\ UNCHANGED <<chain, height, durable, current, walLog, main, tree, snapVer,
                     walErr, walChan, writer, batch, rw>>
      /\ \A v \in DOMAIN snaps' : v \in DOMAIN snaps /\ snaps'[v] = snaps[v]
      /\ InFlight' = InFlight
  BY PruneEffect, QueueSame DEF chainVars, treeVars, writerVars
<1>2. current \in DOMAIN snaps' /\ snaps'[current'] = snaps[current]
  BY <1>1, ZenonT(40) DEF IndInv, DirInv
<1>3. ChainInv'
  BY <1>1, ChainFrame DEF HistInv, ChainInv
<1>4. AheadInv'
  BY <1>1, <1>2 DEF HistInv, AheadInv, LastIndex, Serving
<1>5. HeightInv'
  BY <1>1 DEF HistInv, HeightInv, LastIndex
<1>6. DurableInv'
  <2>1. /\ OnDisk(durable)' <=> OnDisk(durable)
        /\ Reaches(height)' <=> Reaches(height)
        /\ Reaches(height + 1)' <=> Reaches(height + 1)
    BY <1>1, <1>2 DEF OnDisk, Reaches, LastIndex
  <2>. QED  BY <1>1, <2>1 DEF HistInv, DurableInv
<1>7. QueueInv'
  BY <1>1 DEF HistInv, QueueInv, Serving, ChanClosed
<1>. QED  BY <1>3, <1>4, <1>5, <1>6, <1>7, SMTT(30) DEF HistInv

LEMMA StepHist ==
    ASSUME IndInv, SizeInv, HistInv, IndInv', ~TargetLoads, [Next]_vars
    PROVE  HistInv'
<1>1. CASE UNCHANGED vars
  <2>1. /\ UNCHANGED <<chain, height, durable, snaps, current, walLog, main, tree, snapVer,
                       walErr, walChan, writer, batch, rw>>
        /\ InFlight' = InFlight
    BY <1>1, QueueSame DEF vars, chainVars, dirVars, walVars, treeVars, writerVars
  <2>2. ChainInv' /\ AheadInv'
    BY <2>1 DEF HistInv, ChainInv, AheadInv, LastIndex, Serving
  <2>3. HeightInv' /\ QueueInv'
    BY <2>1 DEF HistInv, HeightInv, QueueInv, LastIndex, Serving, ChanClosed
  <2>4. DurableInv'
    BY <2>1 DEF HistInv, DurableInv, OnDisk, Reaches, LastIndex
  <2>. QED  BY <2>2, <2>3, <2>4 DEF HistInv
<1>2. ASSUME NEW b \in Seq(WalEntries), WriteStep(b) PROVE HistInv'
  BY <1>2, WriteHist
<1>3. CASE Next
  BY <1>2, <1>3, StepCases, WriteSteps, CommitHist, QuietCallerHist, SendHist, SendQuitHist,
     rewriteIfApplicableHist, FlushedHist, SwitchHist, DownHist, LoadHist, RollbackHist,
     QuietWriterHist, QuietRewriteHist, RenameLinkHist, PruneHist, Zenon
<1>. QED  BY <1>1, <1>3

LEMMA InitHist == ASSUME Init PROVE HistInv
<1>1. /\ chain = <<>> /\ walLog = <<>> /\ durable = 0 /\ main = "down" /\ rw.pc = "none"
      /\ ~walErr /\ walChan = <<>> /\ batch = <<>> /\ writer = "none"
      /\ \A v \in DOMAIN snaps : snaps[v] = <<>>
  BY DEF Init, NoRewrite
<1>2. InFlight = {}
  BY <1>1, RangeEmpty DEF InFlight
<1>3. PrefixOf(<<>>, <<>>)
  BY DEF PrefixOf
<1>4. ChainInv
  BY <1>1, <1>2, <1>3, SMTT(30) DEF ChainInv
<1>5. AheadInv /\ HeightInv /\ QueueInv
  BY <1>1 DEF AheadInv, HeightInv, QueueInv, Serving, Rollback
<1>6. DurableInv
  BY <1>1 DEF DurableInv, OnDisk, LastIndex, Committing
<1>. QED  BY <1>4, <1>5, <1>6, SMTT(30) DEF HistInv

(* Unless it is loaded at an older version for writing, a DB keeps blocks  *)
(* of one chain, in its directory, in memory and on the way to the WAL,    *)
(* and its tree, its snapshots and its WAL do not get ahead of each other: *)
(* the inductive invariant of the results below.                           *)
THEOREM HistoryInvariance ==
    ASSUME ~TargetLoads
    PROVE  Spec => []HistInv
<1>1. ~TargetLoads
  OBVIOUS
<1>. QED  BY <1>1, InitHist, StepHist, Invariance, Sizes, PTL DEF Spec

-----------------------------------------------------------------------------
(* What the invariant says of a Load. *)

(* A Load of the latest version finds what the current snapshot or the WAL *)
(* reaches, and these are blocks of the chain.                             *)
LEMMA RecoveredBlocks ==
    ASSUME IndInv, HistInv
    PROVE  /\ Recovered \in Seq(ChangeSets) /\ PrefixOf(Recovered, chain)
           /\ Len(Recovered) = IF Len(snaps[current]) < LastIndex
                               THEN LastIndex ELSE Len(snaps[current])
<1>1. /\ walLog \in Seq(ChangeSets) /\ snaps[current] \in Seq(ChangeSets)
      /\ PrefixOf(walLog, chain) /\ PrefixOf(snaps[current], chain)
  BY Histories DEF HistInv, ChainInv
<1>2. /\ catchupWAL(snaps[current], 0) \in Seq(ChangeSets)
      /\ PrefixOf(catchupWAL(snaps[current], 0), chain)
  BY <1>1, PrefixCatchup, 0 \in Nat, Zenon
<1>3. Len(catchupWAL(snaps[current], 0))
        = IF Len(snaps[current]) < LastIndex THEN LastIndex ELSE Len(snaps[current])
  BY <1>1, CatchupAll
<1>. QED  BY <1>2, <1>3 DEF Recovered

(* A version in the WAL that is not older than every snapshot. *)
LEMMA RetainedVersion ==
    ASSUME IndInv, NEW v \in Targets, SnapshotsUpTo(v) # {},
           InitialVersion <= v, v <= walVersion(LastIndex)
    PROVE  LoadableAt(v) /\ LoadAt(v) \in Seq(ChangeSets) /\ Len(LoadAt(v)) = walIndex(v)
<1>. DEFINE s == seekSnapshot(v)  h == snaps[s]
<1>1. v \in Nat /\ v > 0 /\ LastIndex \in Nat /\ InitialVersion \in Nat
  BY TargetType, LastIndexType, DBAssumption, SMTT(30) DEF Targets
<1>2. walIndex(v) \in Nat /\ walIndex(v) > 0 /\ walIndex(v) <= LastIndex
      /\ walVersion(walIndex(v)) = v
  BY <1>1, SMTT(30) DEF walIndex, walVersion, uint64
<1>3. s \in DOMAIN snaps /\ s <= v /\ s \in Nat
  BY <1>1, SeekSnapshot, SMTT(30) DEF IndInv, TypeOK
<1>4. h \in Seq(ChangeSets) /\ Version(h) = s /\ walFirst <= Len(h) + 1 /\ Len(h) \in Nat
  BY <1>3, LenProperties, SMTT(30) DEF IndInv, TypeOK, DirInv
<1>. HIDE DEF s, h
<1>5. CASE v > Version(h)
  <2>1. Len(h) < walIndex(v)
    <3>1. h = <<>> \/ Version(h) = walVersion(Len(h))
      BY DEF Version
    <3>. QED  BY <1>1, <1>2, <1>4, <1>5, <3>1 DEF walVersion
  <2>2. CatchupTo(v) = walIndex(v) /\ CatchupFrom(h) = Len(h) + 1
    BY <1>1, <1>2, <1>4, CatchupFromNext DEF CatchupTo
  <2>3. CatchupOK(h, v)
    BY <1>2, <1>4, <2>1, <2>2, SMTT(30) DEF CatchupOK
  <2>4. walLog \in Seq(ChangeSets)
    BY DEF IndInv, TypeOK
  <2>5. /\ catchupWAL(h, v) \in Seq(ChangeSets)
        /\ Len(catchupWAL(h, v)) = IF Len(h) < LastIndex /\ Len(h) < CatchupTo(v)
                                   THEN CatchupTo(v) ELSE Len(h)
    BY <1>1, <1>4, <2>4, CatchupEntries, ZenonT(40)
  <2>6. Len(catchupWAL(h, v)) = walIndex(v)
    BY <1>1, <1>2, <1>4, <2>1, <2>2, <2>5, SMTT(30)
  <2>7. LoadAt(v) = catchupWAL(h, v)
    BY <1>5 DEF LoadAt, h, s
  <2>. QED  BY <2>3, <2>5, <2>6, <2>7, SMTT(30) DEF LoadableAt, h, s
<1>6. CASE ~(v > Version(h))
  <2>1. Version(h) = v
    BY <1>1, <1>3, <1>4, <1>6
  <2>2. h # <<>>
    BY <1>1, <2>1, DBAssumption DEF Version
  <2>3. Len(h) = walIndex(v)
    BY <1>4, <2>1, <2>2, IndexOfVersion, SMTT(30)
  <2>4. LoadAt(v) = h /\ LoadableAt(v)
    BY <1>6 DEF LoadAt, LoadableAt, h, s
  <2>. QED  BY <1>4, <2>3, <2>4
<1>. QED  BY <1>5, <1>6

-----------------------------------------------------------------------------
(* Whatever the writer, the rewrite, the prune or a rollback were doing    *)
(* when the process died, the next Load of the latest version finds blocks *)
(* of the chain, and among them every block whose commit was acknowledged: *)
(* by Commit when it writes the WAL itself, by WaitAsyncCommit or Close    *)
(* otherwise.                                                              *)
THEOREM AcknowledgedBlocksKept ==
    ASSUME ~TargetLoads
    PROVE  Spec => []CommittedBlocksKept
<1>1. ASSUME IndInv, HistInv PROVE CommittedBlocksKept
  <2>1. /\ Recovered \in Seq(ChangeSets) /\ PrefixOf(Recovered, chain)
        /\ Len(Recovered) = IF Len(snaps[current]) < LastIndex
                            THEN LastIndex ELSE Len(snaps[current])
    BY <1>1, RecoveredBlocks
  <2>2. durable <= Len(Recovered)
    <3>1. durable \in Nat /\ LastIndex \in Nat /\ Len(snaps[current]) \in Nat
      BY <1>1, Histories, Lengths, LastIndexType, SMTT(30)
    <3>. QED  BY <1>1, <2>1, <3>1, SMTT(30) DEF HistInv, DurableInv, OnDisk
  <2>3. Len(Recovered) <= Len(chain)
    BY <2>1 DEF PrefixOf
  <2>4. Recovered = SubSeq(chain, 1, Len(Recovered))
    BY <1>1, <2>1, PrefixIs, Histories, SMTT(30)
  <2>. QED  BY <2>2, <2>3, <2>4 DEF CommittedBlocksKept, ChainUpTo
<1>. QED  BY <1>1, Invariance, HistoryInvariance, PTL

(* A caller that is not inside a call sees the trees of the blocks it      *)
(* committed, also right after checkBackgroundSnapshotRewrite switched it  *)
(* to the tree loaded from the new snapshot.                               *)
THEOREM CallerSeesChain ==
    ASSUME ~TargetLoads
    PROVE  Spec => []TreeMatchesChain
<1>1. ASSUME IndInv, HistInv PROVE TreeMatchesChain
  <2>1. ASSUME main = "idle" PROVE height <= Len(chain) /\ tree = ChainUpTo(height)
    <3>1. PrefixOf(tree, chain) /\ Len(tree) = height
      BY <1>1, <2>1 DEF HistInv, ChainInv, HeightInv
    <3>2. tree = SubSeq(chain, 1, Len(tree))
      BY <1>1, <3>1, PrefixIs, Histories
    <3>. QED  BY <3>1, <3>2, SMTT(30) DEF ChainUpTo, PrefixOf
  <2>. QED  BY <2>1 DEF TreeMatchesChain
<1>. QED  BY <1>1, Invariance, HistoryInvariance, PTL

(* Every version from the earliest snapshot to the end of the WAL can be   *)
(* loaded, and is the block of that version: pruneSnapshots never cuts the *)
(* WAL above the oldest snapshot it kept, nor a rollback below its target. *)
THEOREM VersionsLoadable ==
    ASSUME ~TargetLoads
    PROVE  Spec => []RetainedVersionsLoadable
<1>1. ASSUME IndInv, HistInv PROVE RetainedVersionsLoadable
  <2>1. ASSUME NEW v \in Targets, Min(DOMAIN snaps) <= v, InitialVersion <= v,
               v <= walVersion(LastIndex)
        PROVE  LoadableAt(v) /\ LoadAt(v) = ChainUpTo(walIndex(v))
    <3>1. SnapshotsUpTo(v) # {}
      <4>1. DOMAIN snaps \in SUBSET Nat /\ DOMAIN snaps # {}
        BY <1>1, Histories DEF IndInv, TypeOK
      <4>2. Min(DOMAIN snaps) \in DOMAIN snaps
        BY <4>1, MinOfNats
      <4>. QED  BY <2>1, <4>2, ZenonT(40) DEF SnapshotsUpTo
    <3>2. LoadableAt(v) /\ LoadAt(v) \in Seq(ChangeSets) /\ Len(LoadAt(v)) = walIndex(v)
      BY <1>1, <2>1, <3>1, RetainedVersion
    <3>3. PrefixOf(LoadAt(v), chain)
      BY <1>1, <3>1, PrefixLoadAt, TargetType, SMTT(30) DEF HistInv
    <3>4. LoadAt(v) = SubSeq(chain, 1, Len(LoadAt(v)))
      BY <1>1, <3>2, <3>3, PrefixIs, Histories
    <3>. QED  BY <3>2, <3>4 DEF ChainUpTo
  <2>. QED  BY <2>1 DEF RetainedVersionsLoadable
<1>. QED  BY <1>1, Invariance, HistoryInvariance, PTL

(* The comment on DB.walReader, "the LastIndex always match the current    *)
(* version of MultiTree", holds between calls when Commit writes the WAL   *)
(* itself.  (An asynchronous writer can fall behind a snapshot, and a Load *)
(* then starts ahead of the WAL.)                                          *)
THEOREM WALMatchesTree ==
    ASSUME ~TargetLoads, ~Async
    PROVE  Spec => []LastIndexMatches
<1>1. ASSUME IndInv, SyncInv, HistInv PROVE LastIndexMatches
  <2>1. ASSUME main = "idle", tree # <<>> PROVE LastIndex = walIndex(Version(tree))
    <3>1. Len(tree) <= LastIndex /\ LastIndex <= Len(tree)
      BY <1>1, <2>1 DEF SyncInv, HistInv, AheadInv, Serving, Rollback
    <3>2. LastIndex \in Nat /\ Len(tree) \in Nat /\ tree \in Seq(ChangeSets)
      BY <1>1, LastIndexType, Lengths, Histories
    <3>. QED  BY <2>1, <3>1, <3>2, IndexOfVersion, SMTT(30)
  <2>. QED  BY <2>1 DEF LastIndexMatches
<1>2. ~Async
  OBVIOUS
<1>. QED  BY <1>1, <1>2, InitSync, StepSync, Sizes, Invariance, HistoryInvariance, PTL DEF Spec

-----------------------------------------------------------------------------

(* Facts about a Load, for the state after a step. *)
LEMMA RecoveredImplication ==
    IndInv /\ HistInv =>
        /\ Recovered \in Seq(ChangeSets) /\ PrefixOf(Recovered, chain)
        /\ Len(Recovered) = IF Len(snaps[current]) < LastIndex
                            THEN LastIndex ELSE Len(snaps[current])
BY RecoveredBlocks, Zenon

LEMMA RecoveredNext ==
    ASSUME IndInv', HistInv'
    PROVE  /\ Recovered' \in Seq(ChangeSets) /\ PrefixOf(Recovered', chain')
           /\ Len(Recovered') = IF Len(snaps'[current']) < LastIndex'
                                THEN LastIndex' ELSE Len(snaps'[current'])
<1>1. IndInv' /\ HistInv' =>
        (/\ Recovered \in Seq(ChangeSets) /\ PrefixOf(Recovered, chain)
         /\ Len(Recovered) = IF Len(snaps[current]) < LastIndex
                             THEN LastIndex ELSE Len(snaps[current]))'
  BY RecoveredImplication, PTL
<1>. QED  BY <1>1

(* The versions in the WAL that are not older than every snapshot. *)
LoadsOfChain ==
    \A v \in Targets :
        SnapshotsUpTo(v) # {} /\ InitialVersion <= v /\ v <= walVersion(LastIndex) =>
            /\ LoadableAt(v) /\ LoadAt(v) \in Seq(ChangeSets)
            /\ Len(LoadAt(v)) = walIndex(v) /\ PrefixOf(LoadAt(v), chain)

LEMMA LoadImplication == IndInv /\ HistInv => LoadsOfChain
BY RetainedVersion, PrefixLoadAt, TargetType DEF HistInv, LoadsOfChain

LEMMA LoadNext ==
    ASSUME IndInv', HistInv'
    PROVE  LoadsOfChain'
BY LoadImplication, PTL

-----------------------------------------------------------------------------
(* Steps in and outside a rollback. *)

(* A rollback is alone: there is no writer, rewrite or prune beside it. *)
LEMMA RollbackSteps ==
    ASSUME IndInv, HistInv, main \in Rollback, Next
    PROVE  Down \/ RollbackLink \/ RollbackDelete \/ RollbackCut
<1>1. rw.pc = "none" /\ prune.pc = "none" /\ writer = "none" /\ main \in {"rollbackLink", "rollbackDelete"}
  BY DEF IndInv, MainInv, HistInv, QueueInv, Serving, Rollback
<1>2. ~QuietCaller
  BY <1>1, QuietCallerEffect
<1>3. ~QuietWriter /\ ~QuietRewrite /\ ~RewriteRename /\ ~RewriteLink /\ ~QuietPrune /\ ~PruneRemove
  BY <1>1, SMTT(30) DEF QuietWriter, WriterRecv, WriterDrain, WriterLatch, WriterClosed, WriterExit,
              QuietRewrite, RewriteWrite, RewriteFail, RewriteLoad, RewriteCatchup,
              RewriteLoadFail, RewriteRename, RewriteLink,
              QuietPrune, PruneRead, PruneList, PruneScan, PruneCut, PruneAbort, PruneRemove
<1>4. /\ ~\E cs \in ChangeSets : Commit(cs)
      /\ ~SendWAL /\ ~SendWALQuit /\ ~rewriteIfApplicable /\ ~Flushed /\ ~WriteWALSync
      /\ ~WriterWrite /\ ~WriterFail /\ ~SwitchTree /\ ~LoadLatest
      /\ ~\E v \in Targets : LoadTarget(v) \/ LoadForOverwriting(v)
  BY <1>1 DEF Commit, SendWAL, SendWALQuit, rewriteIfApplicable, Flushed, ChanClosed,
              WriteWALSync, WriterWrite, WriterFail, SwitchTree, LoadLatest, LoadTarget,
              LoadForOverwriting
<1>. QED  BY <1>2, <1>3, <1>4, StepCases, Zenon

(* Outside a rollback the disk only moves forward: the chain, the WAL and  *)
(* the current snapshot grow, and the snapshot that was current is kept.   *)
Forward ==
    /\ PrefixOf(chain, chain') /\ LastIndex <= LastIndex'
    /\ current \in DOMAIN snaps'
    /\ Len(snaps[current]) <= Len(snaps'[current'])
    /\ main' # "rollbackDelete"

LEMMA SameDirForward ==
    ASSUME IndInv, UNCHANGED <<chain, snaps, current, walLog>>, main' # "rollbackDelete"
    PROVE  Forward
<1>1. Len(chain) \in Nat /\ Len(walLog) \in Nat /\ current \in DOMAIN snaps /\ Len(snaps[current]) \in Nat
  BY Histories, LenProperties, Lengths
<1>. QED  BY <1>1 DEF Forward, PrefixOf, LastIndex

LEMMA StepForward ==
    ASSUME IndInv, HistInv, IndInv', Next, main \notin Rollback
    PROVE  Forward
<1>1. Len(chain) \in Nat /\ Len(walLog) \in Nat /\ current \in DOMAIN snaps /\ Len(snaps[current]) \in Nat
  BY Histories, LenProperties, Lengths
<1>2. PrefixOf(chain, chain)
  BY <1>1 DEF PrefixOf
<1>3. ASSUME NEW cs \in ChangeSets, Commit(cs) PROVE Forward
  <2>1. UNCHANGED <<snaps, current, walLog>> /\ main' # "rollbackDelete"
    BY <1>3 DEF Commit, dirVars, walVars
  <2>2. PrefixOf(chain, chain')
    <3>1. chain' = chain \/ chain' = Append(chain, cs)
      BY <1>3 DEF Commit
    <3>. QED  BY <1>2, <3>1, PrefixAppend, Histories, Zenon
  <2>. QED  BY <1>1, <2>1, <2>2, SMTT(30) DEF Forward, LastIndex
<1>4. ASSUME NEW b \in Seq(WalEntries), WriteStep(b) PROVE Forward
  <2>1. UNCHANGED <<chain, snaps, current>> /\ main' # "rollbackDelete"
    BY <1>4 DEF WriteStep, chainVars, dirVars, Rollback
  <2>2. LastIndex <= LastIndex'
    BY <1>4, WriteType, Histories DEF WriteStep, LastIndex
  <2>. QED  BY <1>1, <1>2, <2>1, <2>2, SMTT(30) DEF Forward
<1>5. CASE RewriteRename \/ RewriteLink
  <2>1. /\ UNCHANGED <<chain, walLog, main>> /\ rw.pc \in {"rename", "link"}
    BY <1>5, SMTT(30) DEF RewriteRename, RewriteLink, rwFrame, chainVars, walVars
  <2>2. Len(snaps[current]) <= Len(rw.base)
    BY <2>1, SMTT(30) DEF IndInv, MainInv, HistInv, AheadInv, Serving
  <2>3. CASE RewriteRename
    <3>1. UNCHANGED current /\ \A v \in DOMAIN snaps : v \in DOMAIN snaps' /\ snaps'[v] = snaps[v]
      BY <2>3, RewriteRenameEffect, ZenonT(40) DEF IndInv
    <3>. QED  BY <1>1, <1>2, <2>1, <3>1, SMTT(30) DEF Forward, LastIndex, Rollback
  <2>4. CASE RewriteLink
    <3>1. UNCHANGED snaps /\ current' = Version(rw.base) /\ snaps[Version(rw.base)] = rw.base
      BY <2>4 DEF RewriteLink, IndInv, RewriteInv
    <3>. QED  BY <1>1, <1>2, <2>1, <2>2, <3>1, SMTT(30) DEF Forward, LastIndex, Rollback
  <2>. QED  BY <1>5, <2>3, <2>4
<1>6. CASE QuietPrune \/ PruneRemove
  <2>1. /\ UNCHANGED <<chain, current, walLog, main>>
        /\ \A v \in DOMAIN snaps' : snaps'[v] = snaps[v]
    BY <1>6, PruneEffect DEF chainVars
  <2>2. current \in DOMAIN snaps'
    BY <2>1 DEF IndInv, DirInv
  <2>. QED  BY <1>1, <1>2, <2>1, <2>2 DEF Forward, LastIndex, Rollback
<1>7. CASE \/ QuietCaller \/ SendWAL \/ SendWALQuit \/ rewriteIfApplicable \/ Flushed
           \/ SwitchTree \/ Down
  <2>1. UNCHANGED <<chain, snaps, current, walLog>> /\ main' # "rollbackDelete"
    <3>1. CASE QuietCaller
      BY <3>1, QuietCallerEffect, SMTT(30) DEF chainVars, dirVars, walVars
    <3>2. CASE SendWAL \/ SendWALQuit \/ rewriteIfApplicable \/ Flushed \/ SwitchTree \/ Down
      BY <3>2 DEF SendWAL, SendWALQuit, rewriteIfApplicable, Flushed, SwitchTree, Down,
                  chainVars, dirVars, walVars
    <3>. QED  BY <1>7, <3>1, <3>2
  <2>. QED  BY <2>1, SameDirForward
<1>8. CASE \/ LoadLatest \/ \E v \in Targets : LoadTarget(v) \/ LoadForOverwriting(v)
  <2>1. UNCHANGED <<chain, snaps, current, walLog>> /\ main' # "rollbackDelete"
    BY <1>8 DEF LoadLatest, LoadTarget, LoadForOverwriting, Opened, dirVars, walVars
  <2>. QED  BY <2>1, SameDirForward
<1>9. CASE QuietWriter \/ QuietRewrite
  <2>1. UNCHANGED <<chain, snaps, current, walLog, main>>
    BY <1>9, QuietWriterEffect, QuietRewriteEffect DEF IndInv, chainVars, dirVars, walVars
  <2>. QED  BY <2>1, SameDirForward DEF Rollback
<1>10. ~RollbackLink /\ ~RollbackDelete /\ ~RollbackCut
  BY DEF RollbackLink, RollbackDelete, RollbackCut, Rollback
<1>. QED  BY <1>3, <1>4, <1>5, <1>6, <1>7, <1>8, <1>9, <1>10, StepCases, WriteSteps, Zenon

-----------------------------------------------------------------------------
LEMMA WalVersionOrder ==
    ASSUME NEW i \in Nat, NEW j \in Nat, i <= j
    PROVE  walVersion(i) <= walVersion(j) /\ walVersion(i) \in Int /\ walVersion(j) \in Int
BY DBAssumption DEF walVersion

(* Only a rollback rewrites history: after any other step a version in the *)
(* WAL that could be loaded is the same state as before, if it can still   *)
(* be loaded, and it can if it is not older than the current snapshot.     *)
THEOREM HistoryRewrittenByRollbackOnly ==
    ASSUME ~TargetLoads
    PROVE  Spec => OnlyRollbackRewritesHistory
<1>1. ASSUME IndInv, HistInv, IndInv', HistInv', [Next]_vars
      PROVE  \/ UNCHANGED <<dirVars, walVars>> \/ main \in {"rollbackLink", "rollbackDelete"}
             \/ \A v \in Targets :
                  InitialVersion <= v /\ v <= walVersion(LastIndex) /\ LoadableAt(v) =>
                      /\ v >= current => LoadableAt(v)'
                      /\ LoadableAt(v)' => LoadAt(v)' = LoadAt(v)
  <2>1. SUFFICES ASSUME Next, main \notin Rollback,
                        NEW v \in Targets, InitialVersion <= v, v <= walVersion(LastIndex),
                        LoadableAt(v)
                 PROVE  /\ v >= current => LoadableAt(v)'
                        /\ LoadableAt(v)' => LoadAt(v)' = LoadAt(v)
    BY <1>1 DEF vars, Rollback
  <2>2. Forward
    BY <1>1, <2>1, StepForward
  <2>3. v <= walVersion(LastIndex')
    <3>1. LastIndex \in Nat /\ LastIndex' \in Nat /\ v \in Nat
      BY <1>1, TargetType, LenProperties, SMTT(30) DEF LastIndex, IndInv, TypeOK
    <3>2. LastIndex <= LastIndex'
      BY <2>2 DEF Forward
    <3>3. /\ walVersion(LastIndex) <= walVersion(LastIndex')
          /\ walVersion(LastIndex) \in Int /\ walVersion(LastIndex') \in Int
      BY <3>1, <3>2, WalVersionOrder
    <3>. QED  BY <2>1, <3>1, <3>3, SMTT(30)
  <2>4. /\ LoadAt(v) \in Seq(ChangeSets) /\ Len(LoadAt(v)) = walIndex(v) /\ PrefixOf(LoadAt(v), chain)
    BY <1>1, <2>1, LoadImplication DEF LoadsOfChain, LoadableAt
  <2>5. SnapshotsUpTo(v)' # {} =>
          /\ LoadableAt(v)' /\ LoadAt(v)' \in Seq(ChangeSets)
          /\ Len(LoadAt(v)') = walIndex(v) /\ PrefixOf(LoadAt(v)', chain')
    BY <1>1, <2>1, <2>3, LoadNext DEF LoadsOfChain
  <2>6. v >= current => SnapshotsUpTo(v)' # {}
    BY <2>2 DEF Forward, SnapshotsUpTo
  <2>7. LoadableAt(v)' => SnapshotsUpTo(v)' # {}
    BY DEF LoadableAt
  <2>8. PrefixOf(LoadAt(v), chain')
    <3>1. chain \in Seq(ChangeSets) /\ chain' \in Seq(ChangeSets) /\ PrefixOf(chain, chain')
      BY <1>1, <2>2, SMTT(30) DEF Forward, IndInv, TypeOK
    <3>. QED  BY <2>4, <3>1, PrefixTrans, ZenonT(40)
  <2>9. SnapshotsUpTo(v)' # {} => LoadAt(v)' = LoadAt(v)
    BY <2>4, <2>5, <2>8, PrefixSame
  <2>. QED  BY <2>5, <2>6, <2>7, <2>9
<1>. QED  BY <1>1, Invariance, HistoryInvariance, PTL DEF Spec, OnlyRollbackRewritesHistory

-----------------------------------------------------------------------------
(* The refinement mapping: log <- Recovered, acked <- durable, rolling <-  *)
(* the length of the tree of a rollback that moved the link.               *)
Rolling == IF main = "rollbackDelete" THEN Len(tree) ELSE -1

LEMMA PrefixIsPrefix ==
    ASSUME NEW S, NEW g \in Seq(S), NEW h \in Seq(S), NEW c,
           PrefixOf(g, c), PrefixOf(h, c), Len(g) <= Len(h)
    PROVE  Durable!IsPrefixOf(g, h)
<1>1. PrefixOf(g, h)
  <2>1. Len(g) \in Nat /\ Len(h) \in Nat
    BY LenProperties
  <2>. QED  BY <2>1 DEF PrefixOf
<1>2. g = SubSeq(h, 1, Len(g))
  BY <1>1, PrefixIs
<1>. QED  BY <1>2 DEF Durable!IsPrefixOf

(* Outside a rollback only Commit's return and the end of a flush          *)
(* acknowledge blocks.                                                     *)
LEMMA AcknowledgedBy ==
    ASSUME IndInv, Next, main \notin Rollback, durable' # durable
    PROVE  rewriteIfApplicable \/ Flushed
<1>1. ASSUME NEW b \in Seq(WalEntries), WriteStep(b) PROVE FALSE
  BY <1>1 DEF WriteStep, chainVars
<1>2. ~QuietCaller /\ ~QuietWriter /\ ~QuietRewrite /\ ~QuietPrune /\ ~PruneRemove
  BY QuietCallerEffect, QuietWriterEffect, QuietRewriteEffect, PruneEffect, SMTT(30) DEF chainVars, IndInv
<1>3. /\ ~\E cs \in ChangeSets : Commit(cs)
      /\ ~SendWAL /\ ~SendWALQuit /\ ~SwitchTree /\ ~Down /\ ~LoadLatest
      /\ ~\E v \in Targets : LoadTarget(v) \/ LoadForOverwriting(v)
      /\ ~RewriteRename /\ ~RewriteLink
  BY DEF Commit, SendWAL, SendWALQuit, SwitchTree, Down, LoadLatest, LoadTarget,
         LoadForOverwriting, Opened, RewriteRename, RewriteLink, rwFrame, chainVars
<1>4. ~RollbackLink /\ ~RollbackDelete /\ ~RollbackCut
  BY DEF RollbackLink, RollbackDelete, RollbackCut, Rollback
<1>. QED  BY <1>1, <1>2, <1>3, <1>4, StepCases, WriteSteps, Zenon

LEMMA MaxNotBelow == ASSUME NEW a \in Nat, NEW b \in Nat PROVE a <= Max({a, b})
BY DEF Max

LEMMA MinOfTwo ==
    ASSUME NEW a \in Nat, NEW b \in Nat
    PROVE  Min({a, b}) = IF a < b THEN a ELSE b
BY DEF Min

(* Outside a rollback: blocks become durable, or are acknowledged. *)
LEMMA ForwardImplements ==
    ASSUME IndInv, HistInv, IndInv', HistInv', Next, main \notin Rollback
    PROVE  Durable!Next
<1>1. Forward
  BY StepForward
<1>2. /\ Recovered \in Seq(ChangeSets) /\ PrefixOf(Recovered, chain)
      /\ Len(Recovered) = IF Len(snaps[current]) < LastIndex
                          THEN LastIndex ELSE Len(snaps[current])
  BY RecoveredBlocks
<1>3. /\ Recovered' \in Seq(ChangeSets) /\ PrefixOf(Recovered', chain')
      /\ Len(Recovered') = IF Len(snaps'[current']) < LastIndex'
                           THEN LastIndex' ELSE Len(snaps'[current'])
  BY RecoveredNext
<1>4. /\ LastIndex \in Nat /\ Len(snaps[current]) \in Nat
      /\ LastIndex' \in Nat /\ Len(snaps'[current']) \in Nat
  BY LenProperties DEF IndInv, TypeOK, DirInv, LastIndex
<1>5. Len(Recovered) <= Len(Recovered')
  BY <1>1, <1>2, <1>3, <1>4 DEF Forward
<1>6. PrefixOf(Recovered, chain')
  <2>1. chain \in Seq(ChangeSets) /\ chain' \in Seq(ChangeSets) /\ PrefixOf(chain, chain')
    BY <1>1 DEF Forward, IndInv, TypeOK
  <2>. QED  BY <1>2, <2>1, PrefixTrans, ZenonT(40)
<1>7. Durable!IsPrefixOf(Recovered, Recovered')
  BY <1>2, <1>3, <1>5, <1>6, PrefixIsPrefix, SMTT(30)
<1>8. Rolling = -1 /\ Rolling' = -1
  BY <1>1 DEF Forward, Rolling, Rollback
<1>9. CASE durable' = durable
  <2>1. Durable!Extend
    BY <1>3, <1>7, <1>8, <1>9 DEF Durable!Extend, Durable!NotRolling, Rolling
  <2>. QED  BY <2>1 DEF Durable!Next
<1>10. CASE durable' # durable
  <2>1. rewriteIfApplicable \/ Flushed
    BY <1>10, AcknowledgedBy
  <2>2. UNCHANGED <<snaps, current, walLog>>
    BY <2>1 DEF rewriteIfApplicable, Flushed, dirVars, walVars
  <2>3. Recovered' = Recovered
    BY <2>2 DEF Recovered, catchupWAL, CatchupFrom, CatchupTo, LastIndex
  <2>4. durable <= durable'
    <3>1. durable \in Nat /\ height \in Nat /\ height + 1 \in Nat
      BY Histories
    <3>2. durable' \in {durable, Max({durable, height}), Max({durable, height + 1})}
      BY <2>1 DEF rewriteIfApplicable, Flushed
    <3>3. durable <= Max({durable, height}) /\ durable <= Max({durable, height + 1})
      BY <3>1, MaxNotBelow
    <3>. QED  BY <3>1, <3>2, <3>3
  <2>5. durable' <= Len(Recovered') /\ durable \in Nat /\ durable' \in Nat
    <3>1. durable \in Nat /\ durable' \in Nat
      BY DEF IndInv, TypeOK
    <3>2. durable' <= LastIndex' \/ durable' <= Len(snaps'[current'])
      BY DEF HistInv, DurableInv, OnDisk
    <3>. QED  BY <1>3, <1>4, <3>1, <3>2, SMTT(30)
  <2>6. durable' \in durable .. Len(Recovered)
    BY <1>2, <1>4, <2>3, <2>4, <2>5, SMTT(30)
  <2>7. Durable!Acknowledge
    BY <1>8, <2>3, <2>6 DEF Durable!Acknowledge, Rolling
  <2>. QED  BY <2>7 DEF Durable!Next
<1>. QED  BY <1>9, <1>10

(* A rollback begins when it moves the link, ends when it cuts the WAL,    *)
(* and is abandoned when the process dies between the two.                 *)
LEMMA RollbackImplements ==
    ASSUME IndInv, SizeInv, HistInv, IndInv', HistInv', Next, main \in Rollback
    PROVE  Durable!Next \/ UNCHANGED <<Recovered, durable, Rolling>>
<1>1. /\ Recovered \in Seq(ChangeSets) /\ PrefixOf(Recovered, chain)
      /\ Len(Recovered) = IF Len(snaps[current]) < LastIndex
                          THEN LastIndex ELSE Len(snaps[current])
  BY RecoveredBlocks
<1>2. /\ Recovered' \in Seq(ChangeSets) /\ PrefixOf(Recovered', chain')
      /\ Len(Recovered') = IF Len(snaps'[current']) < LastIndex'
                           THEN LastIndex' ELSE Len(snaps'[current'])
  BY RecoveredNext, SMTT(30)
<1>3. /\ LastIndex \in Nat /\ Len(snaps[current]) \in Nat /\ Len(tree) \in Nat
      /\ LastIndex' \in Nat /\ Len(snaps'[current']) \in Nat /\ durable \in Nat
  BY LenProperties DEF IndInv, TypeOK, DirInv, LastIndex
<1>4. /\ Len(tree) <= LastIndex /\ Len(tree) > 0
      /\ \A v \in DOMAIN snaps : v <= arg <=> Len(snaps[v]) <= Len(tree)
  BY RollbackTarget
<1>5. CASE Down
  <2>1. UNCHANGED <<snaps, current, walLog, durable>> /\ Rolling' = -1
    BY <1>5 DEF Down, dirVars, walVars, Rolling
  <2>2. Recovered' = Recovered
    BY <2>1 DEF Recovered, catchupWAL, CatchupFrom, CatchupTo, LastIndex
  <2>3. CASE main = "rollbackDelete"
    <3>1. Rolling = Len(tree) /\ Rolling # -1
      BY <1>3, <2>3 DEF Rolling
    <3>2. Durable!AbandonRollback
      BY <2>1, <2>2, <3>1 DEF Durable!AbandonRollback, Durable!NotRolling, Rolling
    <3>. QED  BY <3>2 DEF Durable!Next
  <2>4. CASE main # "rollbackDelete"
    BY <2>1, <2>2, <2>4 DEF Rolling
  <2>. QED  BY <2>3, <2>4
<1>6. CASE RollbackLink
  <2>1. /\ main = "rollbackLink" /\ main' = "rollbackDelete" /\ UNCHANGED <<chain, snaps, walLog, tree>>
        /\ current' = snapVer /\ durable' = Min({durable, Len(tree)})
    BY <1>6 DEF RollbackLink, rollbackFrame, treeVars
  <2>2. Rolling = -1 /\ Rolling' = Len(tree)
    BY <2>1 DEF Rolling
  <2>3. Len(snaps'[current']) <= Len(tree) /\ LastIndex' = LastIndex
    <3>1. snapVer \in DOMAIN snaps /\ snapVer <= arg
      BY DEF IndInv, MainInv
    <3>. QED  BY <1>4, <2>1, <3>1 DEF LastIndex
  <2>4. Len(Recovered') = LastIndex /\ Len(Recovered') <= Len(Recovered)
    BY <1>1, <1>2, <1>3, <1>4, <2>3, SMTT(30)
  <2>5. Durable!IsPrefixOf(Recovered', Recovered)
    <3>1. PrefixOf(Recovered', chain)
      BY <1>2, <2>1
    <3>. QED  BY <1>1, <1>2, <2>4, <3>1, PrefixIsPrefix, SMTT(30)
  <2>6. durable' = IF durable < Rolling' THEN durable ELSE Rolling'
    <3>1. durable' = IF durable < Len(tree) THEN durable ELSE Len(tree)
      BY <1>3, <2>1, MinOfTwo
    <3>. QED  BY <2>2, <3>1
  <2>7. Rolling' \in 0 .. Len(Recovered) /\ Len(Recovered') >= Rolling'
    BY <1>1, <1>3, <1>4, <2>2, <2>4, SMTT(30)
  <2>8. Durable!BeginRollback
    BY <2>2, <2>5, <2>6, <2>7, SMTT(30) DEF Durable!BeginRollback, Durable!NotRolling, Rolling
  <2>. QED  BY <2>8 DEF Durable!Next
<1>7. CASE RollbackDelete
  <2>1. /\ UNCHANGED <<durable, current, walLog, main, tree>> /\ main = "rollbackDelete"
        /\ \A v \in DOMAIN snaps' : snaps'[v] = snaps[v]
    BY <1>7 DEF RollbackDelete, rollbackFrame, treeVars, chainVars, WithoutSnapshot, Restrict
  <2>2. snaps'[current'] = snaps[current]
    BY <2>1 DEF IndInv, DirInv
  <2>3. Recovered' = Recovered
    BY <2>1, <2>2 DEF Recovered, catchupWAL, CatchupFrom, CatchupTo, LastIndex
  <2>. QED  BY <2>1, <2>3 DEF Rolling
<1>8. CASE RollbackCut
  <2>1. /\ main = "rollbackDelete" /\ main' = "idle" /\ UNCHANGED <<durable, snaps, current>>
        /\ chain' = SubSeq(chain, 1, Min({Len(chain), Len(tree)}))
    BY <1>8 DEF RollbackCut, dirVars
  <2>2. /\ LastIndex' = Len(tree) /\ \A v \in DOMAIN snaps : Len(snaps[v]) <= Len(tree)
    BY <1>8, RollbackCutEntries
  <2>3. Len(snaps'[current']) <= Len(tree)
    BY <2>1, <2>2 DEF IndInv, DirInv
  <2>4. Len(Recovered') = Len(tree) /\ Len(tree) <= Len(Recovered)
    BY <1>1, <1>2, <1>3, <1>4, <2>2, <2>3
  <2>5. \A i \in 1..Len(tree) : chain'[i] = chain[i]
    <3>1. PrefixOf(tree, chain) /\ PrefixOf(tree', chain') /\ tree' = tree
      BY <1>8, <2>1 DEF HistInv, ChainInv, RollbackCut, rollbackFrame, treeVars
    <3>. QED  BY <3>1, SMTT(30) DEF PrefixOf
  <2>6. \A i \in 1..Len(tree) : Recovered'[i] = Recovered[i]
    BY <1>1, <1>2, <1>3, <2>4, <2>5 DEF PrefixOf
  <2>7. Recovered' = SubSeq(Recovered, 1, Len(tree))
    <3>1. PrefixOf(Recovered', Recovered)
      BY <2>4, <2>6 DEF PrefixOf
    <3>2. Recovered' = SubSeq(Recovered, 1, Len(Recovered'))
      BY <1>1, <1>2, <3>1, PrefixIs
    <3>. QED  BY <2>4, <3>2
  <2>8. Rolling = Len(tree) /\ Rolling # -1 /\ Rolling' = -1
    BY <1>3, <2>1 DEF Rolling
  <2>9. Durable!EndRollback
    BY <2>1, <2>7, <2>8 DEF Durable!EndRollback, Durable!NotRolling, Rolling
  <2>. QED  BY <2>9 DEF Durable!Next
<1>. QED  BY <1>5, <1>6, <1>7, <1>8, RollbackSteps, SMTT(30)

(* memiavl.DB implements a durable history: through commits, rewrites,     *)
(* prunes, crashes and rollbacks, what a Load would find on disk only      *)
(* grows by blocks the WAL or a snapshot received, is never below what was *)
(* acknowledged, and is only cut by a rollback, at its target.             *)
THEOREM Refinement ==
    ASSUME ~TargetLoads
    PROVE  Spec => ImplementsDurableHistory
<1>1. Init => Durable!Init
  <2>1. SUFFICES ASSUME Init PROVE Durable!Init
    OBVIOUS
  <2>2. walLog = <<>> /\ durable = 0 /\ main = "down" /\ snaps[current] = <<>>
    BY <2>1 DEF Init
  <2>3. CatchupFrom(<<>>) = 1 /\ LastIndex = 0
    <3>1. <<>> \in Seq(ChangeSets) /\ Len(<<>>) = 0
      OBVIOUS
    <3>2. CatchupFrom(<<>>) = Len(<<>>) + 1
      BY <3>1, CatchupFromNext, Zenon
    <3>. QED  BY <2>2, <3>1, <3>2 DEF LastIndex
  <2>4. Recovered = <<>>
    BY <2>2, <2>3 DEF Recovered, catchupWAL
  <2>. QED  BY <2>2, <2>4 DEF Durable!Init, Durable!NotRolling
<1>2. ASSUME IndInv, SizeInv, HistInv, IndInv', HistInv', [Next]_vars
      PROVE  Durable!Next \/ UNCHANGED <<Recovered, durable, Rolling>>
  <2>1. CASE Next
    BY <1>2, <2>1, ForwardImplements, RollbackImplements, ZenonT(40)
  <2>2. CASE UNCHANGED vars
    <3>1. UNCHANGED <<snaps, current, walLog, durable, main, tree>>
      BY <2>2 DEF vars, chainVars, dirVars, walVars, treeVars
    <3>. QED  BY <3>1 DEF Recovered, catchupWAL, CatchupFrom, CatchupTo, LastIndex, Rolling
  <2>. QED  BY <1>2, <2>1, <2>2
<1>3. ASSUME IndInv, SizeInv, HistInv, IndInv', HistInv', [Next]_vars
      PROVE  [Durable!Next]_<<Recovered, durable, IF main = "rollbackDelete" THEN Len(tree) ELSE -1>>
  BY <1>2, <1>3 DEF Rolling
<1>. QED  BY <1>1, <1>3, Invariance, Sizes, HistoryInvariance, PTL
          DEF Spec, ImplementsDurableHistory, Durable!Spec
=============================================================================
