------------------------ MODULE RootMultiStepProofs -------------------------
(***************************************************************************)
(* The store: setting the initial height, Commit, the rewrite of a         *)
(* snapshot, rollback and restore keep the inductive invariant, and what   *)
(* follows from it in every behaviour, for any releases and any number of  *)
(* blocks, crashes, rollbacks and restores.                                *)
(***************************************************************************)
EXTENDS RootMultiProofs

-----------------------------------------------------------------------------
(* The initial height. *)

(* SetInitialVersion keeps the invariant: a chain without blocks, its      *)
(* upgrades pending, gets its first height.                                *)
LEMMA SetInitialVersionInv ==
    ASSUME IInv, SetInitialVersion
    PROVE  IInv'
<1>. DEFINE l == Load(disk, 0)
            mt == l.mt
            u == ApplyUpgrades(mt, db.upgrades).mt
            ih == InitialHeight
            new == NewEmptyMultiTree(ih)
            x == setInitialVersion(db.mt, ih)
<1>1. /\ Running /\ Version(db.mt) = 0 /\ ih > 1 /\ \A i \in DOMAIN db.mt.trees : db.mt.trees[i].writes = <<>>
      /\ db' = [db EXCEPT !.mt = x] /\ disk' = initEmptyDB(disk, ih)
      /\ binary' = binary /\ stores' = stores /\ lastCommit' = lastCommit /\ announced' = announced
      /\ copy' = copy /\ history' = history /\ writes' = writes
  BY DEF SetInitialVersion
<1>2. /\ RunningInv /\ CopyInv /\ AnnouncedInv
      /\ Pending(db, mt) /\ DOMAIN stores = TreeNames(db.mt) /\ DiskOK(disk) /\ ih \in Nat
  BY <1>1, RootMultiAssumption, SMTT(30) DEF IInv, RunningInv
<1>3. /\ Version(mt) = 0 /\ db.mt \in MultiTrees /\ db.mt.initialVersion = mt.initialVersion
      /\ InStep(db.mt) /\ UniqueNames(db.mt)
  BY <1>1, <1>2, PendingTree, SMTT(30)
<1>4. l = Done(mt) /\ Stored(mt, Version(mt)) /\ Sound(mt) /\ disk.wal = <<>>
  BY <1>2, <1>3, LoadedTree, SMTT(30)
<1>5. /\ mt \in MultiTrees /\ InStep(mt) /\ mt.info \in CommitInfos /\ mt.trees = <<>>
      /\ mt.info = [version |-> 0, stores |-> <<>>] /\ mt.initialVersion \in {0, ih}
  <2>1. mt \in MultiTrees /\ InStep(mt) /\ mt.info \in CommitInfos
    BY <1>4, SMTT(30) DEF Sound, MultiTrees
  <2>2. mt.info.version = 0 /\ mt.info.stores = <<>> /\ mt.trees = <<>> /\ mt.initialVersion \in {0, ih}
    BY <1>3, <1>4 DEF Stored, Version
  <2>. QED  BY <2>1, <2>2, SMTT(30) DEF CommitInfos
<1>6. DiskOK(disk') /\ Load(disk', 0) = Done(new)
  <2>1. Blank(disk) /\ ih \in {0, InitialHeight}
    BY <1>2, <1>4, SMTT(30) DEF Blank
  <2>. QED  BY <1>1, <2>1, FreshDisk, SMTT(30) DEF Created
<1>. HIDE DEF l, mt, u, new, x
<1>7. new = Restep(mt, mt.info, ih)
  <2>1. new \in MultiTrees /\ new.info = mt.info /\ new.trees = <<>> /\ new.initialVersion = ih
    BY <1>2, <1>5, EmptyTree, SMTT(30) DEF new, NewEmptyMultiTree
  <2>2. Restep(mt, mt.info, ih) \in MultiTrees /\ Len(Restep(mt, mt.info, ih).trees) = 0
    BY <1>2, <1>5, RestepType, SMTT(30)
  <2>3. Restep(mt, mt.info, ih).info = mt.info /\ Restep(mt, mt.info, ih).initialVersion = ih
    BY <1>2, <1>5, RestepInStep, SMTT(30)
  <2>4. Restep(mt, mt.info, ih).trees = <<>>
    <3>1. \A ts \in Seq(Trees) : Len(ts) = 0 => ts = <<>>
      OBVIOUS
    <3>2. \A m \in MultiTrees : m.trees \in Seq(Trees)
      BY DEF MultiTrees
    <3>. QED  BY <2>2, <3>1, <3>2, Zenon
  <2>. QED  BY <2>1, <2>2, <2>3, <2>4, EqualMultiTrees
<1>8. /\ db \in DBs /\ db.upgrades \in Seq(TreeNameUpgrades) /\ ~ApplyUpgrades(mt, db.upgrades).err
      /\ Sound(u) /\ u \in MultiTrees /\ InStep(u) /\ UniqueNames(u) /\ u.info = mt.info
      /\ u.initialVersion = mt.initialVersion /\ Logged(u, db.changesets) /\ db.mt = WithPairs(u, db.changesets)
      /\ db.changesets \in Seq(NamedChangeSets)
  BY <1>2, SMTT(30) DEF u, Pending, Sound, Logged, DBs
<1>9. ApplyUpgrades(new, db.upgrades) = RestepResult(ApplyUpgrades(mt, db.upgrades), mt.info, ih)
  BY <1>2, <1>5, <1>7, <1>8, RestepUpgrades, ZenonT(40)
<1>10. ApplyUpgrades(new, db.upgrades) = [err |-> ApplyUpgrades(mt, db.upgrades).err, mt |-> Restep(u, mt.info, ih)]
  BY <1>9 DEF u, RestepResult
<1>11. \A k \in DOMAIN db.changesets : db.changesets[k].pairs = <<>>
  BY <1>1, <1>8, NothingWritten, SMTT(30)
<1>12. db.mt = u
  BY <1>8, <1>11, NoPairs, SMTT(30)
<1>13. x = Restep(u, u.info, ih)
  BY <1>1, <1>3, <1>5, <1>12, InitialSet, SMTT(30) DEF x
<1>14. /\ x \in MultiTrees /\ TreeNames(x) = TreeNames(u) /\ UniqueNames(x) /\ InStep(x)
       /\ x.info = mt.info /\ x.initialVersion = ih
  <2>1. u.info \in CommitInfos
    BY <1>5, <1>8, Zenon
  <2>2. LET r == Restep(u, u.info, ih)
        IN  r \in MultiTrees /\ TreeNames(r) = TreeNames(u) /\ (UniqueNames(r) <=> UniqueNames(u))
    BY <1>2, <1>8, <2>1, RestepType, Zenon
  <2>3. LET r == Restep(u, u.info, ih)
        IN  InStep(r) /\ r.info = u.info /\ r.initialVersion = ih
    BY <1>2, <1>8, <2>1, RestepInStep, ZenonT(40)
  <2>. QED  BY <1>8, <1>13, <2>2, <2>3, Zenon
<1>15. WithPairs(x, db.changesets) = x
  BY <1>8, <1>11, <1>14, NoPairs
<1>16. db' \in DBs /\ db'.mt = x /\ db'.upgrades = db.upgrades /\ db'.changesets = db.changesets /\ db'.cached = db.cached
  BY <1>1, <1>8, <1>14, SMTT(30) DEF DBs
<1>17. Sound(x)
  <2>1. Version(x) = 0 /\ ih < WORD
    BY <1>5, <1>14, Bounds, SMTT(30) DEF Version
  <2>. QED  BY <1>1, <1>2, <1>14, <2>1, WordPositive, SMTT(30) DEF Sound
<1>18. Logged(x, db.changesets)
  BY <1>8, <1>14, SMTT(30) DEF Logged
<1>19. db.changesets # <<>> => db.cached = NamesOf(db.changesets)
  BY <1>2, SMTT(30) DEF Pending
<1>20. new.info = mt.info /\ new.initialVersion = ih
  BY <1>2, <1>5, <1>7, RestepInStep, SMTT(30)
<1>21. Pending(db', new)
  BY <1>8, <1>10, <1>13, <1>14, <1>15, <1>16, <1>17, <1>18, <1>19, <1>20, SMTT(30) DEF Pending
<1>22. Load(disk', 0).mt = new
  BY <1>6 DEF Done
<1>23. RunningInv'
  BY <1>1, <1>2, <1>6, <1>12, <1>14, <1>16, <1>21, <1>22, SMTT(30) DEF RunningInv, Running
<1>24. copy = None
  <2>1. ASSUME copy # None PROVE FALSE
    <3>1. Done(mt) = Done(copy) /\ Version(copy) > 0
      BY <1>2, <1>4, <2>1, SMTT(30) DEF CopyInv, l
    <3>2. mt = copy
      BY <3>1, SMTT(30) DEF Done
    <3>. QED  BY <1>3, <3>1, <3>2, SMTT(30)
  <2>. QED  BY <2>1
<1>25. ASSUME announced # None PROVE db' = db
  <2>1. u.initialVersion = ih /\ u.info \in CommitInfos /\ u.info.version = Version(u)
    BY <1>1, <1>2, <1>5, <1>8, <1>12, <1>25 DEF AnnouncedInv, Version
  <2>2. x = [u EXCEPT !.info = u.info]
    BY <1>8, <1>13, <2>1, RestepSame, SMTT(30)
  <2>3. x = u
    BY <1>8, <2>2, SMTT(30) DEF MultiTrees
  <2>. QED  BY <1>1, <1>8, <1>12, <2>3, SMTT(30) DEF DBs
<1>26. AnnouncedInv' /\ CopyInv'
  BY <1>1, <1>2, <1>24, <1>25, Zenon DEF AnnouncedInv, CopyInv, Running
<1>. QED  BY <1>1, <1>6, <1>23, <1>26, SMTT(30) DEF IInv

-----------------------------------------------------------------------------
(* Commit. *)

(* A database with an empty pending log. *)
LEMMA NothingPending ==
    ASSUME NEW s, Sound(s)
    PROVE  Pending(dbOf(s), s)
<1>1. s \in MultiTrees /\ InStep(s)
  BY DEF Sound
<1>2. <<>> \in Seq(TreeNameUpgrades) /\ <<>> \in Seq(NamedChangeSets)
  OBVIOUS
<1>3. ApplyUpgrades(s, <<>>) = Done(s)
  BY <1>1, <1>2, UpgradesInStep, Zenon
<1>4. WithPairs(s, <<>>) = s
  <2>1. \A k \in DOMAIN <<>> : <<>>[k].pairs = <<>>
    OBVIOUS
  <2>. QED  BY <1>1, <1>2, <2>1, NoPairs, Zenon
<1>5. Logged(s, <<>>)
  BY <1>2 DEF Logged, Distinct
<1>6. ~Done(s).err /\ Done(s).mt = s
  BY DEF Done
<1>7. /\ dbOf(s) \in DBs /\ dbOf(s).mt = s /\ dbOf(s).upgrades = <<>> /\ dbOf(s).changesets = <<>>
  BY <1>1, LoadedDB, SMTT(30)
<1>. HIDE DEF dbOf
<1>. QED  BY <1>3, <1>4, <1>5, <1>6, <1>7 DEF Pending

(* The version a block commits. *)
LEMMA CommittedVersion ==
    ASSUME NEW mt, Stored(mt, Version(mt)), Version(mt) < MaxVersion
    PROVE  nextVersion(Version(mt), mt.initialVersion) \in 1 .. Bound
<1>1. Version(mt) \in Nat /\ mt.initialVersion \in Nat
  BY SoundReplays DEF Stored
<1>2. CASE Version(mt) = 0
  <2>1. mt.initialVersion \in {0, InitialHeight}
    BY <1>2 DEF Stored
  <2>. QED  BY <1>1, <1>2, <2>1, Bounds, SMTT(30) DEF nextVersion, Bound
<1>3. CASE Version(mt) > 0
  BY <1>1, <1>3, Bounds, SMTT(30) DEF nextVersion, Bound
<1>. QED  BY <1>1, <1>2, <1>3

(* The log with the entry of the pending block replays to the saved trees. *)
LEMMA PendingReplayed ==
    ASSUME NEW sn, Sound(sn), NEW log \in Seq(WALEntries), nextIndex(sn) \in 1 .. Len(log) + 1,
           NEW mt, catchupWAL(sn, log, 0) = Done(mt), NEW x, Pending(x, mt)
    PROVE  catchupWAL(sn, Append(log, [upgrades |-> x.upgrades, changesets |-> x.changesets]), 0) = Done(SaveVersion(x.mt, TRUE))
<1>. DEFINE e == [upgrades |-> x.upgrades, changesets |-> x.changesets]
            u == ApplyUpgrades(mt, x.upgrades)
<1>1. /\ ~u.err /\ UniqueNames(u.mt) /\ Logged(u.mt, x.changesets) /\ x.mt = WithPairs(u.mt, x.changesets)
      /\ x.upgrades \in Seq(TreeNameUpgrades) /\ x.changesets \in Seq(NamedChangeSets)
  BY DEF Pending, Sound, DBs
<1>2. e \in WALEntries /\ e.upgrades = x.upgrades /\ e.changesets = x.changesets
  BY <1>1 DEF WALEntries
<1>3. PendingEntry(mt, e, x.mt)
  BY <1>1, <1>2, Zenon DEF PendingEntry
<1>. HIDE DEF e
<1>4. catchupWAL(sn, Append(log, e), 0) = Done(SaveVersion(x.mt, TRUE))
  <2>1. NextBlock(sn, log, e, x.mt)
    BY <1>2, <1>3, Zenon DEF NextBlock
  <2>. QED  BY <2>1, CommitReplayed, Zenon
<1>. QED  BY <1>4, Zenon DEF e

(* The directory after a commit replays to the saved trees. *)
Committed(d, x) ==
    LET s == SaveVersion(x.mt, TRUE)
        log == writeWAL(d.wal, walIndex(Version(s), s.initialVersion),
                        [upgrades |-> x.upgrades, changesets |-> x.changesets])
        e == [d EXCEPT !.wal = log]
        sn == d.snapshots[d.current]
    IN /\ DiskOK(e) /\ Load(e, 0) = Done(s) /\ Sound(s) /\ Version(s) \in 1 .. Bound
       /\ catchupWAL(sn, log, 0) = Done(s) /\ LoadMultiTree(sn) = Done(sn)
       /\ TreeNames(s) = TreeNames(x.mt)
       /\ Version(s) = nextVersion(Version(x.mt), x.mt.initialVersion)
       /\ s.info = buildCommitInfo(s, Version(s))

(* The directory after a commit loads, and what it loads is what the       *)
(* commit saved.                                                           *)
LEMMA CommittedDisk ==
    ASSUME NEW d, NEW x, DiskOK(d), Pending(x, Load(d, 0).mt), Version(Load(d, 0).mt) < MaxVersion
    PROVE  Committed(d, x)
<1>. PICK s : s = SaveVersion(x.mt, TRUE)
  BY Zenon
<1>. PICK log : log = writeWAL(d.wal, walIndex(Version(s), s.initialVersion),
                               [upgrades |-> x.upgrades, changesets |-> x.changesets])
  BY Zenon
<1>. PICK e : e = [d EXCEPT !.wal = log]
  BY Zenon
<1>. DEFINE l == Load(d, 0)
            mt == l.mt
            sn == d.snapshots[d.current]
            u == ApplyUpgrades(mt, x.upgrades)
            w == [upgrades |-> x.upgrades, changesets |-> x.changesets]
<1>1. /\ l = Done(mt) /\ ~l.err /\ Stored(mt, Version(mt)) /\ Sound(mt) /\ l = catchupWAL(sn, d.wal, 0)
      /\ nextIndex(mt) = Len(d.wal) + 1
  BY LoadedTree
<1>2. /\ d = [snapshots |-> d.snapshots, current |-> d.current, wal |-> d.wal] /\ d.wal \in Seq(WALEntries)
      /\ DOMAIN d.snapshots \subseteq Nat /\ d.current \in DOMAIN d.snapshots
      /\ (\A v \in DOMAIN d.snapshots : Stored(d.snapshots[v], v))
      /\ nextIndex(sn) \in 1 .. Len(d.wal) + 1 /\ Stored(sn, d.current) /\ Sound(sn)
  BY DEF DiskOK, Stored
<1>3. /\ x.mt \in MultiTrees /\ x.mt.initialVersion = mt.initialVersion /\ Version(x.mt) = Version(mt)
  BY PendingTree
<1>4. /\ ~u.err /\ UniqueNames(u.mt) /\ Logged(u.mt, x.changesets) /\ x.mt = WithPairs(u.mt, x.changesets)
      /\ x.upgrades \in Seq(TreeNameUpgrades) /\ x.changesets \in Seq(NamedChangeSets)
  BY DEF Pending, Sound, DBs
<1>5. w \in WALEntries /\ w.upgrades = x.upgrades /\ w.changesets = x.changesets
  BY <1>4 DEF WALEntries
<1>. HIDE DEF w, l, mt, u
<1>6. /\ s \in MultiTrees /\ s.initialVersion = mt.initialVersion /\ Version(s) = nextVersion(Version(mt), mt.initialVersion)
      /\ s.info = buildCommitInfo(s, Version(s)) /\ Version(s) = nextVersion(Version(x.mt), x.mt.initialVersion)
  <2>1. TRUE \in BOOLEAN
    OBVIOUS
  <2>2. /\ s \in MultiTrees /\ s.initialVersion = x.mt.initialVersion
        /\ Version(s) = nextVersion(Version(x.mt), x.mt.initialVersion) /\ s.info = buildCommitInfo(s, Version(s))
    BY <1>3, <2>1, Saved, ZenonT(40)
  <2>. QED  BY <1>3, <2>2, ZenonT(40)
<1>7. log = Append(d.wal, w)
  <2>1. walIndex(Version(s), s.initialVersion) = Len(d.wal) + 1
    BY <1>1, <1>6, SoundReplays, Zenon
  <2>2. log = writeWAL(d.wal, Len(d.wal) + 1, w)
    BY <2>1, Zenon DEF w
  <2>3. ~(Len(d.wal) + 1 <= Len(d.wal))
    BY <1>2
  <2>. QED  BY <2>2, <2>3, Zenon DEF writeWAL
<1>8. catchupWAL(sn, log, 0) = Done(s)
  <2>1. catchupWAL(sn, Append(d.wal, w), 0) = Done(SaveVersion(x.mt, TRUE))
    BY <1>1, <1>2, PendingReplayed, Zenon DEF w, mt, l
  <2>. QED  BY <1>7, <2>1, Zenon
<1>9. Version(s) \in 1 .. Bound
  BY <1>1, <1>6, CommittedVersion, Zenon DEF mt, l
<1>10. /\ e = [snapshots |-> d.snapshots, current |-> d.current, wal |-> log]
       /\ e.snapshots = d.snapshots /\ e.current = d.current /\ e.wal = log
  BY <1>2, DirectoryExcept, Zenon
<1>11. log \in Seq(WALEntries) /\ Len(log) = Len(d.wal) + 1
  <2>1. \A a \in Seq(WALEntries), b \in WALEntries : Append(a, b) \in Seq(WALEntries) /\ Len(Append(a, b)) = Len(a) + 1
    OBVIOUS
  <2>. QED  BY <1>2, <1>5, <1>7, <2>1, Zenon
<1>12. nextIndex(e.snapshots[e.current]) \in 1 .. Len(e.wal) + 1
  <2>1. e.snapshots[e.current] = sn /\ Len(e.wal) = Len(d.wal) + 1
    BY <1>10, <1>11, ZenonT(40)
  <2>2. PICK n \in Nat : n = Len(d.wal)
    BY <1>2
  <2>3. PICK k \in 1 .. n + 1 : k = nextIndex(sn)
    BY <1>2, <2>2, SMTT(30)
  <2>4. k \in 1 .. n + 1 + 1
    OBVIOUS
  <2>. QED  BY <2>1, <2>2, <2>3, <2>4, Zenon
<1>13. DiskOK(e) /\ Load(e, 0) = Done(s)
  <2>1. ~Done(s).err /\ Version(Done(s).mt) <= Bound
    <3>1. ~Done(s).err /\ Done(s).mt = s
      BY Zenon DEF Done
    <3>2. \A n \in 1 .. Bound : n <= Bound
      BY Bounds
    <3>. QED  BY <1>9, <3>1, <3>2, Zenon
  <2>. QED  BY <1>2, <1>8, <1>10, <1>11, <1>12, <2>1, MadeDisk, ZenonT(40)
<1>14. Sound(s)
  <2>1. Done(s).mt = s
    BY DEF Done
  <2>. QED  BY <1>13, <2>1, LoadedTree, Zenon
<1>15. LoadMultiTree(sn) = Done(sn)
  BY <1>2, StoredLoads
<1>16. TreeNames(s) = TreeNames(x.mt)
  BY <1>3, SavedNames, Zenon
<1>. QED  BY <1>6, <1>8, <1>9, <1>13, <1>14, <1>15, <1>16, Zenon DEF Committed

(* What a commit leaves. *)
CommitStep(f, s) ==
    /\ f = flush /\ s = SaveVersion(f.db.mt, TRUE)
    /\ Pending(f.db, Load(disk, 0).mt)
    /\ DiskOK(disk') /\ Load(disk', 0) = Done(s) /\ Sound(s) /\ Version(s) \in 1 .. Bound
    /\ s.info = buildCommitInfo(s, Version(s))
    /\ Version(s) = nextVersion(Version(f.db.mt), f.db.mt.initialVersion)
    /\ db' = dbOf(s) /\ copy' = s /\ lastCommit' = [version |-> Version(s), hash |-> CommitHash(s.info, binary)]
    /\ DOMAIN stores' = TreeNames(s) /\ (\A n \in DOMAIN stores' : stores'[n] = <<>>)
    /\ binary' = binary /\ binary \in DOMAIN Binaries /\ Running
    /\ announced' = None /\ writes' = 0 /\ DOMAIN history' = DOMAIN history \cup {Version(s)}
    /\ (\A n \in DOMAIN stores : stores[n] = <<>>) => f.db = db

(* What a commit leaves, also when it switches to a rewritten snapshot. *)
LEMMA CommitEffect ==
    ASSUME IInv, Commit
    PROVE  \E f, s : CommitStep(f, s)
<1>. DEFINE f == flush
            s == SaveVersion(f.db.mt, TRUE)
            w == [upgrades |-> f.db.upgrades, changesets |-> f.db.changesets]
            log == writeWAL(disk.wal, walIndex(Version(s), s.initialVersion), w)
            sn == disk.snapshots[disk.current]
            reloaded == LET l == LoadMultiTree(sn) IN IF l.err THEN l ELSE catchupWAL(l.mt, log, 0)
            mt == IF rewritten THEN reloaded.mt ELSE s
            e == [disk EXCEPT !.wal = log]
            old == Load(disk, 0).mt
<1>1. /\ Running /\ Version(db.mt) < MaxVersion
      /\ disk' = e /\ db' = dbOf(mt) /\ stores' = Emptied /\ copy' = mt /\ announced' = None /\ writes' = 0
      /\ lastCommit' = [version |-> Version(mt), hash |-> CommitHash(mt.info, binary)]
      /\ history' = Put(history, Version(s), CommitHash(s.info, binary)) /\ binary' = binary
  BY ZenonT(40) DEF Commit, Executing
<1>2. /\ binary \in DOMAIN Binaries /\ DiskOK(disk) /\ Pending(db, old) /\ DOMAIN stores = TreeNames(db.mt)
      /\ \A n \in DOMAIN stores : stores[n] \in Seq(Nat)
  BY <1>1, Zenon DEF IInv, RunningInv
<1>3. /\ Pending(f.db, old) /\ TreeNames(f.db.mt) = TreeNames(db.mt)
      /\ (\A n \in DOMAIN stores : stores[n] = <<>>) => f.db = db
  BY <1>2, FlushPending, SMTT(30)
<1>4. Version(old) < MaxVersion
  BY <1>1, <1>2, PendingTree, Zenon
<1>. HIDE DEF f
<1>5. /\ DiskOK(e) /\ Load(e, 0) = Done(s) /\ Sound(s) /\ Version(s) \in 1 .. Bound
      /\ catchupWAL(sn, log, 0) = Done(s) /\ LoadMultiTree(sn) = Done(sn)
      /\ TreeNames(s) = TreeNames(f.db.mt)
      /\ Version(s) = nextVersion(Version(f.db.mt), f.db.mt.initialVersion)
      /\ s.info = buildCommitInfo(s, Version(s))
  <2>1. Committed(disk, f.db)
    BY <1>2, <1>3, <1>4, CommittedDisk, SMTT(30)
  <2>. QED  BY <2>1, ZenonT(40) DEF Committed
<1>. HIDE DEF e, log, s, sn, old
<1>6. reloaded = Done(s)
  <2>1. ~Done(sn).err /\ Done(sn).mt = sn
    BY DEF Done
  <2>. QED  BY <1>5, <2>1, ZenonT(40)
<1>7. mt = s
  <2>1. Done(s).mt = s
    BY SMTT(30) DEF Done
  <2>. QED  BY <1>6, <2>1, ZenonT(40)
<1>. HIDE DEF reloaded, mt
<1>8. DOMAIN stores' = TreeNames(s) /\ \A n \in DOMAIN stores' : stores'[n] = <<>>
  BY <1>1, <1>2, <1>3, <1>5, SMTT(30) DEF Emptied
<1>9. DOMAIN history' = DOMAIN history \cup {Version(s)}
  BY <1>1 DEF Put
<1>10. f = flush /\ s = SaveVersion(f.db.mt, TRUE) /\ old = Load(disk, 0).mt
  BY DEF f, s, old
<1>. QED  BY <1>1, <1>2, <1>3, <1>5, <1>7, <1>8, <1>9, <1>10, Zenon DEF CommitStep

(* Commit keeps the invariant. *)
LEMMA CommitInv ==
    ASSUME IInv, Commit
    PROVE  IInv'
<1>. PICK f, s : CommitStep(f, s)
  BY CommitEffect, SMTT(30)
<1>1. /\ DiskOK(disk') /\ Load(disk', 0) = Done(s) /\ Sound(s) /\ Version(s) \in 1 .. Bound
      /\ db' = dbOf(s) /\ copy' = s /\ lastCommit'.version = Version(s)
      /\ DOMAIN stores' = TreeNames(s) /\ (\A n \in DOMAIN stores' : stores'[n] = <<>>)
      /\ binary' = binary /\ binary \in DOMAIN Binaries /\ Running
      /\ announced' = None /\ writes' = 0 /\ DOMAIN history' = DOMAIN history \cup {Version(s)}
  BY Zenon DEF CommitStep
<1>2. Load(disk', 0).mt = s
  BY <1>1 DEF Done
<1>3. Pending(db', s) /\ db'.mt = s
  BY <1>1, NothingPending, SMTT(30) DEF dbOf
<1>4. \A n \in DOMAIN stores' : stores'[n] \in Seq(Nat)
  <2>1. <<>> \in Seq(Nat)
    OBVIOUS
  <2>. QED  BY <1>1, <2>1, Zenon
<1>5. RunningInv'
  BY <1>1, <1>2, <1>3, <1>4, SMTT(30) DEF RunningInv
<1>6. Version(s) \in Nat /\ Version(s) > 0
  BY <1>1, Bounds, SMTT(30)
<1>7. CopyInv' /\ AnnouncedInv'
  BY <1>1, <1>6, SMTT(30) DEF CopyInv, AnnouncedInv, Running
<1>. QED  BY <1>1, <1>5, <1>6, <1>7, SMTT(30) DEF IInv

(* The parts of a directory. *)
LEMMA DirectoryFields ==
    ASSUME NEW a, NEW b, NEW w, NEW e, e = [snapshots |-> a, current |-> b, wal |-> w]
    PROVE  e.snapshots = a /\ e.current = b /\ e.wal = w
OBVIOUS

(* A snapshot of the latest version, taken in a directory that loads. *)
LEMMA WrittenDisk ==
    ASSUME NEW d, DiskOK(d), NEW c, Load(d, 0) = Done(c), NEW v, v = Version(c),
           NEW snaps, snaps = Put(d.snapshots, v, c), NEW e, e = [snapshots |-> snaps, current |-> v, wal |-> d.wal]
    PROVE  DiskOK(e) /\ Load(e, 0) = Done(c)
<1>1. Stored(c, v) /\ Sound(c) /\ c \in MultiTrees /\ nextIndex(c) = Len(d.wal) + 1 /\ v \in Nat /\ v <= Bound
  <2>1. Done(c).mt = c
    BY DEF Done
  <2>2. Stored(c, v) /\ Sound(c) /\ nextIndex(c) = Len(d.wal) + 1
    BY <2>1, LoadedTree, SMTT(30)
  <2>. QED  BY <2>2, SoundReplays, SMTT(30) DEF Stored
<1>2. /\ d = [snapshots |-> d.snapshots, current |-> d.current, wal |-> d.wal] /\ d.wal \in Seq(WALEntries)
      /\ DOMAIN d.snapshots \subseteq Nat /\ \A k \in DOMAIN d.snapshots : Stored(d.snapshots[k], k)
  BY DEF DiskOK
<1>4. DOMAIN snaps = DOMAIN d.snapshots \cup {v} /\ \A k \in DOMAIN snaps : snaps[k] = IF k = v THEN c ELSE d.snapshots[k]
  BY DEF Put
<1>5. e.snapshots = snaps /\ e.current = v /\ e.wal = d.wal
  BY DirectoryFields, ZenonT(40)
<1>6. snaps[v] = c
  BY <1>4
<1>7. \A k \in DOMAIN snaps : Stored(snaps[k], k)
  BY <1>1, <1>2, <1>4, Zenon
<1>8. Len(d.wal) \in Nat /\ nextIndex(c) \in 1 .. Len(d.wal) + 1
  BY <1>1, <1>2, SMTT(30)
<1>9. catchupWAL(c, d.wal, 0) = Done(c)
  BY <1>1, <1>2, <1>8, CatchupLatest, SMTT(30)
<1>10. ~Done(c).err /\ Version(Done(c).mt) <= Bound
  BY <1>1 DEF Done
<1>11. DOMAIN snaps \subseteq Nat /\ v \in DOMAIN snaps
  BY <1>1, <1>2, <1>4, SMTT(30)
<1>12. /\ e = [snapshots |-> e.snapshots, current |-> e.current, wal |-> e.wal] /\ e.wal \in Seq(WALEntries)
       /\ DOMAIN e.snapshots \subseteq Nat /\ e.current \in DOMAIN e.snapshots
       /\ (\A k \in DOMAIN e.snapshots : Stored(e.snapshots[k], k))
       /\ nextIndex(e.snapshots[e.current]) \in 1 .. Len(e.wal) + 1
       /\ Done(c) = catchupWAL(e.snapshots[e.current], e.wal, 0)
  BY <1>2, <1>5, <1>6, <1>7, <1>8, <1>9, <1>11, Zenon
<1>. QED  BY <1>10, <1>12, MadeDisk, Zenon

(* RewriteSnapshot keeps the invariant. *)
LEMMA RewriteSnapshotInv ==
    ASSUME IInv, RewriteSnapshot
    PROVE  IInv'
<1>1. /\ Running /\ copy # None
      /\ disk' = [disk EXCEPT !.snapshots = Put(@, Version(copy), WriteSnapshot(copy)), !.current = Version(copy)]
      /\ copy' = None /\ binary' = binary /\ db' = db /\ stores' = stores /\ lastCommit' = lastCommit
      /\ announced' = announced /\ history' = history /\ writes' = writes
  BY DEF RewriteSnapshot
<1>2. RunningInv /\ AnnouncedInv /\ DiskOK(disk) /\ Load(disk, 0) = Done(copy)
  BY <1>1 DEF IInv, RunningInv, CopyInv
<1>3. DiskOK(disk') /\ Load(disk', 0) = Load(disk, 0)
  <2>. DEFINE snaps == Put(disk.snapshots, Version(copy), copy)
  <2>1. Done(copy).mt = copy
    BY DEF Done
  <2>2. WriteSnapshot(copy) = copy
    BY <1>2, <2>1, LoadedTree, SnapshotSame, SMTT(30) DEF Sound
  <2>3. disk' = [disk EXCEPT !.snapshots = snaps, !.current = Version(copy)]
    BY <1>1, <2>2, SMTT(30)
  <2>. HIDE DEF snaps
  <2>4. disk' = [snapshots |-> snaps, current |-> Version(copy), wal |-> disk.wal]
    <3>1. disk = [snapshots |-> disk.snapshots, current |-> disk.current, wal |-> disk.wal]
      BY <1>2 DEF DiskOK
    <3>. QED  BY <2>3, <3>1, DirectoryExcept, Zenon
  <2>5. snaps = Put(disk.snapshots, Version(copy), copy)
    BY DEF snaps
  <2>. QED  BY <1>2, <2>4, <2>5, WrittenDisk, SMTT(30)
<1>4. RunningInv'
  BY <1>1, <1>2, <1>3, SMTT(30) DEF RunningInv, Running
<1>5. AnnouncedInv' /\ CopyInv'
  BY <1>1, <1>2, SMTT(30) DEF AnnouncedInv, CopyInv, Running
<1>. QED  BY <1>1, <1>3, <1>4, <1>5 DEF IInv

-----------------------------------------------------------------------------
(* Rollback. *)

(* The snapshot a load of version target starts from. *)
LEMMA SoughtSnapshot ==
    ASSUME NEW d, DiskOK(d), NEW target \in Nat, NEW below, below = seekSnapshot(d, target), below # {},
           NEW v, v = Max(below)
    PROVE  v \in DOMAIN d.snapshots /\ v \in Nat /\ v <= target /\ \A k \in below : k <= v
<1>1. below = {k \in DOMAIN d.snapshots : k <= target} /\ DOMAIN d.snapshots \subseteq Nat
  BY DEF DiskOK, seekSnapshot
<1>2. below \in SUBSET Nat /\ \A k \in below : k <= target
  BY <1>1
<1>3. v \in below /\ \A k \in below : k <= v
  BY <1>2, GreatestNat, ZenonT(40)
<1>. QED  BY <1>1, <1>2, <1>3, SMTT(30)

(* Load of an older version. *)
LEMMA LoadAt ==
    ASSUME NEW d, DiskOK(d), NEW target \in Nat \ {0}, seekSnapshot(d, target) # {},
           NEW v, v = Max(seekSnapshot(d, target)), NEW s, s = d.snapshots[v]
    PROVE  /\ Stored(s, v) /\ v \in Nat /\ v <= target
           /\ v < target => Load(d, target) = catchupWAL(s, d.wal, target)
           /\ v = target => Load(d, target) = Done(s)
<1>1. v \in DOMAIN d.snapshots /\ v \in Nat /\ v <= target
  BY SoughtSnapshot
<1>2. Stored(s, v) /\ Version(s) = v
  BY <1>1 DEF DiskOK, Stored
<1>3. LoadMultiTree(s) = Done(s) /\ ~Done(s).err /\ Done(s).mt = s
  BY <1>2, StoredLoads, Zenon DEF Done
<1>4. target > 0 /\ target # 0
  OBVIOUS
<1>5. Load(d, target) = IF target > v THEN catchupWAL(s, d.wal, target) ELSE Done(s)
  BY <1>2, <1>3, <1>4, Zenon DEF Load, Then
<1>. QED  BY <1>1, <1>2, <1>5, SMTT(30)

(* Where a version is in the log. *)
LEMMA IndexAt ==
    ASSUME NEW s, Sound(s), NEW target \in Nat \ {0}, target <= Bound, Version(s) <= target, s.initialVersion <= Bound + 1,
           NEW index, index = walIndex(target, s.initialVersion), NEW n \in Nat, n <= Bound, index \in 1 .. n
    PROVE  /\ index = IF s.initialVersion > 1 THEN target - s.initialVersion + 1 ELSE target
           /\ Version(s) < target => nextIndex(s) <= index
           /\ Version(s) = target => nextIndex(s) = index + 1
<1>1. PICK v \in Nat : v = Version(s)
  BY SoundReplays
<1>2. PICK iv \in Nat : iv = s.initialVersion
  BY SoundReplays
<1>3. (v = 0 \/ v + 1 >= iv) /\ v <= target /\ iv <= Bound + 1
  BY <1>1, <1>2, SMTT(30) DEF Sound
<1>4. /\ nextIndex(s) = IF iv > 1 THEN nextVersion(v, iv) - iv + 1 ELSE nextVersion(v, iv)
      /\ index = IF iv > 1 THEN (target - iv + 1) % WORD ELSE target
  BY <1>1, <1>2, SMTT(30) DEF nextIndex, walIndex
<1>5. nextVersion(v, iv) = IF v = 0 /\ iv > 1 THEN iv ELSE v + 1
  BY DEF nextVersion
<1>6. CASE iv <= 1
  BY <1>1, <1>2, <1>3, <1>4, <1>5, <1>6, SMTT(30)
<1>7. CASE iv > 1 /\ target + 1 >= iv
  <2>1. target - iv + 1 \in 0 .. WORD - 1
    BY <1>7, Bounds, SMTT(30)
  <2>2. (target - iv + 1) % WORD = target - iv + 1
    BY <2>1, SmallIndex, SMTT(30)
  <2>. QED  BY <1>1, <1>2, <1>3, <1>4, <1>5, <1>7, <2>2, SMTT(30)
<1>8. CASE iv > 1 /\ target + 1 < iv
  <2>. DEFINE k == iv - 1 - target
  <2>1. k \in Nat /\ 0 < k /\ k <= Bound /\ k < WORD
    BY <1>3, <1>8, Bounds, SMTT(30)
  <2>2. target - iv + 1 = 0 - k
    OBVIOUS
  <2>. HIDE DEF k
  <2>3. index = WORD - k
    BY <1>4, <1>8, <2>1, <2>2, WrappedIndex, SMTT(30)
  <2>. QED  BY <2>1, <2>3, Bounds, SMTT(30)
<1>. QED  BY <1>6, <1>7, <1>8, SMTT(30)

(* The log is not longer than the latest version. *)
LEMMA LogLength ==
    ASSUME NEW d, DiskOK(d)
    PROVE  Len(d.wal) \in Nat /\ Len(d.wal) <= Bound
<1>. DEFINE mt == Load(d, 0).mt
<1>1. Sound(mt) /\ Stored(mt, Version(mt)) /\ nextIndex(mt) = Len(d.wal) + 1 /\ d.wal \in Seq(WALEntries)
  BY LoadedTree DEF DiskOK
<1>. HIDE DEF mt
<1>2. PICK v \in Nat : v = Version(mt) /\ v <= Bound
  BY <1>1, SoundReplays, SMTT(30) DEF Stored
<1>3. PICK iv \in Nat : iv = mt.initialVersion
  BY <1>1, SoundReplays, SMTT(30)
<1>4. nextIndex(mt) = IF iv > 1 THEN nextVersion(v, iv) - iv + 1 ELSE nextVersion(v, iv)
  BY <1>2, <1>3, SMTT(30) DEF nextIndex
<1>5. nextIndex(mt) <= v + 1
  BY <1>4 DEF nextVersion
<1>6. PICK n \in Nat : n = Len(d.wal)
  BY <1>1
<1>. QED  BY <1>1, <1>2, <1>5, <1>6, Bounds, SMTT(30)

(* The directory that LoadForOverwriting leaves. *)
LEMMA RolledBackDisk ==
    ASSUME NEW d, DiskOK(d), NEW target \in 1 .. MaxVersion, seekSnapshot(d, target) # {}, ~Load(d, target).err,
           NEW v, v = Max(seekSnapshot(d, target)),
           NEW index, index = walIndex(target, d.snapshots[v].initialVersion), index \in 1 .. Len(d.wal)
    PROVE  DiskOK(RolledBack(d, target))
<1>. DEFINE s == d.snapshots[v]
            snaps == Until(d.snapshots, target)
            log == SubSeq(d.wal, 1, index)
            e == RolledBack(d, target)
            c == catchupWAL(s, log, 0)
<1>1. /\ d = [snapshots |-> d.snapshots, current |-> d.current, wal |-> d.wal] /\ d.wal \in Seq(WALEntries)
      /\ DOMAIN d.snapshots \subseteq Nat /\ \A k \in DOMAIN d.snapshots : Stored(d.snapshots[k], k)
  BY DEF DiskOK
<1>2. target \in Nat \ {0} /\ target <= Bound
  BY Bounds, SMTT(30) DEF Bound
<1>3. /\ Stored(s, v) /\ v \in Nat /\ v <= target /\ v \in DOMAIN d.snapshots
      /\ (v < target => Load(d, target) = catchupWAL(s, d.wal, target))
  BY <1>2, LoadAt, SoughtSnapshot, SMTT(30)
<1>4. Sound(s) /\ s \in MultiTrees /\ Version(s) = v /\ v <= Bound /\ s.initialVersion <= Bound + 1 /\ s.initialVersion \in Nat
  BY <1>3, SoundReplays, SMTT(30) DEF Stored
<1>5. Len(d.wal) \in Nat /\ Len(d.wal) <= Bound
  BY LogLength, SMTT(30)
<1>. HIDE DEF s
<1>6. /\ index = IF s.initialVersion > 1 THEN target - s.initialVersion + 1 ELSE target
      /\ (v < target => nextIndex(s) <= index) /\ (v = target => nextIndex(s) = index + 1)
  <2>1. index = walIndex(target, s.initialVersion) /\ Version(s) <= target
    BY <1>3, <1>4, SMTT(30) DEF s
  <2>. QED  BY <1>2, <1>4, <1>5, <2>1, IndexAt, SMTT(30)
<1>7. index \in Nat \ {0} /\ log \in Seq(WALEntries) /\ Len(log) = index
  BY <1>1, <1>5, SMTT(30)
<1>8. nextIndex(s) \in 1 .. index + 1
  <2>1. PICK k \in Nat \ {0} : k = nextIndex(s)
    BY <1>4, SoundReplays, SMTT(30)
  <2>. QED  BY <1>3, <1>6, <1>7, <2>1, SMTT(30)
<1>9. /\ c \in Replays(s.initialVersion)
      /\ (~c.err => nextIndex(c.mt) = index + 1) /\ (v = target => c = Done(s))
  BY <1>4, <1>6, <1>7, <1>8, CatchupLatest, ZenonT(40)
<1>10. ~c.err
  <2>1. CASE v < target
    <3>1. catchupWAL(s, SubSeq(d.wal, 1, index), 0) = catchupWAL(s, d.wal, target)
      <4>1. index \in 1 .. Len(d.wal) /\ index = walIndex(target, s.initialVersion) /\ nextIndex(s) <= index
        BY <1>6, <2>1, SMTT(30) DEF s
      <4>. QED  BY <1>1, <1>2, <1>4, <4>1, CatchupPrefix, SMTT(30)
    <3>. QED  BY <1>3, <2>1, <3>1, SMTT(30)
  <2>2. CASE v = target
    BY <1>9, <2>2 DEF Done
  <2>. QED  BY <1>2, <1>3, <2>1, <2>2, SMTT(30)
<1>. HIDE DEF c, log
<1>11. Version(c.mt) <= Bound
  <2>1. c.mt \in MultiTrees /\ c.mt.initialVersion = s.initialVersion
    BY <1>9 DEF Replays, Results
  <2>2. Version(c.mt) = target
    BY <1>2, <1>6, <1>7, <1>9, <1>10, <2>1, ReachedVersion, SMTT(30)
  <2>. QED  BY <1>2, <2>2, SMTT(30)
<1>12. /\ DOMAIN snaps \subseteq Nat /\ v \in DOMAIN snaps /\ snaps[v] = s
       /\ \A k \in DOMAIN snaps : Stored(snaps[k], k)
  BY <1>1, <1>3, SMTT(30) DEF Until, s
<1>. HIDE DEF snaps
<1>13. e = [snapshots |-> snaps, current |-> v, wal |-> log]
  <2>1. e = [d EXCEPT !.current = v, !.snapshots = snaps, !.wal = log]
    BY Zenon DEF RolledBack, snaps, log
  <2>. HIDE DEF e
  <2>. QED  BY <1>1, <2>1, DirectoryExcept, Zenon
<1>. HIDE DEF e
<1>14. e.snapshots = snaps /\ e.current = v /\ e.wal = log
  BY <1>13, DirectoryFields
<1>15. /\ e = [snapshots |-> e.snapshots, current |-> e.current, wal |-> e.wal] /\ e.wal \in Seq(WALEntries)
       /\ DOMAIN e.snapshots \subseteq Nat /\ e.current \in DOMAIN e.snapshots
       /\ (\A k \in DOMAIN e.snapshots : Stored(e.snapshots[k], k))
       /\ nextIndex(e.snapshots[e.current]) \in 1 .. Len(e.wal) + 1
       /\ c = catchupWAL(e.snapshots[e.current], e.wal, 0)
  BY <1>7, <1>8, <1>12, <1>13, <1>14, Zenon DEF c
<1>16. DiskOK(e)
  BY <1>10, <1>11, <1>15, MadeDisk, ZenonT(40)
<1>. QED  BY <1>16 DEF e

(* RollbackToVersion keeps the invariant. *)
LEMMA RollbackToVersionInv ==
    ASSUME IInv, NEW target \in 1 .. MaxVersion, RollbackToVersion(target)
    PROVE  IInv'
<1>. DEFINE v == Max(seekSnapshot(disk, target))
            index == walIndex(target, disk.snapshots[v].initialVersion)
<1>1. /\ ~Running /\ seekSnapshot(disk, target) # {} /\ index \in 1 .. Len(disk.wal) /\ ~Load(disk, target).err
      /\ disk' = RolledBack(disk, target) /\ history' = Until(history, target)
      /\ binary' = binary /\ lastCommit' = lastCommit /\ announced' = announced /\ copy' = copy /\ writes' = writes
  BY DEF RollbackToVersion
<1>2. DiskOK(disk)
  <2>1. disk # EmptyDisk
    BY <1>1 DEF EmptyDisk, seekSnapshot
  <2>. QED  BY <2>1 DEF IInv
<1>3. DiskOK(disk')
  BY <1>1, <1>2, RolledBackDisk, SMTT(30)
<1>4. DOMAIN history' \subseteq 1 .. Bound
  BY <1>1, SMTT(30) DEF IInv, Until
<1>5. announced = None /\ copy = None
  BY <1>1 DEF IInv, AnnouncedInv, CopyInv
<1>. QED  BY <1>1, <1>3, <1>4, <1>5, SMTT(30) DEF IInv, RunningInv, AnnouncedInv, CopyInv, Running

-----------------------------------------------------------------------------
(* Restore from a snapshot of a peer. *)

(* What a peer exports. *)
LEMMA Exported ==
    ASSUME NEW height \in Nat \ {0}, NEW nonSnapshotVersion, disk = EmptyDisk \/ DiskOK(disk),
           NEW export, export = MultiTreeExporter(height, nonSnapshotVersion), ~export.err
    PROVE  export.mt \in MultiTrees /\ UniqueNames(export.mt)
<1>1. ASSUME NEW m PROVE Failed(m).err /\ ~Done(m).err /\ Done(m).mt = m
  BY DEF Failed, Done
<1>2. CASE nonSnapshotVersion
  <2>. DEFINE below == seekSnapshot(disk, height)
              v == Max(below)
              s == disk.snapshots[v]
  <2>1. export = Load(disk, height)
    BY <1>2 DEF MultiTreeExporter
  <2>2. below # {}
    <3>1. ASSUME below = {} PROVE export.err
      <4>1. height > 0
        OBVIOUS
      <4>2. Load(disk, height) = Failed(NewEmptyMultiTree(0))
        BY <3>1, <4>1, Zenon DEF Load
      <4>. QED  BY <1>1, <2>1, <4>2, SMTT(30)
    <3>. QED  BY <3>1
  <2>3. DiskOK(disk)
    <3>1. disk # EmptyDisk
      BY <2>2, SMTT(30) DEF EmptyDisk, seekSnapshot
    <3>. QED  BY <3>1
  <2>4. /\ Stored(s, v) /\ v \in Nat /\ v <= height
        /\ (v < height => Load(disk, height) = catchupWAL(s, disk.wal, height))
        /\ (v = height => Load(disk, height) = Done(s))
    BY <2>2, <2>3, LoadAt, SMTT(30)
  <2>. HIDE DEF s, v
  <2>5. Sound(s) /\ s \in MultiTrees /\ UniqueNames(s)
    BY <2>4 DEF Stored, Sound
  <2>6. CASE v = height
    <3>1. export.mt = s
      BY <1>1, <2>1, <2>4, <2>6, Zenon
    <3>. QED  BY <2>5, <3>1, SMTT(30)
  <2>7. CASE v < height
    <3>1. disk.wal \in Seq(WALEntries)
      BY <2>3, SMTT(30) DEF DiskOK
    <3>2. export \in Replays(s.initialVersion)
      BY <2>1, <2>4, <2>5, <2>7, <3>1, CatchupType, SMTT(30)
    <3>. QED  BY <3>2 DEF Replays, Results
  <2>. QED  BY <2>4, <2>6, <2>7, SMTT(30)
<1>3. CASE ~nonSnapshotVersion
  <2>. DEFINE s == disk.snapshots[height]
  <2>1. /\ ~(height > disk.current) /\ height \in DOMAIN disk.snapshots /\ export = LoadMultiTree(s)
    BY <1>1, <1>3, Zenon DEF MultiTreeExporter
  <2>2. DiskOK(disk)
    <3>1. disk # EmptyDisk
      BY <2>1, SMTT(30) DEF EmptyDisk
    <3>. QED  BY <3>1
  <2>3. Stored(s, height)
    BY <2>1, <2>2, SMTT(30) DEF DiskOK
  <2>. HIDE DEF s
  <2>4. export.mt = s
    BY <1>1, <2>1, <2>3, StoredLoads, SMTT(30)
  <2>. QED  BY <2>3, <2>4 DEF Stored, Sound
<1>. QED  BY <1>2, <1>3, SMTT(30)

(* The snapshot that the importer writes. *)
LEMMA ImportedStored ==
    ASSUME NEW m \in MultiTrees, UniqueNames(m), NEW height \in 1 .. Bound, NEW s, s = Import(m.trees, height)
    PROVE  Stored(s, height) /\ nextIndex(s) = 1
<1>. DEFINE at == [i \in DOMAIN m.trees |-> [m.trees[i] EXCEPT !.version = height]]
            mt == [NewEmptyMultiTree(height + 1) EXCEPT !.trees = at]
            info == buildCommitInfo(mt, height)
            q == [mt EXCEPT !.info = info]
            n == Len(m.trees)
<1>1. m.trees \in Seq(Trees) /\ n \in Nat /\ DOMAIN m.trees = 1..n /\ height \in Nat \ {0} /\ height <= Bound
  BY Bounds DEF MultiTrees
<1>2. /\ at \in Seq(Trees) /\ Len(at) = n /\ DOMAIN at = 1..n
      /\ \A i \in 1..n : at[i].version = height /\ at[i].name = m.trees[i].name
  <2>1. ASSUME NEW i \in 1..n PROVE at[i] \in Trees /\ at[i].version = height /\ at[i].name = m.trees[i].name
    <3>1. PICK t \in Trees : t = m.trees[i]
      BY <1>1
    <3>2. at[i] = [t EXCEPT !.version = height]
      BY <1>1, <3>1, SMTT(30)
    <3>. QED  BY <1>1, <3>1, <3>2, Zenon DEF Trees
  <2>2. at = [i \in 1..n |-> at[i]]
    BY <1>1
  <2>. HIDE DEF at
  <2>3. at \in [1..n -> Trees]
    BY <2>1, <2>2, SMTT(30)
  <2>4. at \in Seq(Trees) /\ Len(at) = n /\ DOMAIN at = 1..n
    BY <1>1, <2>3
  <2>. QED  BY <2>1, <2>4, Zenon
<1>. HIDE DEF at
<1>3. mt \in MultiTrees /\ mt.trees = at /\ mt.initialVersion = height + 1
  <2>1. /\ NewEmptyMultiTree(height + 1) \in MultiTrees
        /\ NewEmptyMultiTree(height + 1).initialVersion = height + 1
    BY <1>1, EmptyTree, SMTT(30)
  <2>. QED  BY <1>2, <2>1, SMTT(30) DEF MultiTrees
<1>. HIDE DEF mt
<1>4. info \in CommitInfos /\ info.version = height
  BY <1>1, <1>3, CommitInfoType, SMTT(30)
<1>5. info = buildCommitInfo(q, height)
  <2>1. q.trees = mt.trees
    BY <1>3 DEF MultiTrees
  <2>. QED  BY <2>1, Zenon DEF buildCommitInfo
<1>. HIDE DEF info
<1>6. q \in MultiTrees /\ q.trees = at /\ q.initialVersion = height + 1 /\ q.info = info
  BY <1>3, <1>4 DEF MultiTrees
<1>7. s = q
  <2>1. s = WriteSnapshot(q)
    BY Zenon DEF Import, q, mt, at, info
  <2>. HIDE DEF q
  <2>. QED  BY <1>6, <2>1, SnapshotSame, SMTT(30)
<1>8. Version(s) = height /\ s.info = buildCommitInfo(s, height)
  BY <1>4, <1>5, <1>6, <1>7, SMTT(30) DEF Version
<1>. HIDE DEF q
<1>9. nextVersion(height, height + 1) = height + 1
  BY <1>1 DEF nextVersion
<1>10. InStep(s)
  BY <1>1, <1>2, <1>6, <1>7, <1>8, <1>9, SMTT(30) DEF InStep
<1>11. UniqueNames(s)
  BY <1>1, <1>2, <1>6, <1>7, SMTT(30) DEF UniqueNames
<1>12. Sound(s)
  BY <1>1, <1>6, <1>7, <1>8, <1>10, <1>11, Bounds, SMTT(30) DEF Sound
<1>13. nextIndex(s) = 1
  BY <1>1, <1>6, <1>7, <1>8, <1>9, SMTT(30) DEF nextIndex
<1>. QED  BY <1>1, <1>6, <1>7, <1>8, <1>12, <1>13, Bounds, SMTT(30) DEF Stored

(* The directory that Restore opens. *)
LEMMA NewDisk ==
    ASSUME NEW fresh, fresh = createDBIfNotExist(EmptyDisk)
    PROVE  DiskOK(fresh) /\ fresh.wal = <<>>
<1>1. fresh = initEmptyDB(EmptyDisk, 0)
  BY DEF createDBIfNotExist
<1>2. Blank(EmptyDisk) /\ 0 \in {0, InitialHeight}
  BY DEF Blank
<1>. QED  BY <1>1, <1>2, FreshDisk, SMTT(30) DEF Created

(* The directory that Restore opens loads the imported trees. *)
LEMMA ImportedDisk ==
    ASSUME NEW s, NEW height \in 1 .. Bound, Stored(s, height), nextIndex(s) = 1,
           NEW fresh, DiskOK(fresh), NEW snaps, snaps = Put(fresh.snapshots, height, s),
           NEW d, d = [snapshots |-> snaps, current |-> height, wal |-> <<>>]
    PROVE  DiskOK(d) /\ Load(d, 0) = Done(s)
<1>2. DOMAIN fresh.snapshots \subseteq Nat /\ \A k \in DOMAIN fresh.snapshots : Stored(fresh.snapshots[k], k)
  BY DEF DiskOK
<1>4. d.snapshots = snaps /\ d.current = height /\ d.wal = <<>>
  BY DirectoryFields, ZenonT(40)
<1>5. DOMAIN snaps = DOMAIN fresh.snapshots \cup {height} /\ \A k \in DOMAIN snaps : snaps[k] = IF k = height THEN s ELSE fresh.snapshots[k]
  BY DEF Put
<1>6. DOMAIN snaps \subseteq Nat /\ height \in DOMAIN snaps /\ snaps[height] = s /\ height \in Nat
  BY <1>2, <1>5, Bounds, SMTT(30)
<1>7. \A k \in DOMAIN snaps : Stored(snaps[k], k)
  BY <1>2, <1>5, ZenonT(40)
<1>8. <<>> \in Seq(WALEntries) /\ nextIndex(s) \in 1 .. Len(<<>>) + 1 /\ nextIndex(s) = Len(<<>>) + 1
  OBVIOUS
<1>9. catchupWAL(s, <<>>, 0) = Done(s)
  <2>1. PICK log \in Seq(WALEntries) : log = <<>>
    BY <1>8, ZenonT(40)
  <2>2. Sound(s) /\ nextIndex(s) \in 1 .. Len(log) + 1 /\ nextIndex(s) = Len(log) + 1
    BY <1>8, <2>1, SMTT(30) DEF Stored
  <2>3. catchupWAL(s, log, 0) = Done(s)
    BY <2>2, CatchupLatest, SMTT(30)
  <2>. QED  BY <2>1, <2>3
<1>10. ~Done(s).err /\ Version(Done(s).mt) <= Bound
  BY DEF Done, Stored
<1>11. /\ d = [snapshots |-> d.snapshots, current |-> d.current, wal |-> d.wal] /\ d.wal \in Seq(WALEntries)
       /\ DOMAIN d.snapshots \subseteq Nat /\ d.current \in DOMAIN d.snapshots
       /\ (\A k \in DOMAIN d.snapshots : Stored(d.snapshots[k], k))
       /\ nextIndex(d.snapshots[d.current]) \in 1 .. Len(d.wal) + 1
       /\ Done(s) = catchupWAL(d.snapshots[d.current], d.wal, 0)
  BY <1>4, <1>6, <1>7, <1>8, <1>9, Zenon
<1>. QED  BY <1>10, <1>11, MadeDisk, Zenon

(* Restore keeps the invariant. *)
LEMMA RestoreInv ==
    ASSUME IInv, NEW b \in DOMAIN Binaries, NEW height \in DOMAIN history, NEW nonSnapshotVersion \in BOOLEAN,
           Restore(b, height, nonSnapshotVersion)
    PROVE  IInv'
<1>. DEFINE export == MultiTreeExporter(height, nonSnapshotVersion)
            fresh == createDBIfNotExist(EmptyDisk)
            s == Import(export.mt.trees, height)
            snaps == Put(fresh.snapshots, height, s)
            d == [fresh EXCEPT !.snapshots = snaps, !.current = height]
            l == LoadVersionAndUpgrade(b, d, <<>>)
<1>1. ~export.err /\ ~l.err /\ Install(b, d, l.db) /\ history' = Until(history, height)
  BY DEF Restore
<1>2. height \in 1 .. Bound /\ height \in Nat \ {0} /\ (disk = EmptyDisk \/ DiskOK(disk)) /\ DOMAIN history \subseteq 1 .. Bound
  BY Bounds DEF IInv
<1>3. export.mt \in MultiTrees /\ UniqueNames(export.mt)
  BY <1>1, <1>2, Exported, SMTT(30)
<1>. HIDE DEF export
<1>4. Stored(s, height) /\ nextIndex(s) = 1
  BY <1>2, <1>3, ImportedStored, SMTT(30)
<1>. HIDE DEF s, fresh
<1>5. DiskOK(d) /\ Load(d, 0) = Done(s)
  <2>1. DiskOK(fresh) /\ fresh.wal = <<>>
    BY NewDisk DEF fresh
  <2>. HIDE DEF snaps
  <2>2. d = [snapshots |-> snaps, current |-> height, wal |-> <<>>]
    <3>1. fresh = [snapshots |-> fresh.snapshots, current |-> fresh.current, wal |-> fresh.wal]
      BY <2>1 DEF DiskOK
    <3>2. d = [fresh EXCEPT !.snapshots = snaps, !.current = height]
      BY SMTT(30)
    <3>. HIDE DEF d
    <3>3. d = [snapshots |-> snaps, current |-> height, wal |-> fresh.wal]
      BY <3>1, <3>2, DirectoryExcept, Zenon
    <3>. QED  BY <2>1, <3>3, ZenonT(40)
  <2>. HIDE DEF d
  <2>3. snaps = Put(fresh.snapshots, height, s)
    BY DEF snaps
  <2>. QED  BY <1>2, <1>4, <2>1, <2>2, <2>3, ImportedDisk, SMTT(30)
<1>. HIDE DEF d
<1>6. Pending(l.db, Load(d, 0).mt) /\ TreeNames(l.db.mt) = Binaries[b].iavl
  <2>1. <<>> \in Seq(TreeNameUpgrades)
    OBVIOUS
  <2>. QED  BY <1>1, <1>5, <2>1, LoadedPending, Zenon
<1>7. DOMAIN history' \subseteq 1 .. Bound
  BY <1>1, <1>2, SMTT(30) DEF Until
<1>. HIDE DEF l
<1>. QED  BY <1>1, <1>5, <1>6, <1>7, Installed, SMTT(30)

(* The invariant holds at first. *)
LEMMA InitInv == Init => IInv
<1>. SUFFICES ASSUME Init PROVE IInv
  OBVIOUS
<1>1. DOMAIN history = {}
  BY DEF Init
<1>. QED  BY <1>1 DEF Init, IInv, RunningInv, AnnouncedInv, CopyInv, Running

(* Every step keeps the invariant. *)
LEMMA StepInv == IInv /\ [Next]_vars => IInv'
<1>. SUFFICES ASSUME IInv, [Next]_vars PROVE IInv'
  OBVIOUS
<1>1. CASE \E b \in DOMAIN Binaries : Boot(b)
  BY <1>1, BootInv
<1>2. CASE SetInitialVersion
  BY <1>2, SetInitialVersionInv, SMTT(30)
<1>3. CASE \E n \in DOMAIN stores : Write(n)
  BY <1>3, WriteInv, SMTT(30)
<1>4. CASE WorkingHash
  BY <1>4, WorkingHashInv
<1>5. CASE Commit
  BY <1>5, CommitInv
<1>6. CASE RewriteSnapshot
  BY <1>6, RewriteSnapshotInv
<1>7. CASE Crash
  <2>1. /\ disk' = disk /\ history' = history /\ binary' = 0 /\ writes' = 0 /\ lastCommit'.version = 0
        /\ announced' = None /\ copy' = None
    BY <1>7 DEF Crash, Down
  <2>2. DOMAIN history' \subseteq 1 .. Bound /\ (disk' = EmptyDisk \/ DiskOK(disk'))
    BY <2>1 DEF IInv
  <2>. QED  BY <2>1, <2>2, StoppedInv, SMTT(30)
<1>8. CASE \E v \in 1 .. MaxVersion : RollbackToVersion(v)
  BY <1>8, RollbackToVersionInv, SMTT(30)
<1>9. CASE \E b \in DOMAIN Binaries, v \in DOMAIN history, s \in BOOLEAN : Restore(b, v, s)
  BY <1>9, RestoreInv, SMTT(30)
<1>10. CASE UNCHANGED vars
  BY <1>10 DEF vars, IInv, RunningInv, AnnouncedInv, CopyInv, Running
<1>. QED  BY <1>1, <1>2, <1>3, <1>4, <1>5, <1>6, <1>7, <1>8, <1>9, <1>10, SMTT(30) DEF Next

(* In every behaviour of the store the directory loads, the live trees are *)
(* what it loads with the pending log applied, a rewrite copies the latest *)
(* version, and an announced hash is that of the live trees.               *)
THEOREM StoreInvariance == Spec => []IInv
<1>. QED  BY InitInv, StepInv, PTL DEF Spec

-----------------------------------------------------------------------------
(* What the invariant gives. *)

(* In every behaviour of the store, with any releases and any number of    *)
(* blocks, crashes, rollbacks and restores, every tree is one version      *)
(* below the version built next.                                           *)
THEOREM TreesStayInStep == Spec => []TreesInStep
<1>1. IInv => TreesInStep
  <2>. SUFFICES ASSUME IInv, Running PROVE InStep(db.mt)
    BY DEF TreesInStep, InStep
  <2>1. Pending(db, Load(disk, 0).mt)
    BY SMTT(30) DEF IInv, RunningInv
  <2>. QED  BY <2>1, PendingTree, SMTT(30)
<1>. QED  BY <1>1, StoreInvariance, PTL

(* In every behaviour of the store, replaying the directory and then the   *)
(* pending log gives the live trees.                                       *)
THEOREM PendingLogAlwaysReplays == Spec => []PendingLogReplays
<1>1. IInv => PendingLogReplays
  <2>. SUFFICES ASSUME IInv, Running PROVE PendingLogReplays
    BY SMTT(30) DEF PendingLogReplays
  <2>. DEFINE l == Load(disk, 0)
              e == [upgrades |-> db.upgrades, changesets |-> db.changesets]
              u == ApplyUpgrades(l.mt, db.upgrades)
              r == applyWALEntry(l.mt, e)
  <2>1. ~l.err /\ Pending(db, l.mt)
    BY LoadedTree, SMTT(30) DEF IInv, RunningInv
  <2>2. /\ ~u.err /\ u.mt \in MultiTrees /\ InStep(u.mt) /\ UniqueNames(u.mt)
        /\ Logged(u.mt, db.changesets) /\ db.mt = WithPairs(u.mt, db.changesets)
    BY <2>1, ZenonT(40) DEF Pending, Sound
  <2>3. ApplyChangeSets(u.mt, db.changesets) = Done(db.mt)
    BY <2>2, ChangeSetsApplied, SMTT(30)
  <2>4. e.upgrades = db.upgrades /\ e.changesets = db.changesets
    OBVIOUS
  <2>. HIDE DEF e
  <2>5. r = IF u.err THEN u ELSE ApplyChangeSets(u.mt, db.changesets)
    BY <2>4, Zenon DEF applyWALEntry, Then
  <2>6. r = Done(db.mt)
    BY <2>2, <2>3, <2>5, ZenonT(40)
  <2>. HIDE DEF u, r, l
  <2>7. ~r.err /\ r.mt.trees = db.mt.trees
    BY <2>6, SMTT(30) DEF Done
  <2>8. l.mt.info = db.mt.info
    BY <2>1, PendingTree, SMTT(30)
  <2>. QED  BY <2>1, <2>7, <2>8, ZenonT(40) DEF PendingLogReplays, l, r, e
<1>. QED  BY <1>1, StoreInvariance, PTL

(* The commit info that SaveVersion stores has the hashes of the one that  *)
(* WorkingHash computes.                                                   *)
LEMMA SavedHash ==
    ASSUME NEW mt \in MultiTrees, NEW s, s = SaveVersion(mt, TRUE)
    PROVE  AppHash(s.info) = AppHash(WorkingCommitInfo(mt))
<1>. DEFINE n == Len(mt.trees)
            w == WorkingCommitInfo(mt)
<1>1. mt.trees \in Seq(Trees) /\ DOMAIN mt.trees = 1..n
  BY DEF MultiTrees
<1>2. /\ s \in MultiTrees /\ Len(s.trees) = n /\ Version(s) \in Nat /\ s.info = buildCommitInfo(s, Version(s))
      /\ \A i \in 1..n : s.trees[i] = SaveTreeVersion(mt.trees[i])
  BY Saved, Zenon
<1>3. /\ DOMAIN s.info.stores = 1..n
      /\ \A i \in 1..n : s.info.stores[i].name = s.trees[i].name /\ s.info.stores[i].hash = s.trees[i].writes
  <2>1. ListsTrees(s.info, s) /\ Len(s.trees) = n
    BY <1>2, InfoStores, ZenonT(40)
  <2>. QED  BY <2>1, Zenon DEF ListsTrees
<1>4. /\ DOMAIN w.stores = 1..n
      /\ \A i \in 1..n : w.stores[i].name = mt.trees[i].name /\ w.stores[i].hash = mt.trees[i].writes
  BY InfoStores DEF ListsTrees, WorkingCommitInfo
<1>5. ASSUME NEW i \in 1..n PROVE s.trees[i].name = mt.trees[i].name /\ s.trees[i].writes = mt.trees[i].writes
  <2>1. PICK t \in Trees : t = mt.trees[i]
    BY <1>1
  <2>2. SaveTreeVersion(t).name = t.name /\ SaveTreeVersion(t).writes = t.writes
    BY DEF SaveTreeVersion, Trees
  <2>. QED  BY <1>2, <2>1, <2>2, Zenon
<1>. HIDE DEF w
<1>6. /\ AppHash(s.info) = {<<s.info.stores[i].name, s.info.stores[i].hash>> : i \in 1..n}
      /\ AppHash(w) = {<<w.stores[i].name, w.stores[i].hash>> : i \in 1..n}
  BY <1>3, <1>4, Zenon DEF AppHash
<1>7. \A i \in 1..n : s.info.stores[i].name = w.stores[i].name /\ s.info.stores[i].hash = w.stores[i].hash
  BY <1>3, <1>4, <1>5, Zenon
<1>. QED  BY <1>6, <1>7, ZenonT(40) DEF w

(* Commit returns the hash that WorkingHash announced, in every behaviour  *)
(* of the store, also when the commit switches to a rewritten snapshot.    *)
THEOREM AnnouncedAlwaysCommitted == Spec => AnnouncedIsCommitted
<1>1. IInv /\ [Next]_vars => [announced # None /\ lastCommit'.version > lastCommit.version => lastCommit' = announced]_vars
  <2>. SUFFICES ASSUME IInv, Next, announced # None, lastCommit'.version > lastCommit.version
                PROVE  lastCommit' = announced
    OBVIOUS
  <2>1. Running /\ lastCommit.version \in Nat
    BY DEF IInv, AnnouncedInv
  <2>2. CASE Commit
    <3>1. PICK f, s : CommitStep(f, s)
      BY <2>2, CommitEffect, SMTT(30)
    <3>2. /\ f.db = db /\ s = SaveVersion(db.mt, TRUE) /\ Pending(db, Load(disk, 0).mt)
          /\ Version(s) = nextVersion(Version(db.mt), db.mt.initialVersion)
          /\ lastCommit' = [version |-> Version(s), hash |-> CommitHash(s.info, binary)]
      BY <3>1, ZenonT(40) DEF CommitStep, IInv, AnnouncedInv
    <3>3. announced = [version |-> nextVersion(Version(db.mt), db.mt.initialVersion),
                       hash |-> CommitHash(WorkingCommitInfo(db.mt), binary)]
      BY SMTT(30) DEF IInv, AnnouncedInv
    <3>4. AppHash(s.info) = AppHash(WorkingCommitInfo(db.mt))
      BY <3>2, PendingTree, SavedHash, Zenon
    <3>5. CommitHash(s.info, binary) = CommitHash(WorkingCommitInfo(db.mt), binary)
      BY <3>4, Zenon DEF CommitHash
    <3>. QED  BY <3>2, <3>3, <3>5, Zenon
  <2>3. CASE Crash
    BY <2>1, <2>3, SMTT(30) DEF Crash, Down
  <2>4. CASE \E v \in 1 .. MaxVersion : RollbackToVersion(v)
    BY <2>1, <2>4, SMTT(30) DEF RollbackToVersion
  <2>5. CASE \E b \in DOMAIN Binaries : Boot(b)
    BY <2>1, <2>5, SMTT(30) DEF Boot
  <2>6. CASE \E b \in DOMAIN Binaries, v \in DOMAIN history, s \in BOOLEAN : Restore(b, v, s)
    BY <2>1, <2>6, SMTT(30) DEF Restore
  <2>7. CASE SetInitialVersion \/ WorkingHash \/ RewriteSnapshot \/ \E n \in DOMAIN stores : Write(n)
    <3>1. lastCommit' = lastCommit
      BY <2>7 DEF SetInitialVersion, WorkingHash, RewriteSnapshot, Write
    <3>. QED  BY <2>1, <3>1, SMTT(30)
  <2>. QED  BY <2>2, <2>3, <2>4, <2>5, <2>6, <2>7, SMTT(30) DEF Next
<1>. QED  BY <1>1, StoreInvariance, PTL DEF Spec, AnnouncedIsCommitted
=============================================================================
