-------------------------- MODULE RootMultiProofs ---------------------------
(***************************************************************************)
(* The store: the inductive invariant, what a loadable directory loads,    *)
(* that the pending log of the database always explains the live trees     *)
(* (after a load, after upgrades, and after every change set that a flush  *)
(* applies), and that the steps of a node up to Commit keep the invariant. *)
(***************************************************************************)
EXTENDS RootMulti, MultiTreeReplayProofs

(* no version exceeds this *)
Bound == MaxVersion + InitialHeight

(* a snapshot of version v *)
Stored(s, v) ==
    /\ Sound(s) /\ Version(s) = v /\ v <= Bound /\ s.initialVersion <= Bound + 1
    /\ v = 0 => s.trees = <<>> /\ s.info.stores = <<>> /\ s.initialVersion \in {0, InitialHeight}
    /\ v > 0 => s.info = buildCommitInfo(s, v)

(* a directory that loads *)
DiskOK(d) ==
    /\ d = [snapshots |-> d.snapshots, current |-> d.current, wal |-> d.wal]
    /\ d.wal \in Seq(WALEntries)
    /\ DOMAIN d.snapshots \subseteq Nat /\ d.current \in DOMAIN d.snapshots
    /\ \A v \in DOMAIN d.snapshots : Stored(d.snapshots[v], v)
    /\ nextIndex(d.snapshots[d.current]) \in 1 .. Len(d.wal) + 1
    /\ ~Load(d, 0).err /\ Version(Load(d, 0).mt) <= Bound

(* a database: the live trees and the pending log *)
DBs == [mt : MultiTrees, upgrades : Seq(TreeNameUpgrades), changesets : Seq(NamedChangeSets),
        cached : SUBSET (Nat \ {0})]

(* d is mt after the upgrades and the change sets of its pending log *)
Pending(d, mt) ==
    LET u == ApplyUpgrades(mt, d.upgrades)
    IN /\ d \in DBs
       /\ ~u.err /\ Sound(u.mt) /\ u.mt.info = mt.info /\ u.mt.initialVersion = mt.initialVersion
       /\ Logged(u.mt, d.changesets)
       /\ d.mt = WithPairs(u.mt, d.changesets)
       /\ d.changesets # <<>> => d.cached = NamesOf(d.changesets)

(* of a node that is up: the live trees are those of the directory with    *)
(* the pending log, and the stores are open over the trees                 *)
RunningInv ==
    Running =>
      /\ binary \in DOMAIN Binaries
      /\ DiskOK(disk)
      /\ Pending(db, Load(disk, 0).mt)
      /\ DOMAIN stores = TreeNames(db.mt)
      /\ \A n \in DOMAIN stores : stores[n] \in Seq(Nat)

(* of a node that announced a hash: its stores wrote nothing since, and    *)
(* the hash is that of the live trees                                      *)
AnnouncedInv ==
    announced # None =>
      /\ Running
      /\ \A n \in DOMAIN stores : stores[n] = <<>>
      /\ Version(db.mt) = 0 => InitialHeight = 1 \/ db.mt.initialVersion = InitialHeight
      /\ announced = [version |-> nextVersion(Version(db.mt), db.mt.initialVersion),
                      hash |-> CommitHash(WorkingCommitInfo(db.mt), binary)]

(* a snapshot being rewritten is a copy of the latest version *)
CopyInv == copy # None => Running /\ Load(disk, 0) = Done(copy) /\ Version(copy) > 0

(* the inductive invariant *)
IInv ==
    /\ binary \in Nat /\ writes \in Nat /\ lastCommit.version \in Nat
    /\ DOMAIN history \subseteq 1 .. Bound
    /\ disk = EmptyDisk \/ DiskOK(disk)
    /\ RunningInv /\ AnnouncedInv /\ CopyInv

-----------------------------------------------------------------------------
(* Loading. *)

(* The bounds the assumptions give. *)
LEMMA Bounds ==
    /\ InitialHeight \in Nat \ {0} /\ MaxVersion \in Nat /\ Bound \in Nat /\ InitialHeight <= Bound
    /\ Bound + 1 < WORD /\ WORD \in Nat /\ 2 * Bound < WORD
BY RootMultiAssumption, WordPositive DEF Bound

(* LoadMultiTree of a snapshot gives the trees that were written: the      *)
(* metadata describes them.                                                *)
LEMMA StoredLoads ==
    ASSUME NEW v, NEW s, Stored(s, v)
    PROVE  LoadMultiTree(s) = Done(s)
<1>. DEFINE e == [NewEmptyMultiTree(0) EXCEPT !.trees = s.trees, !.info = s.info]
            mt == setInitialVersion(e, s.initialVersion)
            actualVersion == IF mt.trees = <<>> THEN s.info.version ELSE mt.trees[1].version
<1>1. /\ s \in MultiTrees /\ s.trees \in Seq(Trees) /\ DOMAIN s.trees = 1..Len(s.trees) /\ Len(s.trees) \in Nat
      /\ s.initialVersion \in Nat /\ s.info \in CommitInfos /\ s.info.version = v /\ v \in Nat
      /\ (v = 0 => s.trees = <<>> /\ s.info.stores = <<>>) /\ (v > 0 => s.info = buildCommitInfo(s, v))
  BY DEF Stored, Sound, MultiTrees, CommitInfos, Version
<1>2. ASSUME NEW i \in 1..Len(s.trees) PROVE s.trees[i] \in Trees /\ s.trees[i].version = v /\ v > 0
  <2>1. s.trees[i] \in Trees /\ s.trees[i].version \in Nat
    <3>1. s.trees \in Seq(Trees)
      BY <1>1
    <3>2. s.trees[i] \in Trees
      BY <3>1
    <3>. QED  BY <3>2 DEF Trees
  <2>2. v > 0
    BY <1>1
  <2>3. s.trees[i].version + 1 = nextVersion(v, s.initialVersion)
    BY <1>1 DEF Stored, Sound, InStep, Version
  <2>4. nextVersion(v, s.initialVersion) = v + 1
    BY <2>2 DEF nextVersion
  <2>5. ASSUME NEW a \in Nat, a + 1 = v + 1 PROVE a = v
    BY <1>1, <2>5, SMTT(30)
  <2>. QED  BY <2>1, <2>2, <2>3, <2>4, <2>5, SMTT(30)
<1>3. e \in MultiTrees /\ e.trees = s.trees /\ e.info = s.info
  <2>1. NewEmptyMultiTree(0) \in MultiTrees
    BY EmptyTree
  <2>. QED  BY <1>1, <2>1, Zenon DEF MultiTrees
<1>. HIDE DEF e
<1>4. [i \in DOMAIN s.trees |-> setTreeVersion(s.trees[i], s.initialVersion)] = s.trees
  <2>1. \A i \in 1..Len(s.trees) : setTreeVersion(s.trees[i], s.initialVersion) = s.trees[i]
    BY <1>2 DEF setTreeVersion
  <2>2. s.trees = [i \in 1..Len(s.trees) |-> s.trees[i]]
    BY <1>1
  <2>. QED  BY <1>1, <2>1, <2>2
<1>5. mt \in MultiTrees /\ mt.initialVersion = s.initialVersion /\ mt.trees = s.trees /\ mt.info = s.info
  BY <1>1, <1>3, <1>4, Zenon DEF MultiTrees, setInitialVersion
<1>6. mt = s
  <2>. HIDE DEF mt
  <2>. QED  BY <1>1, <1>5, EqualMultiTrees
<1>7. LoadMultiTree(s) = IF buildCommitInfo(mt, actualVersion) = s.info THEN Done(mt) ELSE Failed(mt)
  BY Zenon DEF LoadMultiTree, e
<1>. HIDE DEF mt
<1>8. actualVersion = v
  <2>1. CASE s.trees = <<>>
    BY <1>1, <1>6, <2>1, SMTT(30)
  <2>2. CASE s.trees # <<>>
    <3>1. 1 \in 1..Len(s.trees)
      BY <1>1, <2>2
    <3>. QED  BY <1>2, <1>6, <2>2, <3>1, SMTT(30)
  <2>. QED  BY <2>1, <2>2
<1>9. buildCommitInfo(s, v) = s.info
  <2>1. CASE v = 0
    <3>1. DOMAIN s.trees = {} /\ s.trees = <<>>
      BY <1>1, <2>1
    <3>2. buildCommitInfo(s, v).stores = <<>> /\ buildCommitInfo(s, v).version = v
      BY <1>1, <3>1, CommitInfoType DEF buildCommitInfo
    <3>3. buildCommitInfo(s, v) \in CommitInfos
      BY <1>1, CommitInfoType
    <3>4. ASSUME NEW A, NEW B, NEW x \in [version : A, stores : B], NEW y \in [version : A, stores : B],
                 x.version = y.version, x.stores = y.stores
          PROVE  x = y
      BY <3>4
    <3>. QED  BY <1>1, <2>1, <3>2, <3>3, <3>4, Zenon DEF CommitInfos
  <2>2. CASE v > 0
    BY <1>1, <2>2
  <2>. QED  BY <1>1, <2>1, <2>2
<1>. QED  BY <1>6, <1>7, <1>8, <1>9, Zenon

(* Load of the latest version replays the log on the current snapshot. *)
LEMMA LoadLatest ==
    ASSUME NEW d, NEW v, Stored(d.snapshots[d.current], v)
    PROVE  Load(d, 0) = catchupWAL(d.snapshots[d.current], d.wal, 0)
<1>. DEFINE s == d.snapshots[d.current]
<1>1. LoadMultiTree(s) = Done(s)
  BY StoredLoads, Zenon
<1>. HIDE DEF s
<1>2. Load(d, 0) = Then(LoadMultiTree(s), LAMBDA mt : catchupWAL(mt, d.wal, 0))
  BY DEF Load, Then, s
<1>3. ~Done(s).err /\ Done(s).mt = s
  BY DEF Done
<1>. QED  BY <1>1, <1>2, <1>3 DEF Then, s

(* Directories are equal when their parts are. *)
LEMMA EqualDirectories ==
    ASSUME NEW S, NEW C, NEW W, NEW d \in [snapshots : S, current : C, wal : W],
           NEW e \in [snapshots : S, current : C, wal : W],
           d.snapshots = e.snapshots, d.current = e.current, d.wal = e.wal
    PROVE  d = e
OBVIOUS

(* Directories with other parts. *)
LEMMA DirectoryExcept ==
    ASSUME NEW d, d = [snapshots |-> d.snapshots, current |-> d.current, wal |-> d.wal], NEW s, NEW c, NEW w
    PROVE  /\ [d EXCEPT !.snapshots = s, !.current = c] = [snapshots |-> s, current |-> c, wal |-> d.wal]
           /\ [d EXCEPT !.wal = w] = [snapshots |-> d.snapshots, current |-> d.current, wal |-> w]
           /\ [d EXCEPT !.current = c, !.snapshots = s, !.wal = w] = [snapshots |-> s, current |-> c, wal |-> w]
<1>. DEFINE S == {d.snapshots, s}
            C == {d.current, c}
            W == {d.wal, w}
            T == [snapshots : S, current : C, wal : W]
            p == [d EXCEPT !.snapshots = s, !.current = c]
            q == [d EXCEPT !.wal = w]
            r == [d EXCEPT !.current = c, !.snapshots = s, !.wal = w]
<1>1. \A a \in S, b \in C, e \in W : [snapshots |-> a, current |-> b, wal |-> e] \in T
  OBVIOUS
<1>2. d \in T
  BY <1>1, Zenon
<1>3. p \in T /\ p.snapshots = s /\ p.current = c /\ p.wal = d.wal
  BY <1>2, Zenon
<1>4. q \in T /\ q.snapshots = d.snapshots /\ q.current = d.current /\ q.wal = w
  BY <1>2
<1>5. r \in T /\ r.snapshots = s /\ r.current = c /\ r.wal = w
  BY <1>2, Zenon
<1>. HIDE DEF p, q, r
<1>6. p = [snapshots |-> s, current |-> c, wal |-> d.wal]
  BY <1>1, <1>3, EqualDirectories
<1>7. q = [snapshots |-> d.snapshots, current |-> d.current, wal |-> w]
  BY <1>1, <1>4, EqualDirectories, SMTT(30)
<1>8. r = [snapshots |-> s, current |-> c, wal |-> w]
  BY <1>1, <1>5, EqualDirectories
<1>. QED  BY <1>6, <1>7, <1>8, SMTT(30) DEF p, q, r

(* A snapshot without versions. *)
LEMMA EmptyStored ==
    ASSUME NEW iv \in {0, InitialHeight}
    PROVE  Stored(NewEmptyMultiTree(iv), 0)
<1>. DEFINE e == NewEmptyMultiTree(iv)
<1>1. iv \in Nat /\ iv <= Bound /\ Bound \in Nat /\ Bound + 1 < WORD /\ WORD \in Nat
  BY Bounds
<1>2. e \in MultiTrees /\ Version(e) = 0 /\ e.initialVersion = iv /\ e.trees = <<>> /\ e.info.stores = <<>>
  BY <1>1, EmptyTree
<1>. HIDE DEF e
<1>3. InStep(e) /\ UniqueNames(e)
  BY <1>2 DEF InStep, UniqueNames
<1>4. Stored(e, 0)
  BY <1>1, <1>2, <1>3 DEF Stored, Sound
<1>. QED  BY <1>4 DEF e

(* A directory that a replay of its log makes loadable. *)
LEMMA MadeDisk ==
    ASSUME NEW d, d = [snapshots |-> d.snapshots, current |-> d.current, wal |-> d.wal],
           d.wal \in Seq(WALEntries), DOMAIN d.snapshots \subseteq Nat, d.current \in DOMAIN d.snapshots,
           \A v \in DOMAIN d.snapshots : Stored(d.snapshots[v], v),
           nextIndex(d.snapshots[d.current]) \in 1 .. Len(d.wal) + 1,
           NEW c, c = catchupWAL(d.snapshots[d.current], d.wal, 0), ~c.err, Version(c.mt) <= Bound
    PROVE  DiskOK(d) /\ Load(d, 0) = c
<1>1. Stored(d.snapshots[d.current], d.current)
  OBVIOUS
<1>2. Load(d, 0) = c
  BY <1>1, LoadLatest, Zenon
<1>. QED  BY <1>2 DEF DiskOK

(* What a loadable directory loads. *)
LEMMA LoadedTree ==
    ASSUME NEW d, DiskOK(d), NEW l, l = Load(d, 0)
    PROVE  /\ l = Done(l.mt) /\ ~l.err /\ Stored(l.mt, Version(l.mt)) /\ Sound(l.mt)
           /\ l = catchupWAL(d.snapshots[d.current], d.wal, 0)
           /\ nextIndex(l.mt) = Len(d.wal) + 1
           /\ Version(l.mt) = 0 => d.wal = <<>> /\ d.current = 0 /\ l.mt = d.snapshots[d.current]
<1>. DEFINE s == d.snapshots[d.current]
<1>1. /\ d.wal \in Seq(WALEntries) /\ Len(d.wal) \in Nat /\ d.current \in Nat /\ Stored(s, d.current) /\ Sound(s) /\ Version(s) = d.current
      /\ nextIndex(s) \in 1..(Len(d.wal) + 1) /\ s.initialVersion <= Bound + 1
      /\ s \in MultiTrees /\ s.initialVersion \in Nat
      /\ ~l.err /\ Version(l.mt) <= Bound
  BY DEF DiskOK, Stored, Sound, MultiTrees
<1>2. l = catchupWAL(s, d.wal, 0)
  BY <1>1, LoadLatest, Zenon
<1>. HIDE DEF s
<1>3. /\ l \in Replays(s.initialVersion)
      /\ nextIndex(l.mt) = Len(d.wal) + 1
      /\ nextIndex(s) = Len(d.wal) + 1 => l = Done(s)
      /\ nextIndex(s) <= Len(d.wal) => Version(l.mt) > 0 /\ l.mt.info = buildCommitInfo(l.mt, Version(l.mt))
  BY <1>1, <1>2, CatchupLatest
<1>4. l \in Results /\ l.mt \in MultiTrees /\ InStep(l.mt) /\ UniqueNames(l.mt) /\ l.mt.initialVersion = s.initialVersion
      /\ (Version(l.mt) = 0 \/ Version(l.mt) + 1 >= s.initialVersion)
  BY <1>1, <1>3 DEF Replays, Results
<1>5. l = Done(l.mt) /\ Version(l.mt) \in Nat
  BY <1>1, <1>4 DEF Results, Done, MultiTrees, CommitInfos, Version
<1>6. CASE nextIndex(s) = Len(d.wal) + 1
  <2>1. l.mt = s
    BY <1>3, <1>6 DEF Done
  <2>2. Version(s) = 0 => d.wal = <<>>
    <3>1. Version(s) = 0 => nextIndex(s) = 1
      BY <1>1 DEF nextIndex, nextVersion
    <3>. QED  BY <1>1, <1>6, <3>1, SMTT(30)
  <2>. QED  BY <1>1, <1>2, <1>3, <1>5, <2>1, <2>2, SMTT(30) DEF s
<1>7. CASE nextIndex(s) <= Len(d.wal)
  <2>1. Sound(l.mt)
    BY <1>1, <1>4, <1>5, Bounds, SMTT(30) DEF Sound
  <2>2. Stored(l.mt, Version(l.mt))
    BY <1>1, <1>3, <1>4, <1>5, <1>7, <2>1 DEF Stored
  <2>. QED  BY <1>1, <1>2, <1>3, <1>5, <1>7, <2>1, <2>2 DEF s
<1>. QED  BY <1>1, <1>6, <1>7, SMTT(30)

(* a directory without blocks *)
Blank(d) == d = EmptyDisk \/ (DiskOK(d) /\ d.wal = <<>>)

(* a directory that initEmptyDB leaves *)
Created(e, iv) == DiskOK(e) /\ Load(e, 0) = Done(NewEmptyMultiTree(iv)) /\ e.wal = <<>>

(* initEmptyDB, on a new directory or on one without versions. *)
LEMMA FreshDisk ==
    ASSUME NEW d, Blank(d), NEW iv \in {0, InitialHeight}
    PROVE  Created(initEmptyDB(d, iv), iv)
<1>. PICK e : e = initEmptyDB(d, iv)
  OBVIOUS
<1>. DEFINE new == NewEmptyMultiTree(iv)
            snaps == Put(d.snapshots, 0, new)
<1>1. new \in MultiTrees /\ Stored(new, 0) /\ Version(new) = 0
  BY Bounds, EmptyTree, EmptyStored, SMTT(30)
<1>2. WriteSnapshot(new) = new
  BY <1>1, SnapshotSame, SMTT(30)
<1>3. /\ d = [snapshots |-> d.snapshots, current |-> d.current, wal |-> d.wal] /\ d.wal = <<>>
      /\ DOMAIN d.snapshots \subseteq Nat /\ \A v \in DOMAIN d.snapshots : Stored(d.snapshots[v], v)
  <2>1. CASE d = EmptyDisk
    BY <2>1 DEF EmptyDisk
  <2>2. CASE DiskOK(d) /\ d.wal = <<>>
    BY <2>2 DEF DiskOK
  <2>. QED  BY <2>1, <2>2, SMTT(30) DEF Blank
<1>. HIDE DEF new
<1>4. e = [snapshots |-> snaps, current |-> 0, wal |-> <<>>]
  <2>1. e = [d EXCEPT !.snapshots = snaps, !.current = 0]
    BY <1>2 DEF initEmptyDB, new
  <2>. HIDE DEF snaps
  <2>. QED  BY <1>3, <2>1, DirectoryExcept, Zenon
<1>5. /\ DOMAIN snaps = DOMAIN d.snapshots \cup {0} /\ snaps[0] = new
      /\ \A v \in DOMAIN d.snapshots : v # 0 => snaps[v] = d.snapshots[v]
  BY DEF Put
<1>. HIDE DEF snaps
<1>6. /\ e.snapshots = snaps /\ e.current = 0 /\ e.wal = <<>>
      /\ e = [snapshots |-> e.snapshots, current |-> e.current, wal |-> e.wal]
  BY <1>4
<1>7. \A v \in DOMAIN e.snapshots : Stored(e.snapshots[v], v)
  BY <1>1, <1>3, <1>5, <1>6, SMTT(30)
<1>8. Sound(new) /\ nextIndex(new) = 1
  BY <1>1 DEF Stored, nextIndex, nextVersion, Sound, MultiTrees
<1>9. catchupWAL(new, e.wal, 0) = Done(new)
  <2>1. e.wal \in Seq(WALEntries) /\ Len(e.wal) = 0 /\ nextIndex(new) \in 1..(Len(e.wal) + 1) /\ nextIndex(new) = Len(e.wal) + 1
    BY <1>6, <1>8
  <2>. QED  BY <1>8, <2>1, CatchupLatest, ZenonT(40)
<1>10. DiskOK(e) /\ Load(e, 0) = Done(new)
  <2>1. ~Done(new).err /\ Version(Done(new).mt) <= Bound
    BY <1>1, Bounds DEF Done
  <2>2. e.wal \in Seq(WALEntries) /\ DOMAIN e.snapshots \subseteq Nat /\ e.current \in DOMAIN e.snapshots
    BY <1>3, <1>5, <1>6, SMTT(30)
  <2>3. e.snapshots[e.current] = new /\ nextIndex(e.snapshots[e.current]) \in 1 .. Len(e.wal) + 1
    BY <1>5, <1>6, <1>8
  <2>. QED  BY <1>6, <1>7, <1>9, <2>1, <2>2, <2>3, MadeDisk, Zenon
<1>. QED  BY <1>6, <1>10 DEF new, Created

-----------------------------------------------------------------------------
(* The database and its pending log. *)

(* Databases are equal when their parts are. *)
LEMMA EqualDBs ==
    ASSUME NEW x \in DBs, NEW y \in DBs, x.mt = y.mt, x.upgrades = y.upgrades, x.changesets = y.changesets,
           x.cached = y.cached
    PROVE  x = y
<1>1. ASSUME NEW A, NEW B, NEW C, NEW D, NEW u \in [mt : A, upgrades : B, changesets : C, cached : D],
             NEW w \in [mt : A, upgrades : B, changesets : C, cached : D],
             u.mt = w.mt, u.upgrades = w.upgrades, u.changesets = w.changesets, u.cached = w.cached
      PROVE  u = w
  BY <1>1
<1>. QED  BY <1>1, Zenon DEF DBs

(* The database around a loaded multi tree. *)
LEMMA LoadedDB ==
    ASSUME NEW mt \in MultiTrees
    PROVE  /\ dbOf(mt) \in DBs /\ dbOf(mt).mt = mt /\ dbOf(mt).upgrades = <<>>
           /\ dbOf(mt).changesets = <<>> /\ dbOf(mt).cached = {}
BY DEF dbOf, DBs

(* Upgrades of a database that has just been loaded. *)
LEMMA UpgradedDB ==
    ASSUME NEW mt, Sound(mt), NEW us \in Seq(TreeNameUpgrades), NEW r, r = dbApplyUpgrades(dbOf(mt), us), ~r.err
    PROVE  /\ Pending(r.db, mt) /\ r.err = FALSE /\ r = [err |-> FALSE, db |-> r.db]
           /\ r.db = [mt |-> ApplyUpgrades(mt, us).mt, upgrades |-> us, changesets |-> <<>>, cached |-> {}]
<1>. DEFINE u == ApplyUpgrades(mt, us)
            d == [mt |-> u.mt, upgrades |-> us, changesets |-> <<>>, cached |-> {}]
<1>1. mt \in MultiTrees /\ InStep(mt) /\ UniqueNames(mt)
  BY DEF Sound
<1>2. u \in AtVersion(mt.info, mt.initialVersion) /\ (us = <<>> => u = Done(mt)) /\ (us # <<>> /\ ~u.err => UniqueNames(u.mt))
  BY <1>1, UpgradesInStep, Zenon
<1>. HIDE DEF u
<1>3. u \in Results /\ u.mt \in MultiTrees /\ u.mt.info = mt.info /\ u.mt.initialVersion = mt.initialVersion /\ InStep(u.mt)
  BY <1>2 DEF AtVersion, Results
<1>4. ~u.err /\ r = [err |-> FALSE, db |-> d]
  <2>. DEFINE w == [dbOf(mt) EXCEPT !.mt = u.mt]
              z == [w EXCEPT !.upgrades = @ \o us]
  <2>1. w \in DBs /\ w.mt = u.mt /\ w.upgrades = <<>> /\ w.changesets = <<>> /\ w.cached = {}
    BY <1>1, <1>3, LoadedDB DEF DBs
  <2>2. r = IF u.err THEN [err |-> u.err, db |-> w] ELSE [err |-> FALSE, db |-> z]
    <3>1. dbOf(mt).mt = mt
      BY <1>1, LoadedDB
    <3>. QED  BY <3>1, Zenon DEF dbApplyUpgrades, ThenDB, withTree, u
  <2>. HIDE DEF w
  <2>3. z \in DBs /\ z.mt = u.mt /\ z.upgrades = us /\ z.changesets = <<>> /\ z.cached = {}
    <3>1. <<>> \o us = us
      OBVIOUS
    <3>. QED  BY <2>1, <3>1 DEF DBs
  <2>4. d \in DBs
    BY <1>3 DEF DBs
  <2>. HIDE DEF z
  <2>5. z = d
    BY <2>3, <2>4, EqualDBs, ZenonT(40)
  <2>. HIDE DEF d
  <2>. QED  BY <2>2, <2>5
<1>5. r.db = d /\ d \in DBs /\ d.mt = u.mt /\ d.upgrades = us /\ d.changesets = <<>>
  BY <1>3, <1>4 DEF DBs
<1>6. UniqueNames(u.mt)
  <2>1. us = <<>> => u.mt = mt
    BY <1>2 DEF Done
  <2>. QED  BY <1>1, <1>2, <1>4, <2>1, SMTT(30)
<1>7. Sound(u.mt)
  BY <1>3, <1>6, SMTT(30) DEF Sound, Version
<1>8. Logged(u.mt, <<>>) /\ WithPairs(u.mt, <<>>) = u.mt
  <2>1. <<>> \in Seq(NamedChangeSets) /\ \A k \in DOMAIN <<>> : FALSE
    OBVIOUS
  <2>2. WithPairs(u.mt, <<>>) = u.mt
    BY <1>3, <2>1, NoPairs, Zenon
  <2>. QED  BY <2>1, <2>2 DEF Logged, Distinct
<1>9. Pending(d, mt)
  <2>. HIDE DEF d
  <2>1. ApplyUpgrades(mt, d.upgrades) = u
    BY <1>5 DEF u
  <2>. QED  BY <1>3, <1>4, <1>5, <1>7, <1>8, <2>1, SMTT(30) DEF Pending
<1>. QED  BY <1>4, <1>5, <1>9 DEF u

(* applyChangeSet of a block that has change sets: the log and the trees   *)
(* advance together.                                                       *)
LEMMA ChangeSetPending ==
    ASSUME NEW mt, NEW d, Pending(d, mt), d.changesets # <<>>, NEW cs \in NamedChangeSets, cs.name \in TreeNames(d.mt),
           NEW r, r = applyChangeSet([err |-> FALSE, db |-> d], cs)
    PROVE  /\ r = [err |-> FALSE, db |-> r.db]
           /\ Pending(r.db, mt) /\ r.db.changesets # <<>> /\ TreeNames(r.db.mt) = TreeNames(d.mt)
<1>. DEFINE u == ApplyUpgrades(mt, d.upgrades).mt
            a == d.changesets
            l == logChangeSet(d, cs)
<1>1. /\ d \in DBs /\ Sound(u) /\ Logged(u, a) /\ d.mt = WithPairs(u, a) /\ d.cached = NamesOf(a)
      /\ a \in Seq(NamedChangeSets) /\ Distinct(a) /\ u \in MultiTrees /\ UniqueNames(u)
  BY SMTT(30) DEF Pending, Logged, Sound
<1>2. TreeNames(u) = TreeNames(d.mt)
  BY <1>1, WithPairsType, SMTT(30)
<1>. HIDE DEF u, a
<1>3. /\ l \in DBs /\ l.upgrades = d.upgrades /\ l.changesets # <<>> /\ l.cached = NamesOf(l.changesets)
      /\ Distinct(l.changesets) /\ NamesOf(l.changesets) = NamesOf(a) \cup {cs.name}
      /\ Adds(a, cs, l.changesets)
  <2>1. CASE cs.name \in NamesOf(a)
    <3>. DEFINE b == [i \in DOMAIN a |-> IF a[i].name = cs.name THEN [a[i] EXCEPT !.pairs = @ \o cs.pairs] ELSE a[i]]
    <3>1. l = [d EXCEPT !.changesets = b]
      BY <1>1, <2>1 DEF logChangeSet, mergePendingChangeSet, a
    <3>2. /\ b \in Seq(NamedChangeSets) /\ b # <<>> /\ Distinct(b) /\ NamesOf(b) = NamesOf(a)
          /\ Adds(a, cs, b)
      <4>1. b = [i \in DOMAIN a |-> IF a[i].name = cs.name THEN [a[i] EXCEPT !.pairs = @ \o cs.pairs] ELSE a[i]]
        OBVIOUS
      <4>. HIDE DEF b
      <4>. QED  BY <1>1, <2>1, <4>1, Merged, Zenon
    <3>. HIDE DEF b
    <3>3. l \in DBs /\ l.upgrades = d.upgrades /\ l.changesets = b /\ l.cached = d.cached
      BY <1>1, <3>1, <3>2, ZenonT(40) DEF DBs
    <3>. QED  BY <1>1, <2>1, <3>2, <3>3, SMTT(30)
  <2>2. CASE cs.name \notin NamesOf(a)
    <3>. DEFINE idx == SlotOf(a, cs)
                b == AddedAt(a, idx, cs)
                new == d.cached \cup {cs.name}
    <3>1. l = [d EXCEPT !.changesets = b, !.cached = new]
      BY <1>1, <2>2 DEF logChangeSet, insertPendingChangeSet, a, SlotOf, AddedAt
    <3>2. idx \in 0..Len(a)
      BY <1>1, FirstSelected, ZenonT(40)
    <3>. HIDE DEF idx
    <3>3. /\ b \in Seq(NamedChangeSets) /\ b # <<>> /\ Distinct(b) /\ Range(b) = Range(a) \cup {cs}
          /\ NamesOf(b) = NamesOf(a) \cup {cs.name}
      <4>1. b = AddedAt(a, idx, cs)
        OBVIOUS
      <4>. HIDE DEF b
      <4>. QED  BY <1>1, <2>2, <3>2, <4>1, Inserted
    <3>. HIDE DEF b
    <3>4. Adds(a, cs, b)
      BY <1>1, <2>2, <3>3, PairsAdded, Zenon
    <3>5. new \in SUBSET (Nat \ {0}) /\ new = NamesOf(b)
      BY <1>1, <3>3, SMTT(30) DEF DBs, NamedChangeSets
    <3>. HIDE DEF new
    <3>6. l \in DBs /\ l.upgrades = d.upgrades /\ l.changesets = b /\ l.cached = new
      BY <1>1, <3>1, <3>3, <3>5, Zenon DEF DBs
    <3>. QED  BY <3>3, <3>4, <3>5, <3>6, SMTT(30)
  <2>. QED  BY <2>1, <2>2, SMTT(30)
<1>. DEFINE m == WithPairs(u, l.changesets)
<1>4. ApplyChangeSet(Done(d.mt), cs) = Done(m)
  <2>. HIDE DEF l
  <2>1. l.changesets \in Seq(NamedChangeSets)
    BY <1>3, SMTT(30) DEF DBs
  <2>2. cs.name \in TreeNames(u)
    BY <1>2
  <2>3. ApplyChangeSet(Done(WithPairs(u, a)), cs) = Done(WithPairs(u, l.changesets))
    <3>1. PICK b \in Seq(NamedChangeSets) : b = l.changesets /\ Adds(a, cs, b)
      BY <1>3, <2>1
    <3>2. u \in MultiTrees /\ UniqueNames(u) /\ a \in Seq(NamedChangeSets)
      BY <1>1, SMTT(30)
    <3>3. ApplyChangeSet(Done(WithPairs(u, a)), cs) = Done(WithPairs(u, b))
      BY <2>2, <3>1, <3>2, ChangeSetAdded
    <3>. QED  BY <3>1, <3>3
  <2>. QED  BY <1>1, <2>3, SMTT(30)
<1>5. r = [err |-> FALSE, db |-> [l EXCEPT !.mt = m]]
  <2>1. [d EXCEPT !.cached = ensurePendingChangesetMap(d)] = d
    BY <1>1 DEF ensurePendingChangesetMap, DBs, a
  <2>2. r = withTree(l, Done(m))
    BY <1>4, <2>1, ZenonT(40) DEF applyChangeSet, ThenDB
  <2>. QED  BY <2>2, ZenonT(40) DEF withTree, Done
<1>6. l.changesets \in Seq(NamedChangeSets) /\ Logged(u, l.changesets)
  <2>1. \A k \in DOMAIN l.changesets : l.changesets[k].name \in NamesOf(l.changesets)
    BY DEF NamesOf
  <2>2. NamesOf(a) \subseteq TreeNames(u)
    BY <1>1, SMTT(30) DEF NamesOf, Logged
  <2>. QED  BY <1>2, <1>3, <2>1, <2>2, SMTT(30) DEF Logged, DBs
<1>7. m \in MultiTrees /\ TreeNames(m) = TreeNames(u)
  BY <1>1, <1>6, WithPairsType, SMTT(30)
<1>. HIDE DEF m, l
<1>8. /\ r.db \in DBs /\ r.db.mt = m /\ r.db.upgrades = d.upgrades
      /\ r.db.changesets = l.changesets /\ r.db.cached = l.cached /\ r = [err |-> FALSE, db |-> r.db]
  <2>. DEFINE e == [l EXCEPT !.mt = m]
  <2>1. e \in DBs /\ e.mt = m /\ e.upgrades = d.upgrades /\ e.changesets = l.changesets /\ e.cached = l.cached
    BY <1>3, <1>7 DEF DBs
  <2>2. r = [err |-> FALSE, db |-> e]
    BY <1>5, Zenon
  <2>. HIDE DEF e
  <2>3. r.db = e
    BY <2>2
  <2>. QED  BY <2>1, <2>2, <2>3, Zenon
<1>. QED  BY <1>2, <1>3, <1>6, <1>7, <1>8, Zenon DEF Pending, u, m

(* the loop of ApplyChangeSets *)
applyAll(base, css) == FoldLeft(applyChangeSet, base, css)

(* The loop of ApplyChangeSets stays in a set that its body stays in. *)
LEMMA PendingLoop ==
    ASSUME NEW S, NEW base \in S, NEW T, NEW css \in Seq(T),
           \A r \in S, k \in 1..Len(css) : applyChangeSet(r, css[k]) \in S
    PROVE  applyAll(base, css) \in S
<1>. DEFINE n == Len(css)
            step == [k \in 1..n |-> [r \in S |-> applyChangeSet(r, css[k])]]
            Eq(f) == f = [s \in SUBSET (1..n) |-> IF s = {} THEN base
                                                  ELSE applyChangeSet(f[s \ {Max(s)}], css[Max(s)])]
            fold == CHOOSE f : Eq(f)
<1>1. n \in Nat /\ DOMAIN css = 1..n
  OBVIOUS
<1>2. step \in [1..n -> [S -> S]]
  OBVIOUS
<1>3. applyAll(base, css) = fold[1..n]
  BY <1>1, Zenon DEF applyAll, FoldLeft, MapThenFoldSet
<1>4. \A s \in SUBSET (1..n) : s # {} => Max(s) \in 1..n /\ s \ {Max(s)} \in SUBSET (1..n)
  <2>. SUFFICES ASSUME NEW s \in SUBSET (1..n), s # {} PROVE Max(s) \in s
    BY Zenon
  <2>1. s \in SUBSET Nat /\ \A x \in s : x <= n
    OBVIOUS
  <2>. QED  BY <2>1, <1>1, GreatestNat, Zenon
<1>. HIDE DEF n
<1>5. \E f : Eq(f)
  <2>1. PICK g \in [SUBSET (1..n) -> S] : IsLoop(g, n, base, step)
    <3>. HIDE DEF step
    <3>. QED  BY <1>1, <1>2, LoopExists, Zenon
  <2>2. \A s \in SUBSET (1..n) : s # {} => step[Max(s)][g[s \ {Max(s)}]]
                                              = applyChangeSet(g[s \ {Max(s)}], css[Max(s)])
    BY <1>4, <2>1, SMTT(30)
  <2>3. Eq(g)
    BY <2>1, <2>2, Zenon DEF IsLoop
  <2>. QED  BY <2>3, Zenon
<1>6. Eq(fold)
  BY <1>5, Zenon
<1>. HIDE DEF fold
<1>7. fold[{}] = base
  BY <1>6, SMTT(30)
<1>8. Follows(fold, n, base, step, S)
  BY <1>4, <1>6, <1>7, Zenon DEF Follows
<1>9. PICK run \in [0..n -> S] : AreRounds(run, n, base, step, fold[1..n])
  <2>. HIDE DEF step
  <2>. QED  BY <1>1, <1>2, <1>8, LoopRounds, Zenon
<1>10. run[n] \in S
  BY <1>1, <1>9, SMTT(30)
<1>. QED  BY <1>3, <1>9, <1>10, SMTT(30) DEF AreRounds

(* ApplyChangeSets of the database, on its fast and on its slow path. *)
LEMMA ChangeSetsPending ==
    ASSUME NEW mt, NEW d, Pending(d, mt), NEW css, Logged(d.mt, css), NEW r, r = dbApplyChangeSets(d, css)
    PROVE  /\ r = [err |-> FALSE, db |-> r.db]
           /\ Pending(r.db, mt) /\ TreeNames(r.db.mt) = TreeNames(d.mt)
           /\ css = <<>> => r.db = d
<1>. DEFINE u == ApplyUpgrades(mt, d.upgrades).mt
<1>1. /\ d \in DBs /\ Sound(u) /\ Logged(u, d.changesets) /\ d.mt = WithPairs(u, d.changesets)
      /\ d.changesets \in Seq(NamedChangeSets) /\ u \in MultiTrees /\ InStep(u) /\ UniqueNames(u)
      /\ css \in Seq(NamedChangeSets) /\ \A k \in DOMAIN css : css[k].name \in TreeNames(d.mt)
  BY DEF Pending, Logged, Sound
<1>. HIDE DEF u
<1>2. CASE css = <<>>
  BY <1>2 DEF dbApplyChangeSets
<1>3. CASE css # <<>> /\ d.changesets # <<>>
  <2>. DEFINE S == {q \in [err : {FALSE}, db : DBs] : /\ Pending(q.db, mt) /\ q.db.changesets # <<>>
                                                      /\ TreeNames(q.db.mt) = TreeNames(d.mt)}
              base == [err |-> FALSE, db |-> d]
  <2>1. base \in S
    BY <1>1, <1>3, SMTT(30)
  <2>2. ASSUME NEW q \in S, NEW k \in 1..Len(css) PROVE applyChangeSet(q, css[k]) \in S
    <3>1. q = [err |-> FALSE, db |-> q.db] /\ Pending(q.db, mt) /\ q.db.changesets # <<>> /\ TreeNames(q.db.mt) = TreeNames(d.mt)
      BY Zenon
    <3>2. css[k] \in NamedChangeSets /\ css[k].name \in TreeNames(q.db.mt)
      BY <1>1, <3>1, SMTT(30)
    <3>3. PICK p : p = applyChangeSet(q, css[k])
      OBVIOUS
    <3>4. /\ p = [err |-> FALSE, db |-> p.db]
          /\ Pending(p.db, mt) /\ p.db.changesets # <<>> /\ TreeNames(p.db.mt) = TreeNames(q.db.mt)
      BY <3>1, <3>2, <3>3, ChangeSetPending, ZenonT(40)
    <3>5. p.db \in DBs
      BY <3>4 DEF Pending
    <3>6. p \in [err : {FALSE}, db : DBs]
      <4>1. \A e \in DBs : [err |-> FALSE, db |-> e] \in [err : {FALSE}, db : DBs]
        OBVIOUS
      <4>. QED  BY <3>4, <3>5, <4>1, ZenonT(40)
    <3>. QED  BY <3>1, <3>3, <3>4, <3>6, Zenon
  <2>3. r = applyAll(base, css)
    BY <1>3 DEF dbApplyChangeSets, applyAll
  <2>. HIDE DEF base
  <2>4. r \in S
    <3>. HIDE DEF S
    <3>. QED  BY <1>1, <2>1, <2>2, <2>3, PendingLoop, SMTT(30)
  <2>5. r = [err |-> FALSE, db |-> r.db] /\ Pending(r.db, mt) /\ TreeNames(r.db.mt) = TreeNames(d.mt)
    BY <2>4, ZenonT(40)
  <2>. QED  BY <1>3, <2>5, SMTT(30)
<1>4. CASE css # <<>> /\ d.changesets = <<>>
  <2>. DEFINE names == {cs.name : cs \in Range(css)}
              m == WithPairs(u, css)
              l == [d EXCEPT !.changesets = css, !.cached = names]
              e == [l EXCEPT !.mt = m]
  <2>1. d.mt = u
    <3>1. \A k \in DOMAIN d.changesets : FALSE
      BY <1>4
    <3>2. WithPairs(u, d.changesets) = u
      BY <1>1, <3>1, NoPairs, Zenon
    <3>. QED  BY <1>1, <3>2
  <2>2. Logged(u, css)
    BY <2>1
  <2>3. ApplyChangeSets(d.mt, css) = Done(m)
    BY <1>1, <2>1, <2>2, ChangeSetsApplied, SMTT(30)
  <2>4. m \in MultiTrees /\ TreeNames(m) = TreeNames(u)
    BY <1>1, WithPairsType, SMTT(30)
  <2>5. names = NamesOf(css) /\ names \in SUBSET (Nat \ {0})
    <3>1. names = NamesOf(css)
      BY DEF NamesOf, Range
    <3>2. \A k \in DOMAIN css : css[k].name \in Nat \ {0}
      <4>1. \A k \in DOMAIN css : css[k] \in NamedChangeSets
        BY <1>1
      <4>. QED  BY <4>1 DEF NamedChangeSets
    <3>. QED  BY <3>1, <3>2, ZenonT(40) DEF NamesOf
  <2>. HIDE DEF m, names
  <2>6. l \in DBs /\ l.upgrades = d.upgrades /\ l.changesets = css /\ l.cached = names
    BY <1>1, <2>5, Zenon DEF DBs
  <2>7. r = [err |-> FALSE, db |-> e]
    BY <1>4, <2>3 DEF dbApplyChangeSets, withTree, Done, names
  <2>. HIDE DEF l
  <2>8. e \in DBs /\ e.mt = m /\ e.upgrades = d.upgrades /\ e.changesets = css /\ e.cached = names
    BY <2>4, <2>6, SMTT(30) DEF DBs
  <2>. HIDE DEF e
  <2>9. r.db = e
    BY <2>7, SMTT(30)
  <2>10. Pending(e, mt)
    BY <2>2, <2>5, <2>8, SMTT(30) DEF Pending, u, m
  <2>. QED  BY <1>4, <2>1, <2>4, <2>7, <2>8, <2>9, <2>10, SMTT(30)
<1>. QED  BY <1>2, <1>3, <1>4, SMTT(30)

(* flush: the change sets of the stores go to the trees and to the log. *)
LEMMA FlushPending ==
    ASSUME NEW mt, Pending(db, mt), DOMAIN stores = TreeNames(db.mt), \A n \in DOMAIN stores : stores[n] \in Seq(Nat),
           NEW f, f = flush
    PROVE  /\ ~f.err /\ Pending(f.db, mt) /\ TreeNames(f.db.mt) = TreeNames(db.mt)
           /\ (\A n \in DOMAIN stores : stores[n] = <<>>) => f.db = db
<1>. DEFINE C == {n \in DOMAIN stores : stores[n] # <<>>}
            names == Ascending(C)
            c == Cardinality(C)
            css == [i \in DOMAIN names |-> [name |-> names[i], pairs |-> stores[names[i]]]]
<1>1. C \in SUBSET Nat /\ C \subseteq Nat \ {0} /\ IsFiniteSet(C)
  <2>1. db.mt \in MultiTrees
    BY DEF Pending, DBs
  <2>2. IsFiniteSet(TreeNames(db.mt)) /\ TreeNames(db.mt) \subseteq Nat \ {0}
    BY <2>1, NamesCounted
  <2>. QED  BY <2>2, FS_Subset, SMTT(30)
<1>2. c \in Nat /\ names \in [1..c -> C] /\ IsAscending(names)
  BY <1>1, AscendingLists, Zenon
<1>3. C = {} => c = 0
  BY FS_EmptySet
<1>4. f = dbApplyChangeSets(db, css)
  BY DEF flush
<1>. HIDE DEF c, names
<1>5. DOMAIN css = 1..c /\ \A i \in 1..c : css[i] \in NamedChangeSets /\ css[i].name = names[i]
  BY <1>1, <1>2, SMTT(30) DEF NamedChangeSets
<1>6. css \in Seq(NamedChangeSets) /\ (c = 0 => css = <<>>)
  BY <1>2, <1>5, SMTT(30)
<1>. HIDE DEF css
<1>7. Distinct(css)
  <2>1. \A i, j \in 1..c : names[i] = names[j] => i = j
    <3>. SUFFICES ASSUME NEW i \in 1..c, NEW j \in 1..c, i # j PROVE names[i] # names[j]
      BY Zenon
    <3>1. names[i] \in Nat /\ names[j] \in Nat /\ DOMAIN names = 1..c /\ (i < j \/ j < i)
      BY <1>1, <1>2
    <3>2. names[i] < names[j] \/ names[j] < names[i]
      BY <1>2, <3>1, Zenon DEF IsAscending
    <3>. QED  BY <3>1, <3>2
  <2>. QED  BY <1>5, <2>1, SMTT(30) DEF Distinct
<1>8. Logged(db.mt, css)
  BY <1>2, <1>5, <1>6, <1>7, SMTT(30) DEF Logged
<1>9. /\ f = [err |-> FALSE, db |-> f.db]
      /\ Pending(f.db, mt) /\ TreeNames(f.db.mt) = TreeNames(db.mt) /\ (css = <<>> => f.db = db)
  BY <1>4, <1>8, ChangeSetsPending, ZenonT(40)
<1>. QED  BY <1>3, <1>6, <1>9, SMTT(30)

-----------------------------------------------------------------------------
(* A release that starts. *)

(* The upgrades of a release are lists of upgrades. *)
LEMMA UpgradeSeqs ==
    ASSUME NEW b \in DOMAIN Binaries, NEW d
    PROVE  initialStores(b) \in Seq(TreeNameUpgrades) /\ treeUpgrades(b, d) \in Seq(TreeNameUpgrades)
<1>. DEFINE u == Binaries[b]
            names == Ascending(u.iavl)
            c == Cardinality(u.iavl)
            x == [i \in DOMAIN u.deleted |-> Upgrade(u.deleted[i], TRUE, 0)]
            y == [i \in DOMAIN u.added |-> Upgrade(u.added[i], FALSE, 0)]
            z == [i \in DOMAIN u.renamed |-> Upgrade(u.renamed[i].newKey, FALSE, u.renamed[i].oldKey)]
<1>1. /\ u.iavl \in SUBSET Nat /\ u.iavl \subseteq Nat \ {0} /\ IsFiniteSet(u.iavl)
      /\ u.deleted \in Seq(Nat \ {0}) /\ u.added \in Seq(Nat \ {0})
      /\ u.renamed \in Seq([oldKey : Nat \ {0}, newKey : Nat \ {0}])
  BY ReleasesAssumption
<1>2. c \in Nat /\ names \in [1..c -> u.iavl]
  BY <1>1, AscendingLists, Zenon
<1>. HIDE DEF u, names, c
<1>3. ASSUME NEW n \in Nat \ {0}, NEW delete \in BOOLEAN, NEW from \in Nat
      PROVE  Upgrade(n, delete, from) \in TreeNameUpgrades
  BY DEF Upgrade, TreeNameUpgrades
<1>4. initialStores(b) \in Seq(TreeNameUpgrades)
  <2>1. [i \in DOMAIN names |-> Upgrade(names[i], FALSE, 0)] \in [1..c -> TreeNameUpgrades]
    BY <1>1, <1>2, <1>3, Zenon
  <2>2. initialStores(b) = [i \in DOMAIN names |-> Upgrade(names[i], FALSE, 0)]
    BY DEF initialStores, names, u
  <2>. QED  BY <1>2, <2>1, <2>2, FunctionSeq, Zenon
<1>5. ASSUME NEW s \in Seq(Nat \ {0}), NEW delete \in BOOLEAN
      PROVE  [i \in DOMAIN s |-> Upgrade(s[i], delete, 0)] \in Seq(TreeNameUpgrades)
  <2>1. [i \in DOMAIN s |-> Upgrade(s[i], delete, 0)] \in [1..Len(s) -> TreeNameUpgrades] /\ Len(s) \in Nat
    BY <1>3
  <2>. QED  BY <2>1, FunctionSeq, ZenonT(40)
<1>6. ASSUME NEW s \in Seq([oldKey : Nat \ {0}, newKey : Nat \ {0}])
      PROVE  [i \in DOMAIN s |-> Upgrade(s[i].newKey, FALSE, s[i].oldKey)] \in Seq(TreeNameUpgrades)
  <2>1. ASSUME NEW i \in DOMAIN s PROVE s[i].newKey \in Nat \ {0} /\ s[i].oldKey \in Nat
    <3>1. PICK k \in [oldKey : Nat \ {0}, newKey : Nat \ {0}] : k = s[i]
      <4>1. s[i] \in [oldKey : Nat \ {0}, newKey : Nat \ {0}]
        BY SeqElement, Zenon
      <4>. QED  BY <4>1
    <3>2. k.newKey \in Nat \ {0} /\ k.oldKey \in Nat
      OBVIOUS
    <3>. QED  BY <3>1, <3>2
  <2>2. \A i \in DOMAIN s : Upgrade(s[i].newKey, FALSE, s[i].oldKey) \in TreeNameUpgrades
    BY <1>3, <2>1, Zenon
  <2>3. [i \in DOMAIN s |-> Upgrade(s[i].newKey, FALSE, s[i].oldKey)] \in [1..Len(s) -> TreeNameUpgrades] /\ Len(s) \in Nat
    <3>1. DOMAIN s = 1..Len(s) /\ Len(s) \in Nat
      BY LenProperties, Zenon
    <3>. QED  BY <2>2, <3>1, Zenon
  <2>. QED  BY <2>3, FunctionSeq, ZenonT(40)
<1>8. x \in Seq(TreeNameUpgrades) /\ y \in Seq(TreeNameUpgrades) /\ z \in Seq(TreeNameUpgrades)
  BY <1>1, <1>5, <1>6, Zenon
<1>7. treeUpgrades(b, d) = <<>> \/ treeUpgrades(b, d) = x \o y \o z
  BY Zenon DEF treeUpgrades, u
<1>. HIDE DEF x, y, z
<1>9. x \o y \o z \in Seq(TreeNameUpgrades) /\ <<>> \in Seq(TreeNameUpgrades)
  BY <1>8
<1>. QED  BY <1>4, <1>7, <1>9, ZenonT(40)

(* A release that starts: its trees are the loaded ones with the upgrades  *)
(* of its log.                                                             *)
LEMMA LoadedPending ==
    ASSUME NEW b \in DOMAIN Binaries, NEW d, DiskOK(d), NEW us \in Seq(TreeNameUpgrades),
           us = <<>> \/ Version(Load(d, 0).mt) > 0, NEW l, l = LoadVersionAndUpgrade(b, d, us), ~l.err
    PROVE  Pending(l.db, Load(d, 0).mt) /\ TreeNames(l.db.mt) = Binaries[b].iavl
<1>. DEFINE mt == Load(d, 0).mt
            o == opened(Load(d, 0), b)
            r == ThenDB(o, LAMBDA x : dbApplyUpgrades(x, us))
<1>1. ~Load(d, 0).err /\ Sound(mt) /\ mt \in MultiTrees /\ Version(mt) \in Nat /\ Load(d, 0).err = FALSE
  <2>1. Load(d, 0) = Done(mt) /\ Sound(mt)
    BY LoadedTree, Zenon
  <2>. QED  BY <2>1 DEF Done, Sound, MultiTrees, CommitInfos, Version
<1>2. o = IF Version(mt) = 0 THEN dbApplyUpgrades(dbOf(mt), initialStores(b)) ELSE [err |-> FALSE, db |-> dbOf(mt)]
  BY <1>1, Zenon DEF opened
<1>. HIDE DEF mt
<1>3. l = [r EXCEPT !.err = @ \/ ~validateMemiAVLTreeMembership(r.db.mt, b)]
  BY Zenon DEF LoadVersionAndUpgrade, validated
<1>4. ASSUME r = [err |-> FALSE, db |-> r.db], Pending(r.db, mt)
      PROVE  Pending(l.db, mt) /\ TreeNames(l.db.mt) = Binaries[b].iavl
  <2>. HIDE DEF r
  <2>1. l.db = r.db /\ l.err = ~validateMemiAVLTreeMembership(r.db.mt, b)
    BY <1>3, <1>4, SMTT(30)
  <2>. QED  BY <1>4, <2>1, Zenon DEF validateMemiAVLTreeMembership
<1>5. ~r.err
  <2>1. \A x, us0 : \E e, y : dbApplyUpgrades(x, us0) = [err |-> e, db |-> y]
    BY Zenon DEF dbApplyUpgrades, ThenDB, withTree
  <2>2. \E e, y : o = [err |-> e, db |-> y]
    BY <1>2, <2>1, Zenon
  <2>3. r = o \/ r = dbApplyUpgrades(o.db, us)
    BY Zenon DEF ThenDB
  <2>. HIDE DEF r, o
  <2>4. PICK e, y : r = [err |-> e, db |-> y]
    BY <2>1, <2>2, <2>3, Zenon
  <2>. QED  BY <1>3, <2>4, Zenon
<1>6. CASE Version(mt) = 0
  <2>1. us = <<>> /\ initialStores(b) \in Seq(TreeNameUpgrades)
    BY <1>6, UpgradeSeqs DEF mt
  <2>2. o = dbApplyUpgrades(dbOf(mt), initialStores(b))
    BY <1>2, <1>6, SMTT(30)
  <2>. HIDE DEF o
  <2>3. ~o.err
    BY <1>5 DEF ThenDB
  <2>4. Pending(o.db, mt) /\ o = [err |-> FALSE, db |-> o.db] /\ o.db \in DBs
    <3>1. Pending(o.db, mt) /\ o = [err |-> FALSE, db |-> o.db]
      BY <1>1, <2>1, <2>2, <2>3, UpgradedDB, ZenonT(40)
    <3>. QED  BY <3>1 DEF Pending
  <2>5. dbApplyUpgrades(o.db, us) = [err |-> FALSE, db |-> o.db]
    <3>1. ApplyUpgrades(o.db.mt, us) = Done(o.db.mt)
      BY <2>1 DEF ApplyUpgrades
    <3>2. PICK x \in DBs : x = o.db
      BY <2>4
    <3>3. [x EXCEPT !.mt = x.mt] = x /\ [x EXCEPT !.upgrades = @ \o us] = x
      BY <2>1 DEF DBs
    <3>4. withTree(x, Done(x.mt)) = [err |-> FALSE, db |-> x]
      BY <3>3, Zenon DEF withTree, Done
    <3>5. dbApplyUpgrades(x, us) = ThenDB([err |-> FALSE, db |-> x], LAMBDA w : [err |-> FALSE, db |-> [w EXCEPT !.upgrades = @ \o us]])
      BY <3>1, <3>2, <3>4, Zenon DEF dbApplyUpgrades
    <3>6. dbApplyUpgrades(x, us) = [err |-> FALSE, db |-> [x EXCEPT !.upgrades = @ \o us]]
      BY <3>5 DEF ThenDB
    <3>. QED  BY <3>2, <3>3, <3>6, Zenon
  <2>6. r = [err |-> FALSE, db |-> o.db]
    BY <2>3, <2>5 DEF ThenDB
  <2>7. r.db = o.db
    BY <2>6
  <2>. QED  BY <1>4, <2>4, <2>6, <2>7, Zenon DEF mt
<1>7. CASE Version(mt) > 0
  <2>1. o = [err |-> FALSE, db |-> dbOf(mt)]
    BY <1>1, <1>2, <1>7, SMTT(30)
  <2>. HIDE DEF o
  <2>2. o.err = FALSE /\ o.db = dbOf(mt)
    BY <2>1
  <2>3. r = dbApplyUpgrades(dbOf(mt), us)
    BY <2>2 DEF ThenDB
  <2>. HIDE DEF r
  <2>4. Pending(r.db, mt) /\ r = [err |-> FALSE, db |-> r.db]
    BY <1>1, <1>5, <2>3, UpgradedDB, Zenon
  <2>. QED  BY <1>4, <2>4 DEF mt
<1>. QED  BY <1>1, <1>6, <1>7, SMTT(30)

(* The live trees have the version of the loaded ones, and are in step     *)
(* with it.                                                                *)
LEMMA PendingTree ==
    ASSUME NEW d, NEW mt, Pending(d, mt)
    PROVE  /\ d.mt \in MultiTrees /\ d.mt.info = mt.info /\ d.mt.initialVersion = mt.initialVersion
           /\ InStep(d.mt) /\ UniqueNames(d.mt) /\ Version(d.mt) = Version(mt) /\ Version(mt) \in Nat
<1>. DEFINE u == ApplyUpgrades(mt, d.upgrades).mt
<1>1. /\ d.mt = WithPairs(u, d.changesets) /\ d.changesets \in Seq(NamedChangeSets) /\ u \in MultiTrees
      /\ InStep(u) /\ UniqueNames(u) /\ u.info = mt.info /\ u.initialVersion = mt.initialVersion
  BY DEF Pending, Sound, Logged
<1>. HIDE DEF u
<1>2. d.mt \in MultiTrees /\ d.mt.info = u.info /\ d.mt.initialVersion = u.initialVersion /\ InStep(d.mt) /\ UniqueNames(d.mt)
  BY <1>1, WithPairsType
<1>3. u.info.version \in Nat
  BY <1>1 DEF MultiTrees, CommitInfos
<1>. QED  BY <1>1, <1>2, <1>3, SMTT(30) DEF Version

-----------------------------------------------------------------------------
(* Boot, and the steps of a block. *)

(* A release that has loaded its store. *)
LEMMA Installed ==
    ASSUME NEW b \in DOMAIN Binaries, NEW d, DiskOK(d), NEW loaded, Pending(loaded, Load(d, 0).mt),
           TreeNames(loaded.mt) = Binaries[b].iavl, Install(b, d, loaded), DOMAIN history' \subseteq 1 .. Bound
    PROVE  IInv'
<1>1. /\ disk' = d /\ binary' = b /\ db' = loaded /\ stores' = [n \in Binaries[b].iavl |-> <<>>]
      /\ lastCommit'.version = loaded.mt.info.version /\ announced' = None /\ copy' = None /\ writes' = 0
  BY DEF Install
<1>2. b \in Nat /\ b > 0
  BY ReleasesAssumption, SMTT(30)
<1>3. loaded.mt.info.version \in Nat
  BY DEF Pending, DBs, MultiTrees, CommitInfos
<1>4. RunningInv'
  BY <1>1 DEF RunningInv
<1>. QED  BY <1>1, <1>2, <1>3, <1>4 DEF IInv, AnnouncedInv, CopyInv

(* createDBIfNotExist leaves a directory that loads. *)
LEMMA CreatedDisk ==
    ASSUME NEW d, d = EmptyDisk \/ DiskOK(d)
    PROVE  DiskOK(createDBIfNotExist(d))
<1>1. CASE d = EmptyDisk
  <2>1. createDBIfNotExist(d) = initEmptyDB(d, 0)
    BY <1>1 DEF createDBIfNotExist
  <2>2. Blank(d) /\ 0 \in {0, InitialHeight}
    BY <1>1 DEF Blank
  <2>. QED  BY <2>1, <2>2, FreshDisk, SMTT(30) DEF Created
<1>2. CASE DiskOK(d)
  <2>1. DOMAIN d.snapshots # {} /\ DOMAIN EmptyDisk.snapshots = {}
    BY <1>2 DEF DiskOK, EmptyDisk
  <2>2. d.snapshots # EmptyDisk.snapshots
    BY <2>1, Zenon
  <2>. QED  BY <1>2, <2>2, ZenonT(40) DEF createDBIfNotExist
<1>. QED  BY <1>1, <1>2

(* Boot keeps the invariant. *)
LEMMA BootInv ==
    ASSUME IInv, NEW b \in DOMAIN Binaries, Boot(b)
    PROVE  IInv'
<1>. DEFINE d == createDBIfNotExist(disk)
            us == treeUpgrades(b, d)
            l == LoadVersionAndUpgrade(b, d, us)
            mt == Load(d, 0).mt
<1>1. DiskOK(d)
  BY CreatedDisk DEF IInv
<1>2. ~l.err /\ Install(b, d, l.db) /\ history' = history
  BY DEF Boot
<1>. HIDE DEF d
<1>3. us = <<>> \/ Version(mt) > 0
  <2>1. Stored(mt, Version(mt)) /\ (Version(mt) = 0 => d.wal = <<>> /\ mt = d.snapshots[d.current])
    BY <1>1, LoadedTree, ZenonT(40)
  <2>2. Version(mt) \in Nat
    BY <2>1 DEF Stored, Sound, MultiTrees, CommitInfos, Version
  <2>3. ASSUME Version(mt) = 0 PROVE us = <<>>
    <3>1. GetLatestVersion(d) = 0
      BY <2>1, <2>3 DEF GetLatestVersion, Version
    <3>2. Binaries[b].upgradeHeight # 1
      BY ReleasesAssumption, RootMultiAssumption
    <3>. QED  BY <3>1, <3>2, SMTT(30) DEF treeUpgrades
  <2>. QED  BY <2>2, <2>3
<1>4. us \in Seq(TreeNameUpgrades)
  BY UpgradeSeqs
<1>. HIDE DEF us
<1>5. Pending(l.db, mt) /\ TreeNames(l.db.mt) = Binaries[b].iavl
  BY <1>1, <1>2, <1>3, <1>4, LoadedPending, Zenon
<1>6. DOMAIN history' \subseteq 1..Bound
  BY <1>2 DEF IInv
<1>. HIDE DEF l
<1>. QED  BY <1>1, <1>2, <1>5, <1>6, Installed, Zenon

(* Tree versions after setInitialVersion of a multi tree without versions. *)
LEMMA InitialSet ==
    ASSUME NEW mt \in MultiTrees, InStep(mt), Version(mt) = 0, mt.initialVersion \in {0, InitialHeight}, InitialHeight > 1
    PROVE  setInitialVersion(mt, InitialHeight) = Restep(mt, mt.info, InitialHeight)
<1>. DEFINE s == setInitialVersion(mt, InitialHeight)
            r == Restep(mt, mt.info, InitialHeight)
            n == Len(mt.trees)
            v == InitialHeight - 1
            ts == [i \in DOMAIN mt.trees |-> setTreeVersion(mt.trees[i], InitialHeight)]
            us == [i \in DOMAIN mt.trees |-> [mt.trees[i] EXCEPT !.version = v]]
<1>1. /\ mt.trees \in Seq(Trees) /\ n \in Nat /\ DOMAIN mt.trees = 1..n /\ mt.info \in CommitInfos
      /\ InitialHeight \in Nat /\ v \in Nat
  BY RootMultiAssumption DEF MultiTrees
<1>2. NewWithInitialVersion(nextVersion(mt.info.version, InitialHeight)) = v /\ NewWithInitialVersion(InitialHeight) = v
  BY <1>1 DEF nextVersion, NewWithInitialVersion, Version
<1>3. ASSUME NEW i \in 1..n PROVE setTreeVersion(mt.trees[i], InitialHeight) = [mt.trees[i] EXCEPT !.version = v]
  <2>1. PICK t \in Trees : t = mt.trees[i]
    BY <1>1
  <2>2. t.version \in Nat /\ (t.version + 1 = InitialHeight \/ t.version + 1 = 1)
    <3>1. t.version + 1 = nextVersion(mt.info.version, mt.initialVersion)
      BY <1>1, <2>1, SMTT(30) DEF InStep, Version
    <3>2. t.version \in Nat /\ mt.info.version = 0
      BY DEF Trees, Version
    <3>. QED  BY <1>1, <3>1, <3>2, SMTT(30) DEF nextVersion
  <2>3. CASE t.version = v
    <3>1. [t EXCEPT !.version = v] = t
      BY <2>3 DEF Trees
    <3>. QED  BY <1>1, <1>2, <2>1, <2>3, <3>1, SMTT(30) DEF setTreeVersion
  <2>4. CASE t.version = 0
    BY <1>2, <2>1, <2>4, SMTT(30) DEF setTreeVersion
  <2>. QED  BY <1>1, <2>2, <2>3, <2>4, SMTT(30)
<1>4. ts = us
  BY <1>1, <1>3, ZenonT(40)
<1>5. r \in MultiTrees /\ r.info = mt.info /\ r.initialVersion = InitialHeight /\ r.trees = us
  <2>1. r \in MultiTrees
    BY <1>1, RestepType, SMTT(30)
  <2>. QED  BY <1>2, <2>1, SMTT(30) DEF Restep
<1>6. us \in Seq(Trees)
  BY <1>5 DEF MultiTrees
<1>. HIDE DEF us, r, ts
<1>7. s \in MultiTrees /\ s.info = mt.info /\ s.initialVersion = InitialHeight /\ s.trees = us
  <2>1. s = [mt EXCEPT !.initialVersion = InitialHeight, !.trees = us]
    BY <1>4, Zenon DEF setInitialVersion, ts
  <2>. QED  BY <1>1, <1>6, <2>1, Zenon DEF MultiTrees
<1>. HIDE DEF s
<1>8. s = r
  BY <1>5, <1>7, EqualMultiTrees, SMTT(30)
<1>. QED  BY <1>8 DEF s, r

(* Write keeps the invariant. *)
LEMMA WriteInv ==
    ASSUME IInv, NEW n \in DOMAIN stores, Write(n)
    PROVE  IInv'
<1>1. /\ Running /\ stores' = [stores EXCEPT ![n] = Append(@, writes)] /\ writes' = writes + 1 /\ announced' = None
      /\ disk' = disk /\ binary' = binary /\ db' = db /\ lastCommit' = lastCommit /\ copy' = copy /\ history' = history
  BY DEF Write, Executing
<1>2. binary \in Nat /\ writes \in Nat /\ RunningInv /\ CopyInv
  BY DEF IInv
<1>3. \A k \in DOMAIN stores : stores[k] \in Seq(Nat)
  BY <1>1, <1>2, SMTT(30) DEF RunningInv
<1>4. DOMAIN stores' = DOMAIN stores /\ \A k \in DOMAIN stores' : stores'[k] \in Seq(Nat)
  BY <1>1, <1>2, <1>3, SMTT(30)
<1>5. RunningInv'
  BY <1>1, <1>2, <1>4, SMTT(30) DEF RunningInv, Running
<1>6. CopyInv' /\ AnnouncedInv'
  BY <1>1, <1>2, SMTT(30) DEF CopyInv, AnnouncedInv, Running
<1>. QED  BY <1>1, <1>2, <1>5, <1>6 DEF IInv

(* WorkingHash keeps the invariant. *)
LEMMA WorkingHashInv ==
    ASSUME IInv, WorkingHash
    PROVE  IInv'
<1>. DEFINE f == flush
            mt == Load(disk, 0).mt
<1>1. /\ Running /\ db' = f.db /\ stores' = Emptied
      /\ announced' = [version |-> nextVersion(Version(f.db.mt), f.db.mt.initialVersion),
                       hash |-> CommitHash(WorkingCommitInfo(f.db.mt), binary)]
      /\ (Version(db.mt) = 0 => InitialHeight = 1 \/ db.mt.initialVersion = InitialHeight)
      /\ disk' = disk /\ binary' = binary /\ lastCommit' = lastCommit /\ copy' = copy /\ history' = history /\ writes' = writes
  BY DEF WorkingHash, Executing
<1>2. RunningInv /\ CopyInv
  BY DEF IInv
<1>3. Pending(db, mt) /\ DOMAIN stores = TreeNames(db.mt) /\ \A n \in DOMAIN stores : stores[n] \in Seq(Nat)
  BY <1>1, <1>2, SMTT(30) DEF RunningInv
<1>. HIDE DEF mt
<1>4. Pending(f.db, mt) /\ TreeNames(f.db.mt) = TreeNames(db.mt)
  BY <1>3, FlushPending, SMTT(30)
<1>. HIDE DEF f
<1>5. DOMAIN stores' = DOMAIN stores /\ \A n \in DOMAIN stores' : stores'[n] = <<>>
  BY <1>1, SMTT(30) DEF Emptied
<1>6. RunningInv'
  <2>1. binary \in DOMAIN Binaries /\ DiskOK(disk)
    BY <1>1, <1>2, SMTT(30) DEF RunningInv
  <2>2. Pending(db', Load(disk', 0).mt) /\ DOMAIN stores' = TreeNames(db'.mt)
    BY <1>1, <1>3, <1>4, <1>5 DEF mt
  <2>3. \A n \in DOMAIN stores' : stores'[n] \in Seq(Nat)
    <3>1. <<>> \in Seq(Nat)
      OBVIOUS
    <3>. QED  BY <1>5, <3>1, ZenonT(40)
  <2>. QED  BY <1>1, <2>1, <2>2, <2>3 DEF RunningInv
<1>7. Version(f.db.mt) = Version(db.mt) /\ f.db.mt.initialVersion = db.mt.initialVersion
  BY <1>3, <1>4, PendingTree, SMTT(30)
<1>8. AnnouncedInv' /\ CopyInv'
  BY <1>1, <1>2, <1>5, <1>7, SMTT(30) DEF AnnouncedInv, CopyInv, Running
<1>. QED  BY <1>1, <1>6, <1>8, SMTT(30) DEF IInv

(* A node that is down. *)
LEMMA StoppedInv ==
    ASSUME IInv, binary' = 0, writes' = 0, lastCommit'.version = 0, announced' = None, copy' = None,
           DOMAIN history' \subseteq 1 .. Bound, disk' = EmptyDisk \/ DiskOK(disk')
    PROVE  IInv'
BY DEF IInv, RunningInv, AnnouncedInv, CopyInv, Running
=============================================================================
