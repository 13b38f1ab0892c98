------------------------------ MODULE RootMulti ------------------------------
(***************************************************************************)
(* rootmulti.Store (store/rootmulti) on top of memiavl.DB: a node that     *)
(* mounts stores, starts, initialises its chain, executes and commits      *)
(* blocks, is upgraded to a binary with other stores, crashes, is rolled   *)
(* back, and is restored from a state-sync snapshot.                       *)
(*                                                                         *)
(* The directory is written atomically here: MemiavlDB has the crash       *)
(* points inside a commit, a rewrite and a rollback.                       *)
(***************************************************************************)
EXTENDS MultiTree

CONSTANTS
    Binaries,       \* releases of the application, in order: [iavl, mem,
                    \* upgradeHeight, deleted, added, renamed]
    InitialHeight,  \* the genesis initial height
    sdk46Compact,   \* Store.sdk46Compact
    EmptyBlocks,    \* whether a block may leave every IAVL store unchanged
    MaxVersion,     \* bound: blocks
    BlockWrites,    \* bound: writes in a block
    MaxRestores     \* bound: state-sync restores

ASSUME RootMultiAssumption ==
    /\ InitialHeight \in Nat \ {0} /\ MaxVersion \in Nat
    /\ sdk46Compact \in BOOLEAN /\ EmptyBlocks \in BOOLEAN
    /\ BlockWrites \in Nat /\ MaxRestores \in Nat
    /\ 2 * (MaxVersion + InitialHeight) < WORD    \* versions are int64, indexes uint64

(* store names are positive, and an upgrade is planned by a running chain *)
ASSUME ReleasesAssumption ==
    /\ DOMAIN Binaries = 1 .. Len(Binaries)
    /\ \A b \in DOMAIN Binaries :
         /\ Binaries[b].iavl \subseteq Nat \ {0} /\ IsFiniteSet(Binaries[b].iavl)
         /\ Binaries[b].upgradeHeight \in Nat
         /\ Binaries[b].upgradeHeight = 0 \/ Binaries[b].upgradeHeight > InitialHeight
         /\ Binaries[b].deleted \in Seq(Nat \ {0}) /\ Binaries[b].added \in Seq(Nat \ {0})
         /\ Binaries[b].renamed \in Seq([oldKey : Nat \ {0}, newKey : Nat \ {0}])

VARIABLES
    disk,        \* the directory: [snapshots, current, wal]
    binary,      \* the release that runs, 0 when the node is down
    db,          \* Store.db: [mt, upgrades, changesets, cached]
    stores,      \* Store.stores: the change set of every mounted IAVL store
    lastCommit,  \* Store.lastCommitInfo: [version, hash]
    announced,   \* the last WorkingHash of the block, if nothing was written since
    rewritten,   \* db.snapshotRewriteChan: whether a finished rewrite waits for the next commit
    copy,        \* the copy a snapshot rewrite works on
    history,     \* the application hash of every committed block
    writes,      \* writes of this block
    restores

vars == <<disk, binary, db, stores, lastCommit, announced, rewritten, copy, history, writes, restores>>

None == [none |-> TRUE]
Running == binary > 0
latest == IF DOMAIN history = {} THEN 0 ELSE Max(DOMAIN history)
Put(f, x, value) == [y \in DOMAIN f \cup {x} |-> IF y = x THEN value ELSE f[y]]
Until(f, v) == [u \in {w \in DOMAIN f : w <= v} |-> f[u]]

-----------------------------------------------------------------------------
(* The application hash (external: CommitInfo.Hash of the SDK) is over the *)
(* names and hashes of the stores. amendCommitInfo adds the memory stores  *)
(* that are mounted now.                                                   *)
AppHash(info) == {<<info.stores[i].name, info.stores[i].hash>> : i \in DOMAIN info.stores}
amendCommitInfo(hash, b) == hash \cup {<<name, <<>>>> : name \in Binaries[b].mem}
CommitHash(info, b) == IF sdk46Compact THEN amendCommitInfo(AppHash(info), b) ELSE AppHash(info)

EmptyDisk == [snapshots |-> [v \in {} |-> None], current |-> 0, wal |-> <<>>]

initEmptyDB(d, initialVersion) ==
    [d EXCEPT !.snapshots = Put(@, 0, WriteSnapshot(NewEmptyMultiTree(initialVersion))), !.current = 0]

createDBIfNotExist(d) == IF d.snapshots = EmptyDisk.snapshots THEN initEmptyDB(d, 0) ELSE d

seekSnapshot(d, target) == {v \in DOMAIN d.snapshots : v <= target}

(* Load; targetVersion is 0 for the latest one *)
Load(d, targetVersion) ==
    LET below == seekSnapshot(d, targetVersion)
        snapshot == IF targetVersion = 0 THEN d.current ELSE Max(below)
    IN IF targetVersion > 0 /\ below = {} THEN Failed(NewEmptyMultiTree(0))
       ELSE Then(LoadMultiTree(d.snapshots[snapshot]),
                 LAMBDA mt : IF targetVersion = 0 \/ targetVersion > Version(mt)
                             THEN catchupWAL(mt, d.wal, targetVersion) ELSE Done(mt))

BugloadAtVersion(version) == Load(disk, version)

(* refuses the latest version Load falls back to *)
loadAtVersion(version) ==
    Then(Load(disk, version), LAMBDA mt : IF Version(mt) = version THEN Done(mt) ELSE Failed(mt))

GetLatestVersion(d) ==
    IF d.snapshots = EmptyDisk.snapshots THEN 0
    ELSE LET metadata == d.snapshots[d.current]
         IN IF d.wal = <<>> THEN metadata.info.version
            ELSE walVersion(Len(d.wal), metadata.initialVersion)

-----------------------------------------------------------------------------
(* DB: the multi tree with the log of the block being executed. *)
dbOf(mt) == [mt |-> mt, upgrades |-> <<>>, changesets |-> <<>>, cached |-> {}]
withTree(d, r) == [err |-> r.err, db |-> [d EXCEPT !.mt = r.mt]]
ThenDB(r, step(_)) == IF r.err THEN r ELSE step(r.db)

dbApplyUpgrades(d, upgrades) ==
    ThenDB(withTree(d, ApplyUpgrades(d.mt, upgrades)),
           LAMBDA upgraded : [err |-> FALSE, db |-> [upgraded EXCEPT !.upgrades = @ \o upgrades]])

ensurePendingChangesetMap(d) == IF d.changesets = <<>> THEN {} ELSE d.cached

(* the changesets stay in the order of the names *)
insertPendingChangeSet(d, cs) ==
    LET idx == SelectInSeq(d.changesets, LAMBDA c : c.name >= cs.name)
    IN [d EXCEPT !.changesets = IF idx = 0 THEN Append(@, cs) ELSE InsertAt(@, idx, cs),
                 !.cached = @ \cup {cs.name}]

mergePendingChangeSet(d, cs) ==
    LET merged(c) == IF c.name = cs.name THEN [c EXCEPT !.pairs = @ \o cs.pairs] ELSE c
    IN [d EXCEPT !.changesets = [i \in DOMAIN @ |-> merged(@[i])]]

BuglogChangeSet(d, cs) == IF cs.name \in d.cached THEN d ELSE insertPendingChangeSet(d, cs)

logChangeSet(d, cs) ==
    IF cs.name \in d.cached THEN mergePendingChangeSet(d, cs) ELSE insertPendingChangeSet(d, cs)

applyChangeSet(r, cs) ==
    ThenDB(r, LAMBDA d : withTree(logChangeSet([d EXCEPT !.cached = ensurePendingChangesetMap(d)], cs),
                                  ApplyChangeSet(Done(d.mt), cs)))

dbApplyChangeSets(d, changeSets) ==
    IF changeSets = <<>> THEN [err |-> FALSE, db |-> d]
    ELSE IF d.changesets # <<>> THEN FoldLeft(applyChangeSet, [err |-> FALSE, db |-> d], changeSets)
    ELSE withTree([d EXCEPT !.changesets = changeSets, !.cached = {cs.name : cs \in Range(changeSets)}],
                  ApplyChangeSets(d.mt, changeSets))

(* flush: the change sets of the stores, by name *)
flush ==
    LET changed == Ascending({n \in DOMAIN stores : stores[n] # <<>>})
    IN dbApplyChangeSets(db, [i \in DOMAIN changed |-> [name |-> changed[i], pairs |-> stores[changed[i]]]])

-----------------------------------------------------------------------------
Upgrade(name, delete, renameFrom) == [name |-> name, delete |-> delete, renameFrom |-> renameFrom]

(* the store upgrades of a release, in the order LoadVersionAndUpgrade     *)
(* gives them; UpgradeStoreLoader (external) passes them at the upgrade    *)
(* height only                                                             *)
treeUpgrades(b, d) ==
    LET u == Binaries[b]
    IN IF u.upgradeHeight # GetLatestVersion(d) + 1 THEN <<>>
       ELSE [i \in DOMAIN u.deleted |-> Upgrade(u.deleted[i], TRUE, 0)]
            \o [i \in DOMAIN u.added |-> Upgrade(u.added[i], FALSE, 0)]
            \o [i \in DOMAIN u.renamed |-> Upgrade(u.renamed[i].newKey, FALSE, u.renamed[i].oldKey)]

initialStores(b) == LET names == Ascending(Binaries[b].iavl)
                    IN [i \in DOMAIN names |-> Upgrade(names[i], FALSE, 0)]

validateMemiAVLTreeMembership(mt, b) == TreeNames(mt) = Binaries[b].iavl

(* a directory without versions gets a tree for every mounted store *)
opened(l, b) ==
    IF ~l.err /\ Version(l.mt) = 0 THEN dbApplyUpgrades(dbOf(l.mt), initialStores(b))
    ELSE [err |-> l.err, db |-> dbOf(l.mt)]

validated(r, b) == [r EXCEPT !.err = @ \/ ~validateMemiAVLTreeMembership(r.db.mt, b)]

BugLoadVersionAndUpgrade(b, d, upgrades) ==
    validated(ThenDB(opened(Load(d, 0), b), LAMBDA o : withTree(o, ApplyUpgrades(o.mt, upgrades))), b)

(* LoadVersionAndUpgrade(0, upgrades): every mounted IAVL store has a tree *)
(* and every tree is mounted                                               *)
LoadVersionAndUpgrade(b, d, upgrades) ==
    validated(ThenDB(opened(Load(d, 0), b), LAMBDA o : dbApplyUpgrades(o, upgrades)), b)

(* The store that a successful load installs. *)
Install(b, d, loaded) ==
    LET info == loaded.mt.info
    IN /\ disk' = d
       /\ binary' = b
       /\ db' = loaded
       /\ stores' = [n \in Binaries[b].iavl |-> <<>>]
       /\ lastCommit' = [version |-> info.version,
                         hash |-> IF info.version = 0 THEN {} ELSE CommitHash(info, b)]
       /\ announced' = None /\ rewritten' = FALSE /\ copy' = None /\ writes' = 0

Init ==
    /\ disk = EmptyDisk /\ binary = 0 /\ db = None /\ stores = [n \in {} |-> <<>>]
    /\ lastCommit = [version |-> 0, hash |-> {}]
    /\ announced = None /\ rewritten = FALSE /\ copy = None
    /\ history = [v \in {} |-> {}] /\ writes = 0 /\ restores = 0

Boot(b) ==
    LET d == createDBIfNotExist(disk)
        l == LoadVersionAndUpgrade(b, d, treeUpgrades(b, d))
    IN /\ ~Running
       /\ ~l.err
       /\ Install(b, d, l.db)
       /\ UNCHANGED <<history, restores>>

(* InitChain of a chain whose initial height is above 1: DB.SetInitialVersion  *)
(* rewrites snapshot-0                                                         *)
SetInitialVersion ==
    /\ Running /\ Version(db.mt) = 0 /\ InitialHeight > 1
    /\ \A i \in DOMAIN db.mt.trees : db.mt.trees[i].writes = <<>>
    /\ db' = [db EXCEPT !.mt = setInitialVersion(@, InitialHeight)]
    /\ disk' = initEmptyDB(disk, InitialHeight)
    /\ UNCHANGED <<binary, stores, lastCommit, announced, rewritten, copy, history, writes, restores>>

(* the release whose turn it is to execute a height *)
Due(height) == Max({b \in DOMAIN Binaries : Binaries[b].upgradeHeight <= height})

(* a block runs after InitChain, and on the release due at its height: the *)
(* upgrade module of the SDK (external) stops any other                    *)
Executing ==
    /\ Running /\ Version(db.mt) < MaxVersion
    /\ Version(db.mt) = 0 => InitialHeight = 1 \/ db.mt.initialVersion = InitialHeight
    /\ binary = Due(nextVersion(Version(db.mt), db.mt.initialVersion))

(* memiavlstore.Store Set and Delete *)
Write(n) ==
    /\ Executing /\ writes < BlockWrites
    /\ stores' = [stores EXCEPT ![n] = Append(@, writes)]
    /\ writes' = writes + 1
    /\ announced' = None
    /\ UNCHANGED <<disk, binary, db, lastCommit, rewritten, copy, history, restores>>

Emptied == [n \in DOMAIN stores |-> <<>>]

WorkingHash ==
    LET f == flush
    IN /\ Executing /\ ~f.err
       /\ db' = f.db
       /\ stores' = Emptied
       /\ announced' = [version |-> nextVersion(Version(f.db.mt), f.db.mt.initialVersion),
                        hash |-> CommitHash(WorkingCommitInfo(f.db.mt), binary)]
       /\ UNCHANGED <<disk, binary, lastCommit, rewritten, copy, history, writes, restores>>

(* writeWALSync: an index the log already has is not written again *)
writeWAL(log, index, entry) == IF index <= Len(log) THEN log ELSE Append(log, entry)

(* Store.Commit and DB.Commit. A rewrite that finished meanwhile is        *)
(* switched to, after a replay of the blocks since.                        *)
Commit ==
    LET f == flush
        saved == SaveVersion(f.db.mt, TRUE)
        log == writeWAL(disk.wal, walIndex(Version(saved), saved.initialVersion),
                        [upgrades |-> f.db.upgrades, changesets |-> f.db.changesets])
        reloaded == LET l == LoadMultiTree(disk.snapshots[disk.current])
                    IN IF l.err THEN l ELSE catchupWAL(l.mt, log, 0)
        mt == IF rewritten THEN reloaded.mt ELSE saved
    IN /\ Executing /\ ~f.err
       /\ EmptyBlocks \/ writes > 0
       /\ rewritten => ~reloaded.err
       /\ disk' = [disk EXCEPT !.wal = log]
       /\ db' = dbOf(mt)
       /\ stores' = Emptied
       /\ lastCommit' = [version |-> Version(mt), hash |-> CommitHash(mt.info, binary)]
       /\ history' = Put(history, Version(saved), CommitHash(saved.info, binary))
       /\ copy' = mt
       /\ rewritten' = FALSE
       /\ announced' = None /\ writes' = 0
       /\ UNCHANGED <<binary, restores>>

(* a background rewrite of the copy taken at the last commit *)
RewriteSnapshot ==
    /\ Running /\ copy # None
    /\ disk' = [disk EXCEPT !.snapshots = Put(@, Version(copy), WriteSnapshot(copy)),
                            !.current = Version(copy)]
    /\ rewritten' = TRUE
    /\ copy' = None
    /\ UNCHANGED <<binary, db, stores, lastCommit, announced, history, writes, restores>>

Down ==
    /\ binary' = 0 /\ db' = None /\ stores' = [n \in {} |-> <<>>]
    /\ lastCommit' = [version |-> 0, hash |-> {}]
    /\ announced' = None /\ rewritten' = FALSE /\ copy' = None /\ writes' = 0

(* the process stops, with or without Close *)
Crash == Running /\ Down /\ UNCHANGED <<disk, history, restores>>

(* Load with LoadForOverwriting *)
RolledBack(d, target) ==
    LET snapshot == Max(seekSnapshot(d, target))
        index == walIndex(target, d.snapshots[snapshot].initialVersion)
    IN [d EXCEPT !.current = snapshot, !.snapshots = Until(@, target), !.wal = SubSeq(@, 1, index)]

RollbackToVersion(target) ==
    LET below == seekSnapshot(disk, target)
        index == walIndex(target, disk.snapshots[Max(below)].initialVersion)
    IN /\ ~Running /\ target > 0
       /\ below # {}
       /\ index \in 1 .. Len(disk.wal)
       /\ ~Load(disk, target).err
       /\ disk' = RolledBack(disk, target)
       /\ history' = Until(history, target)
       /\ UNCHANGED <<binary, db, stores, lastCommit, announced, rewritten, copy, writes, restores>>

(* Snapshot of a peer whose directory is this node's; Restore into a       *)
(* directory the node has just created                                     *)
MultiTreeExporter(height, nonSnapshotVersion) ==
    IF nonSnapshotVersion THEN Load(disk, height)
    ELSE IF height > disk.current \/ height \notin DOMAIN disk.snapshots THEN Failed(NewEmptyMultiTree(0))
    ELSE LoadMultiTree(disk.snapshots[height])

Restore(b, height, nonSnapshotVersion) ==
    LET export == MultiTreeExporter(height, nonSnapshotVersion)
        fresh == createDBIfNotExist(EmptyDisk)
        d == [fresh EXCEPT !.snapshots = Put(@, height, Import(export.mt.trees, height)),
                           !.current = height]
        l == LoadVersionAndUpgrade(b, d, <<>>)
    IN /\ ~Running /\ restores < MaxRestores
       /\ ~export.err /\ export.mt.trees # <<>>
       /\ ~l.err
       /\ Install(b, d, l.db)
       /\ history' = Until(history, height)
       /\ restores' = restores + 1

Next ==
    \/ \E b \in DOMAIN Binaries : Boot(b)
    \/ SetInitialVersion
    \/ \E n \in DOMAIN stores : Write(n)
    \/ WorkingHash
    \/ Commit
    \/ RewriteSnapshot
    \/ Crash
    \/ \E v \in 1 .. MaxVersion : RollbackToVersion(v)
    \/ \E b \in DOMAIN Binaries, v \in DOMAIN history, s \in BOOLEAN : Restore(b, v, s)

Spec == Init /\ [][Next]_vars

-----------------------------------------------------------------------------
QueryFailed == [err |-> TRUE]

(* memiavlstore.Store.Query of a whole store *)
storeQuery(t, height) ==
    IF height > 0 /\ height # t.version THEN QueryFailed ELSE [err |-> FALSE, content |-> RootHash(t)]

(* Query with a proof: the store's content, and the application hash the   *)
(* proof leads to                                                          *)
Query(height, name) ==
    LET version == IF height = 0 THEN Version(db.mt) ELSE height
        d == IF version = lastCommit.version THEN Done(db.mt) ELSE loadAtVersion(version)
        q == storeQuery(d.mt.trees[IndexOf(d.mt, name)], height)
    IN IF d.err \/ name \notin TreeNames(d.mt) \/ q.err THEN QueryFailed
       ELSE [err |-> FALSE, content |-> q.content, root |-> CommitHash(d.mt.info, binary)]

(* the IAVL stores of a query context, under the names mounted now *)
CacheMultiStoreWithVersion(version) ==
    LET d == IF version = 0 \/ version = lastCommit.version THEN Done(db.mt) ELSE loadAtVersion(version)
        named == {i \in DOMAIN d.mt.trees : d.mt.trees[i].name \in DOMAIN stores}
    IN [err |-> d.err, content |-> {<<d.mt.trees[i].name, RootHash(d.mt.trees[i])>> : i \in named}]

(* what a proof verifier accepts for height: the committed application     *)
(* hash, and a store that is part of it                                    *)
Proven(height, name, q) ==
    /\ height \in DOMAIN history
    /\ q.root = history[height]
    /\ <<name, q.content>> \in q.root

Heights == 1 .. MaxVersion
Names == UNION {Binaries[b].iavl : b \in DOMAIN Binaries}

-----------------------------------------------------------------------------
(* All trees are at the version of the multi tree, whatever InitChain,     *)
(* upgrades, reloads, replays and restores did: SaveVersion bumps each     *)
(* tree's own counter (multitree.go:296-319), an added tree starts one     *)
(* below the next version (multitree.go:250), and the node versions that   *)
(* go into the hashes come from that counter.                              *)
TreesInStep ==
    Running => \A i \in DOMAIN db.mt.trees :
                   db.mt.trees[i].version + 1 = nextVersion(Version(db.mt), db.mt.initialVersion)

(* The pending log repeats the block: replaying the directory and then the *)
(* pending upgrades and change sets gives the live trees, name for name    *)
(* and write for write. reloadMultiTree (db.go:900-905) and the replay     *)
(* after a crash rely on it; the slow path of ApplyChangeSets              *)
(* (db.go:436-443) and the upgrades at load have to keep it.               *)
PendingLogReplays ==
    Running =>
      LET l == Load(disk, 0)
          r == applyWALEntry(l.mt, [upgrades |-> db.upgrades, changesets |-> db.changesets])
      IN /\ ~l.err /\ ~r.err
         /\ r.mt.trees = db.mt.trees
         /\ l.mt.info = db.mt.info

(* The hash that WorkingHash announced for a block is the one Commit       *)
(* returns for it, if nothing was written in between, also when the commit *)
(* switches to a rewritten snapshot (store.go:258-302).                    *)
AnnouncedIsCommitted ==
    [][announced # None /\ lastCommit'.version > lastCommit.version =>
          lastCommit' = announced]_vars

(* Wherever the node stops, the release its height calls for starts again  *)
(* and reports the last committed block with its application hash          *)
(* (LastCommitID, store.go:308-319), which is what the consensus engine    *)
(* compares; the upgrade of a block that was not committed is applied      *)
(* again, and one that was is not.                                         *)
RestartRecovers ==
    LET d == createDBIfNotExist(disk)
        b == Due(latest + 1)
        l == LoadVersionAndUpgrade(b, d, treeUpgrades(b, d))
    IN /\ GetLatestVersion(d) = latest
       /\ ~l.err
       /\ latest > 0 => CommitHash(l.db.mt.info, b) = history[latest]

(* A query or a query context at an earlier height fails or reads what was *)
(* committed at that height, and the query's proof leads to that height's  *)
(* application hash: also below the initial height, where walIndex wraps   *)
(* (multitree.go:548-553) and Load falls back to the latest version,       *)
(* across an upgrade that deleted or renamed stores, and on a node         *)
(* restored by state sync, whose log starts at a later version.            *)
HistoricalReadsExact ==
    Running => \A h \in Heights \ {lastCommit.version} :
        LET context == CacheMultiStoreWithVersion(h)
        IN /\ ~context.err => h \in DOMAIN history /\ context.content \subseteq history[h]
           /\ \A n \in Names : LET q == Query(h, n) IN q.err \/ Proven(h, n, q)

(* A query at the latest committed height answers with what was committed  *)
(* at that height and a proof of it. memiavlstore.Store says of Set that   *)
(* "the written state is only visible after commit" (store.go:83).         *)
LatestQueriesProven ==
    Running /\ lastCommit.version > 0 =>
        \A n \in DOMAIN stores : LET q == Query(lastCommit.version, n)
                                 IN q.err \/ Proven(lastCommit.version, n, q)
=============================================================================
