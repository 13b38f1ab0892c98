------------------------------ MODULE VersionDB ------------------------------
(***************************************************************************)
(* A node with a versiondb beside its memiavl store (versiondb): blocks    *)
(* are committed to memiavl first and streamed to the versiondb after, a   *)
(* crash may fall between, and the versiondb is filled, caught up, trimmed *)
(* and repaired offline with the changeset commands.                       *)
(*                                                                         *)
(* The node and the operator are external: a node does not start when its  *)
(* versiondb is not at the version of memiavl (versiondb/README.md), and   *)
(* the operator then brings the two together.                              *)
(***************************************************************************)
EXTENDS ChangeSetTools

CONSTANTS
    Stores,        \* store names, as numbers in the order of the names
    Changes,       \* change sets a block may make: sequences of [store, key, delete]
    Lag,           \* blocks memiavl may lose in a crash (0 unless AsyncCommitBuffer > 0)
    ChunkSize,     \* blocks of a change set file
    Concurrency,   \* workers of a dump
    ImportCommitBatchSize,
    WrongWrites,   \* whether RocksDB may misplace a batch (cronos-store issue 1683)
    Truncation,    \* whether a change set file may lose its tail
    MaxHeight,     \* bound: blocks
    MaxLegacy,     \* bound: blocks before the versiondb is enabled
    MaxCrashes     \* bound: crashes

ASSUME VersionDBAssumption ==
    /\ Stores \subseteq Nat /\ Lag \in Nat /\ MaxHeight \in Nat /\ MaxLegacy \in Nat /\ MaxCrashes \in Nat
    /\ ChunkSize \in Nat \ {0} /\ Concurrency \in Nat \ {0} /\ ImportCommitBatchSize \in Nat \ {0}
    /\ WrongWrites \in BOOLEAN /\ Truncation \in BOOLEAN

VARIABLES
    blocks,              \* the change set of every block of the chain
    app,                 \* the version memiavl has on disk
    phase,               \* the node: "down", "idle", "finalized", "committed"
    version,             \* the version of memiavl in memory
    currentBlockNumber,  \* StreamingService.currentBlockNumber
    db,                  \* the versiondb
    skipVersionZero,     \* Store.skipVersionZero
    base,                \* the first version the versiondb has
    wrong,               \* versions that were misplaced and not repaired
    files,               \* change set files: [start, end, of |-> store to files], or None
    sst,                 \* SST files, or None
    tool,                \* the command that runs: [cmd, ...], or None
    crashes

vars == <<blocks, app, phase, version, currentBlockNumber, db, skipVersionZero, base, wrong, files, sst, tool, crashes>>
node == <<blocks, app, phase, version, currentBlockNumber>>

None == [cmd |-> "none"]
Names == Ordered(Stores, <)
Offline == phase = "down" /\ tool = None

Init ==
    /\ blocks = <<>> /\ app = 0 /\ phase = "down" /\ version = 0 /\ currentBlockNumber = 0
    /\ db = EmptyDB /\ skipVersionZero = FALSE /\ base = 0 /\ wrong = {}
    /\ files = None /\ sst = None /\ tool = None /\ crashes = 0

(* a change set of block h; the value tells which block wrote it *)
Block(change, h) == [i \in DOMAIN change |-> [value |-> h] @@ change[i]]

StateAt(v) ==
    LET value(s, k) == LET ws == {h \in 1 .. v : \E i \in DOMAIN blocks[h] : blocks[h][i].store = s /\ blocks[h][i].key = k}
                           last(h) == blocks[h][Max({i \in DOMAIN blocks[h] : blocks[h][i].store = s /\ blocks[h][i].key = k})]
                       IN IF ws = {} \/ last(Max(ws)).delete THEN Absent ELSE Max(ws)
    IN [s \in Stores |-> [k \in Keys |-> value(s, k)]]

-----------------------------------------------------------------------------
(* The node. *)
LegacyBlock ==
    /\ Offline /\ db = EmptyDB /\ app = Len(blocks) /\ app < MaxLegacy
    /\ \E c \in Changes : blocks' = Append(blocks, Block(c, app + 1))
    /\ app' = app + 1 /\ version' = app'
    /\ UNCHANGED <<phase, currentBlockNumber, db, skipVersionZero, base, wrong, files, sst, tool, crashes>>

(* the check at startup; an empty versiondb is filled before it is enabled *)
Start ==
    /\ Offline
    /\ IF db = EmptyDB THEN app = 0 ELSE GetLatestVersion(db) = app
    /\ phase' = "idle" /\ currentBlockNumber' = 0
    /\ UNCHANGED <<blocks, app, version, db, skipVersionZero, base, wrong, files, sst, tool, crashes>>

(* a block that was lost is executed again *)
ListenFinalizeBlock ==
    /\ phase = "idle" /\ version < MaxHeight
    /\ currentBlockNumber' = version + 1
    /\ IF version < Len(blocks) THEN UNCHANGED blocks
       ELSE \E c \in Changes : blocks' = Append(blocks, Block(c, version + 1))
    /\ phase' = "finalized"
    /\ UNCHANGED <<app, version, db, skipVersionZero, base, wrong, files, sst, tool, crashes>>

(* memiavl's commit; with a buffered log its last versions are not on disk *)
Commit ==
    /\ phase = "finalized"
    /\ version' = version + 1 /\ app' \in Max({app, version' - Lag}) .. version'
    /\ phase' = "committed"
    /\ UNCHANGED <<blocks, currentBlockNumber, db, skipVersionZero, base, wrong, files, sst, tool, crashes>>

(* the pairs the listeners saw, by store *)
PopStateCache(pairs) ==
    FlattenSeq([i \in DOMAIN Names |-> SelectSeq(pairs, LAMBDA p : p.store = Names[i])])

ListenCommit ==
    /\ phase = "committed"
    /\ db' = PutAtVersion(db, currentBlockNumber, PopStateCache(blocks[version]))
    /\ phase' = "idle"
    /\ UNCHANGED <<blocks, app, version, currentBlockNumber, skipVersionZero, base, wrong, files, sst, tool, crashes>>

(* the RocksDB upgrade: the timestamp becomes a part of the key *)
MisplacedCommit ==
    /\ WrongWrites /\ wrong = {} /\ ~skipVersionZero
    /\ phase = "committed" /\ \A i \in DOMAIN blocks[version] : ~blocks[version][i].delete
    /\ LET at(p) == [p EXCEPT !.key = Append(@, currentBlockNumber)]
           pairs == blocks[version]
       IN db' = WriteBatch(SetLatestVersion(db, currentBlockNumber), [i \in DOMAIN pairs |-> at(pairs[i])], 0)
    /\ wrong' = {version} /\ phase' = "idle"
    /\ UNCHANGED <<blocks, app, version, currentBlockNumber, skipVersionZero, base, files, sst, tool, crashes>>

Crash ==
    /\ phase # "down" \/ tool # None
    /\ crashes < MaxCrashes
    /\ crashes' = crashes + 1 /\ phase' = "down" /\ version' = app /\ tool' = None
    /\ UNCHANGED <<blocks, app, currentBlockNumber, db, skipVersionZero, base, wrong, files, sst>>

Stop ==
    /\ phase = "idle" /\ phase' = "down" /\ app' = version
    /\ UNCHANGED <<blocks, version, currentBlockNumber, db, skipVersionZero, base, wrong, files, sst, tool, crashes>>

-----------------------------------------------------------------------------
(* The operator. *)
Behind == IF db.latest = 0 THEN base = 0 /\ app > 0 ELSE db.latest < app

(* a file may arrive cut off after a header or a pair *)
Received(dumped) ==
    {dumped} \cup {[dumped EXCEPT ![c[1]][c[2]] = SubSeq(@, 1, c[3])] :
                     c \in {x \in Stores \X (1 .. MaxHeight) \X (0 .. 9) :
                               Truncation /\ x[2] \in DOMAIN dumped[x[1]] /\ x[3] < Len(dumped[x[1]][x[2]])}}

(* dump the versions the versiondb misses: from an archive, or from the    *)
(* log of memiavl                                                          *)
Dump(archive) ==
    /\ Offline /\ Behind /\ files = None
    /\ LET start == db.latest + 1
           end == app + 1
           chain == SubSeq(blocks, 1, app)
           dumped == [s \in Stores |-> IF archive THEN DumpChangeSet(chain, s, start, end, ChunkSize, Concurrency)
                                       ELSE DumpMemiavlChangeSet(chain, 1, s, start, end, ChunkSize)]
       IN \E of \in Received(dumped) : files' = [cmd |-> "files", start |-> start, end |-> end, of |-> of]
    /\ sst' = None
    /\ UNCHANGED <<node, db, skipVersionZero, base, wrong, tool, crashes>>

BuildVersionDBSST ==
    /\ Offline /\ files # None /\ sst = None
    /\ \E order \in [Stores -> UNION {Permutations(1 .. SorterChunks(files.of[s])) : s \in Stores}] :
          /\ \A s \in Stores : order[s] \in Permutations(1 .. SorterChunks(files.of[s]))
          /\ sst' = [cmd |-> "sst", of |-> [s \in Stores |-> convertSingleStore(s, files.of[s], order[s])]]
    /\ UNCHANGED <<node, db, skipVersionZero, base, wrong, files, tool, crashes>>

AllSST == FlattenSeq([i \in DOMAIN Names |-> sst.of[Names[i]]])

(* ingest-versiondb-sst: the files, then the latest version *)
IngestFiles ==
    /\ Offline /\ sst # None
    /\ db' = IngestExternalFile(db, AllSST)
    /\ tool' = [cmd |-> "ingest"]
    /\ UNCHANGED <<node, skipVersionZero, base, wrong, files, sst, crashes>>

Ingested(maxVersion) == IF maxVersion > GetLatestVersion(db) THEN SetLatestVersion(db, maxVersion) ELSE db

IngestLatest ==
    /\ tool.cmd = "ingest"
    /\ db' = Ingested(files.end - 1)
    /\ tool' = None /\ files' = None /\ sst' = None
    /\ UNCHANGED <<node, skipVersionZero, base, wrong, crashes>>

(* to-versiondb: the change sets of the stores, one batch each; the latest *)
(* version is set with the other command                                   *)
ChangeSetToVersionDB ==
    /\ Offline /\ files # None /\ sst = None
    /\ tool' = [cmd |-> "feed",
                todo |-> FlattenSeq([i \in DOMAIN Names |->
                            LET fs == files.of[Names[i]]
                                sets == FlattenSeq([j \in DOMAIN fs |-> IterateChangeSets(fs[j])])
                            IN [j \in DOMAIN sets |-> [store |-> Names[i]] @@ sets[j]]])]
    /\ UNCHANGED <<node, db, skipVersionZero, base, wrong, files, sst, crashes>>

FeedOne ==
    /\ tool.cmd = "feed" /\ tool.todo # <<>>
    /\ LET f == Head(tool.todo) IN db' = FeedChangeSet(db, f.version, f.store, f.pairs)
    /\ tool' = IF Len(tool.todo) = 1 THEN [cmd |-> "ingest"] ELSE [tool EXCEPT !.todo = Tail(@)]
    /\ UNCHANGED <<node, skipVersionZero, base, wrong, files, sst, crashes>>

(* the leaves of a state-sync snapshot; readSnapshotEntries leaves out the *)
(* branches                                                                *)
readSnapshotEntries(height) ==
    LET state == StateAt(height)
        keys == Ordered(Keys, BytesLess)
        of(s) == SelectSeq([i \in DOMAIN keys |-> [store |-> s, key |-> keys[i], delete |-> FALSE, value |-> state[s][keys[i]]]],
                           LAMBDA e : e.value # Absent)
    IN FlattenSeq([i \in DOMAIN Names |-> of(Names[i])])

RestoreVersionDB ==
    /\ Offline /\ db.latest = 0 /\ app > 0 /\ files = None
    /\ tool' = [cmd |-> "restore", todo |-> readSnapshotEntries(app)]
    /\ UNCHANGED <<node, db, skipVersionZero, base, wrong, files, sst, crashes>>

(* a batch of the import *)
Import ==
    /\ tool.cmd = "restore" /\ tool.todo # <<>>
    /\ LET n == Min({ImportCommitBatchSize, Len(tool.todo)})
       IN /\ db' = WriteBatch(db, SubSeq(tool.todo, 1, n), app)
          /\ tool' = [tool EXCEPT !.todo = SubSeq(@, n + 1, Len(@))]
    /\ UNCHANGED <<node, skipVersionZero, base, wrong, files, sst, crashes>>

BugRestoreDone == tool.cmd = "restore"

(* the latest version is set when the whole stream was read *)
RestoreDone == tool.cmd = "restore" /\ tool.todo = <<>>

Restored ==
    /\ RestoreDone
    /\ db' = SetLatestVersion(db, app) /\ base' = app /\ tool' = None
    /\ UNCHANGED <<node, skipVersionZero, wrong, files, sst, crashes>>

(* memiavl lost versions the versiondb has: they are trimmed, after a      *)
(* repair, which would write them again                                    *)
Rollback ==
    /\ Offline /\ db.latest > app /\ wrong = {}
    /\ db' = SetLatestVersion(TrimHistory(db, app), app)
    /\ UNCHANGED <<node, skipVersionZero, base, wrong, files, sst, tool, crashes>>

(* one store after the other, then the node is told to skip version 0 *)
StartFixData ==
    /\ Offline /\ wrong # {} /\ tool' = [cmd |-> "fix", todo |-> Names]
    /\ UNCHANGED <<node, db, skipVersionZero, base, wrong, files, sst, crashes>>

FixOneStore ==
    /\ tool.cmd = "fix" /\ tool.todo # <<>>
    /\ db' = fixDataStore(db, skipVersionZero, Head(tool.todo))
    /\ tool' = IF Len(tool.todo) = 1 THEN None ELSE [tool EXCEPT !.todo = Tail(@)]
    /\ IF Len(tool.todo) = 1 THEN wrong' = {} /\ skipVersionZero' = TRUE ELSE UNCHANGED <<wrong, skipVersionZero>>
    /\ UNCHANGED <<node, base, files, sst, crashes>>

Next ==
    \/ LegacyBlock \/ Start \/ ListenFinalizeBlock \/ Commit \/ ListenCommit \/ MisplacedCommit \/ Crash \/ Stop
    \/ (\E archive \in BOOLEAN : Dump(archive)) \/ BuildVersionDBSST \/ IngestFiles \/ IngestLatest
    \/ ChangeSetToVersionDB \/ FeedOne \/ RestoreVersionDB \/ Import \/ Restored \/ Rollback
    \/ StartFixData \/ FixOneStore

Spec == Init /\ [][Next]_vars

-----------------------------------------------------------------------------
(* versiondb.MultiStore: the stores at a version, or at none, which is the *)
(* latest one                                                              *)
NewKVStore(name, v) == [name |-> name, version |-> v]
cacheMultiStore(v) == [s \in Stores |-> NewKVStore(s, v)]
CacheMultiStore == cacheMultiStore(Absent)
CacheMultiStoreWithVersion(v) == cacheMultiStore(v)

StoreGet(st, key) == GetAtVersion(db, skipVersionZero, st.name, key, st.version)
StoreHas(st, key) == HasAtVersion(db, skipVersionZero, st.name, key, st.version)
Iterator(st, start, end) == iteratorAtVersion(db, skipVersionZero, st.name, start, end, st.version, FALSE)
ReverseIterator(st, start, end) == iteratorAtVersion(db, skipVersionZero, st.name, start, end, st.version, TRUE)

-----------------------------------------------------------------------------
Serving == phase # "down" /\ wrong = {}
Readable == base .. db.latest

(* While the node serves queries, a versiondb store at any version up to   *)
(* the latest one, and the store at no version, which reads the latest,    *)
(* has the values the block of that version left: no version is missing or *)
(* mixed with another one, however the versiondb was filled (PutAtVersion, *)
(* ingested SST files, FeedChangeSet, Import, FixData) and whatever        *)
(* crashed in between.                                                     *)
HistoryExact ==
    LET exact(ms, v) == LET state == StateAt(v)
                        IN \A s \in Stores, k \in Keys :
                               /\ StoreGet(ms[s], k) = state[s][k]
                               /\ StoreHas(ms[s], k) = (state[s][k] # Absent)
    IN Serving => /\ \A v \in Readable : exact(CacheMultiStoreWithVersion(v), v)
                  /\ exact(CacheMultiStore, GetLatestVersion(db))

(* Between blocks, an iterator over any range of a store at any version,   *)
(* in either direction, yields the live keys of that range of that store   *)
(* once each, in order, and none of its neighbours (iteratorAtVersion,     *)
(* rocksDBIterator).                                                       *)
IteratorsExact ==
    LET bounds == Keys \cup {Nil}
        state == [v \in Readable |-> StateAt(v)]
        inside(k, start, end) == (start = Nil \/ ~BytesLess(k, start)) /\ (end = Nil \/ BytesLess(k, end))
        expected(s, v, start, end) ==
            LET found == Ordered({k \in Keys : inside(k, start, end) /\ state[v][s][k] # Absent}, BytesLess)
            IN [i \in DOMAIN found |-> <<found[i], state[v][s][found[i]]>>]
        yields(it) == LET es == Collect(it) IN [i \in DOMAIN es |-> <<es[i].key, es[i].value>>]
    IN Serving /\ phase = "idle" =>
           \A v \in Readable, s \in Stores, start, end \in bounds :
               LET st == CacheMultiStoreWithVersion(v)[s]
               IN /\ yields(Iterator(st, start, end)) = expected(s, v, start, end)
                  /\ yields(ReverseIterator(st, start, end)) = Reverse(expected(s, v, start, end))

(* The SST files of a build can be written and ingested together: entries  *)
(* come in RocksDB's order, the newest version of a key first, and no two  *)
(* files share a key (convertSingleStore, ExtSorter).                      *)
SSTFilesIngestible ==
    sst # None =>
        /\ \A i \in DOMAIN AllSST : \A j \in 1 .. Len(AllSST[i]) - 1 :
               compare(AllSST[i][j].entry, AllSST[i][j + 1].entry)
        /\ \A i, j \in DOMAIN AllSST :
               i < j => compareWithoutTS(Last(AllSST[i]).entry, Head(AllSST[j]).entry)

(* verify replays change set files of a node to the stores the live node   *)
(* had: with the versions no file mentions filled in, from the version     *)
(* before the first one in a file, it arrives at the hash every store has  *)
(* in the block of the target version, if a file is that old.              *)
VerifyReplaysLive ==
    files # None /\ files.start = 1 /\ ~Truncation =>
        \A target \in 0 .. files.end - 1 :
            LET last == IF target = 0 THEN files.end - 1 ELSE target
            IN \A info \in {VerifyChangeSet(files.of, target)} : \A s \in DOMAIN info.stores :
                   info.version = last /\ info.stores[s] = lastCommitID(LiveTree(blocks, s, last))

(* The application database restored from the snapshot verify saved has    *)
(* the tree of every store at the last version: from the root record, the  *)
(* records named by the hashes are there and lead to its keys and values   *)
(* (restore-app-db).                                                       *)
AppDBRestored ==
    files # None /\ files.start = 1 /\ ~Truncation =>
        \A s \in Stores : \A appDB \in {oneStore(verifyOneStore(files.of[s], 0))} :
            LET state == StateAt(files.end - 1)[s]
            IN /\ appDB.root = RootHash(LiveTree(blocks, s, files.end - 1))
               /\ Reached(appDB, appDB.root) = {<<Rank(k), state[k]>> : k \in {x \in Keys : state[x] # Absent}}

(* What the SST files built from the change set files hold. *)
Built == IngestExternalFile(EmptyDB, FlattenSeq([i \in DOMAIN Names |->
             LET fs == files.of[Names[i]] IN convertSingleStore(Names[i], fs, [j \in 1 .. SorterChunks(fs) |-> j])]))

Verified ==
    \A info \in {VerifyChangeSet(files.of, 0)} :
       [s \in DOMAIN info.stores |-> info.stores[s].hash] = [s \in Stores |-> RootHash(LiveTree(blocks, s, files.end - 1))]

(* Change set files from genesis whose replay gives the application hash   *)
(* of the last block have the state of every block: changeset.go:261 has   *)
(* the user run verify because a cut off file is not noticed, and the      *)
(* README calls files that were verified trustless.                        *)
VerifiedFilesExact ==
    files # None /\ files.start = 1 /\ Verified =>
        \A s \in Stores, k \in Keys, v \in 1 .. files.end - 1 :
            GetAtVersion(Built, FALSE, s, k, v) = StateAt(v)[s][k]
=============================================================================
