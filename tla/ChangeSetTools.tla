---------------------------- MODULE ChangeSetTools ----------------------------
(***************************************************************************)
(* The changeset commands (versiondb/client): change sets are dumped from  *)
(* an archive or from the log of memiavl into files, verified by replaying *)
(* them, sorted into SST files and ingested into a versiondb, and a tree   *)
(* snapshot is turned into an application database.                        *)
(*                                                                         *)
(* blocks[v] is the change set of block v, the pairs [store, key, delete,  *)
(* value] in the order they were written. A change set file is a sequence  *)
(* of versions, each a header [version, size] and then its pairs; an SST   *)
(* file is a sequence of entries [entry |-> <<key, version>>, value].      *)
(***************************************************************************)
EXTENDS TsRocksDB, IavlSnapshot

CONSTANTS Keys,          \* the keys of every store
          SSTFileSize,   \* entries after which an SST file is full
          SorterChunk    \* MaxChunkSize of the external sorter

Strip(p) == [key |-> p.key, delete |-> p.delete, value |-> p.value]
OfStore(pairs, store) == LET own == SelectSeq(pairs, LAMBDA p : p.store = store)
                         IN [i \in DOMAIN own |-> Strip(own[i])]

-----------------------------------------------------------------------------
(* WriteChangeSet; the size counts pairs *)
WriteChangeSet(version, pairs) == <<[version |-> version, size |-> Len(pairs)]>> \o pairs

(* ReadChangeSet and IterateChangeSets: the end of a file is taken for the *)
(* end of the change sets wherever it comes, a version that is not whole   *)
(* is left out                                                             *)
RECURSIVE IterateChangeSets(_)
IterateChangeSets(file) ==
    IF file = <<>> \/ Len(file) <= file[1].size THEN <<>>
    ELSE <<[version |-> file[1].version, pairs |-> SubSeq(file, 2, file[1].size + 1)]>>
         \o IterateChangeSets(SubSeq(file, file[1].size + 2, Len(file)))

-----------------------------------------------------------------------------
(* dump. Ranges include their start and exclude their end. *)
Steps(start, end, size) ==
    IF start >= end THEN <<>>
    ELSE [i \in 1 .. (end - start + size - 1) \div size |->
             [start |-> start + (i - 1) * size, end |-> Min({start + i * size, end})]]

splitWorkLoad(workers, full) ==
    Steps(full.start, full.end, (full.end - full.start + workers - 1) \div workers)

(* DB.traverseStateChanges, the range cut to what the log holds: every     *)
(* version of it, also those that leave the store unchanged                *)
traverseStateChanges(blocks, first, store, startVersion, endVersion) ==
    LET from == Max({startVersion, first})
        to == Min({endVersion, Len(blocks)})
    IN [i \in 1 .. Max({0, to - from + 1}) |->
           [version |-> from + i - 1, pairs |-> OfStore(blocks[from + i - 1], store)]]

(* the end of the traversal is included, the end of the range is not *)
dumpRangeBlocks(blocks, first, store, range) ==
    LET sets == traverseStateChanges(blocks, first, store, range.start, range.end - 1)
    IN FlattenSeq([i \in DOMAIN sets |-> WriteChangeSet(sets[i].version, sets[i].pairs)])

(* collect: the results of the tasks in order *)
collect(blocks, first, store, ranges) ==
    FlattenSeq([i \in DOMAIN ranges |-> dumpRangeBlocks(blocks, first, store, ranges[i])])

(* the files of one store, for [start, end): a file for each chunk         *)
DumpChangeSet(blocks, store, start, end, chunkSize, concurrency) ==
    LET chunks == Steps(start, end, chunkSize)
    IN [i \in DOMAIN chunks |-> collect(blocks, 1, store, splitWorkLoad(concurrency, chunks[i]))]

FirstStoreVersions(blocks, first, store) ==
    LET touched == {v \in first .. Len(blocks) : OfStore(blocks[v], store) # <<>>}
    IN IF touched = {} THEN 0 ELSE Min(touched)

DumpMemiavlChangeSet(blocks, first, store, start, end, chunkSize) ==
    LET chunks == Steps(Max({start, first, FirstStoreVersions(blocks, first, store)}), end, chunkSize)
    IN [i \in DOMAIN chunks |-> collect(blocks, first, store, <<chunks[i]>>)]

-----------------------------------------------------------------------------
(* by name: block-10 comes before block-9 *)
ReadDir(files) == Reverse(files)

BugSortFilesByFirstVerson(files) == SelectSeq(files, LAMBDA f : f # <<>>)

SortFilesByFirstVerson(files) ==
    SortSeq(SelectSeq(files, LAMBDA f : f # <<>>), LAMBDA f, g : f[1].version < g[1].version)

scanChangeSetFiles(files) == SortFilesByFirstVerson(ReadDir(files))

-----------------------------------------------------------------------------
(* build-versiondb-sst *)
encodeSorterItem(version, pair) ==
    pair.key \o <<version>> \o (IF pair.delete THEN <<1>> ELSE <<0, pair.value>>) \o <<Len(pair.key)>>

decodeSorterItem(item) ==
    LET keyLen == Last(item)
        delete == item[keyLen + 2] = 1
    IN [key |-> SubSeq(item, 1, keyLen), ts |-> item[keyLen + 1],
        value |-> IF delete THEN Tombstone ELSE item[keyLen + 3]]

(* by key, then the newer version first *)
compareSorterItem(a, b) ==
    LET aKey == SubSeq(a, 1, Last(a))
        bKey == SubSeq(b, 1, Last(b))
    IN IF aKey # bKey THEN BytesLess(aKey, bKey) ELSE a[Len(aKey) + 1] > b[Len(bKey) + 1]

Sorter == INSTANCE ExtSort WITH LesserFunc <- compareSorterItem, MaxChunkSize <- SorterChunk

SorterItems(files) ==
    LET sorted == scanChangeSetFiles(files)
        sets == FlattenSeq([i \in DOMAIN sorted |-> IterateChangeSets(sorted[i])])
    IN FlattenSeq([i \in DOMAIN sets |-> [j \in DOMAIN sets[i].pairs |->
                                             encodeSorterItem(sets[i].version, sets[i].pairs[j])]])

BugsstWrite(store, ssts, item) ==
    LET pair == decodeSorterItem(item)
        e == [entry |-> <<prependStoreKey(store, pair.key), pair.ts>>, value |-> pair.value]
    IN IF Len(Last(ssts)) >= SSTFileSize THEN Append(ssts, <<e>>) ELSE Append(Front(ssts), Append(Last(ssts), e))

(* a full file is finished when the key changes *)
sstWrite(store, ssts, item) ==
    LET pair == decodeSorterItem(item)
        file == Last(ssts)
        e == [entry |-> <<prependStoreKey(store, pair.key), pair.ts>>, value |-> pair.value]
    IN IF Len(file) >= SSTFileSize /\ Last(file).entry[1] # e.entry[1] THEN Append(ssts, <<e>>)
       ELSE Append(Front(ssts), Append(file, e))

(* order: how the chunk files of the sorter were completed *)
convertSingleStore(store, files, order) ==
    LET chunks == Sorter!ChunkFiles(SorterItems(files))
        sorted == Sorter!Finalize([i \in DOMAIN chunks |-> chunks[order[i]]])
    IN IF sorted = <<>> THEN <<>>
       ELSE FoldLeft(LAMBDA ssts, item : sstWrite(store, ssts, item), << <<>> >>, sorted)

SorterChunks(files) == Len(Sorter!ChunkFiles(SorterItems(files)))

(* IngestExternalFileCF: all the files, or none *)
IngestExternalFile(db, ssts) ==
    FoldLeft(LAMBDA d, e : WriteEntry(d, e.entry[1], e.entry[2], e.value), db, FlattenSeq(ssts))

-----------------------------------------------------------------------------
(* Trees, for verify. IavlNode orders keys by number.                      *)
Rank(key) == Cardinality({k \in Keys : BytesLess(k, key)}) + 1

NewTree == [m |-> [heap |-> <<>>, file |-> NoFile], root |-> NoNode, version |-> 0]

withRoot(t, r) == [t EXCEPT !.m = r.m, !.root = r.node]

ApplyPair(t, p) ==
    withRoot(t, IF p.delete THEN removeRecursive(t.m, t.root, Rank(p.key), t.version + 1, 0)
                ELSE setRecursive(t.m, t.root, Rank(p.key), p.value, t.version + 1, 0))

ApplyChangeSet(t, pairs) == FoldLeft(ApplyPair, t, pairs)
SaveVersion(t) == [t EXCEPT !.version = @ + 1]
RootHash(t) == IF t.root = NoNode THEN NoHash ELSE Hash(t.m, t.root).hash

SetInitialVersion(t, v) == IF t.version > 0 THEN t ELSE [t EXCEPT !.version = Max({0, v - 1})]

advanceTreeVersion(t, target) == [t EXCEPT !.version = Max({@, target})]

(* one change set of the replay; old ones are skipped *)
Replay(t, set, targetVersion) ==
    LET ready == advanceTreeVersion(t, set.version - 1)
    IN IF set.version <= t.version \/ (targetVersion > 0 /\ t.version >= targetVersion) THEN t
       ELSE SaveVersion(ApplyChangeSet(ready, set.pairs))

NoStore == [version |-> 0, hash |-> NoHash]

verifyOneStore(files, targetVersion) ==
    LET sorted == scanChangeSetFiles(files)
        used == SelectSeq(sorted, LAMBDA f : targetVersion = 0 \/ f[1].version <= targetVersion)
        start == SetInitialVersion(NewTree, sorted[1][1].version)
    IN IF used = <<>> THEN NewTree
       ELSE advanceTreeVersion(
                FoldLeft(LAMBDA tree, set : Replay(tree, set, targetVersion), start,
                         FlattenSeq([i \in DOMAIN used |-> IterateChangeSets(used[i])])),
                targetVersion)

lastCommitID(t) == IF t.version = 0 THEN NoStore ELSE [version |-> t.version, hash |-> RootHash(t)]

(* the commit info of the stores that have a file early enough, of which   *)
(* the application hash is made                                            *)
buildCommitInfo(ids) ==
    LET found == {s \in DOMAIN ids : ids[s] # NoStore}
    IN [version |-> Max({0} \cup {ids[s].version : s \in found}), stores |-> [s \in found |-> ids[s]]]

VerifyChangeSet(dir, targetVersion) ==
    buildCommitInfo([s \in DOMAIN dir |-> lastCommitID(verifyOneStore(dir[s], targetVersion))])

(* the stores of the live node at version, which commits all of them in    *)
(* every block                                                             *)
LiveTree(blocks, store, version) ==
    FoldLeft(LAMBDA t, pairs : SaveVersion(ApplyChangeSet(t, OfStore(pairs, store))), NewTree,
             SubSeq(blocks, 1, version))

-----------------------------------------------------------------------------
(* restore-app-db: the nodes of a tree snapshot by their hashes, and the   *)
(* root record                                                             *)
encodeNode(m, n) ==
    [height |-> Height(m, n), size |-> Size(m, n), version |-> NodeVersion(m, n),
     key |-> Key(m, n), value |-> Value(m, n),
     left |-> IF IsLeaf(m, n) THEN NoHash ELSE CachedHash(m, Left(m, n)),
     right |-> IF IsLeaf(m, n) THEN NoHash ELSE CachedHash(m, Right(m, n))]

(* ScanNodes *)
Scanned(file) ==
    {Leaf(i - 1) : i \in DOMAIN file.leaves} \cup {Branch(i - 1) : i \in DOMAIN file.nodes}

storeNodes(m) ==
    LET nodes == Scanned(m.file)
    IN [h \in {CachedHash(m, n) : n \in nodes} |->
           encodeNode(m, CHOOSE n \in nodes : CachedHash(m, n) = h)]

BugrootRecord(m) == IF m.file.leaves = <<>> THEN NoHash ELSE Last(m.file.leaves).hash

rootRecord(m) == LET root == RootNode(m.file)
                 IN IF root = NoNode THEN NoHash ELSE CachedHash(m, root)

restored(m) == [nodes |-> storeNodes(m), root |-> rootRecord(m)]

oneStore(t) == restored([heap |-> <<>>, file |-> writeSnapshot(t.m, t.root, t.version).file])

(* what an iavl tree opened at the root record finds, following hashes *)
RECURSIVE Reached(_, _)
Reached(appDB, hash) ==
    IF hash = NoHash THEN {}
    ELSE LET n == appDB.nodes[hash]
         IN IF n.height = 0 THEN {<<n.key, n.value>>} ELSE Reached(appDB, n.left) \cup Reached(appDB, n.right)
=============================================================================
