------------------------------ MODULE TsRocksDB ------------------------------
(***************************************************************************)
(* The versiondb store (versiondb/tsrocksdb): a RocksDB column family with *)
(* user-defined timestamps, where an entry is a key, the version it was    *)
(* written at and a value or a tombstone, and the iterators over it.       *)
(*                                                                         *)
(* A key is the sequence of its bytes. db == [data |-> function from       *)
(* <<key, version>> to values, latest |-> the value of s/latest].          *)
(***************************************************************************)
EXTENDS Integers, Sequences, SequencesExt, FiniteSetsExt

Nil == <<-1>>             \* a nil key, no byte string
Tombstone == 0            \* what a delete writes
Absent == -1              \* nothing was ever written
MaxUint64 == 1000000      \* bound: above every version

BytesLess(a, b) ==
    \/ IsStrictPrefix(a, b)
    \/ \E i \in 1 .. Min({Len(a), Len(b)}) : a[i] < b[i] /\ \A j \in 1 .. i - 1 : a[j] = b[j]

(* the elements of a set in order, each at its rank *)
Ordered(S, Less(_, _)) ==
    [i \in 1 .. Cardinality(S) |-> CHOOSE x \in S : Cardinality({y \in S : Less(y, x)}) = i - 1]

compareTS(ts1, ts2) == ts1 < ts2

(* the order of entries: by key, the newest version first *)
compare(a, b) == BytesLess(a[1], b[1]) \/ (a[1] = b[1] /\ compareTS(b[2], a[2]))
compareWithoutTS(a, b) == BytesLess(a[1], b[1])

(* "s/k:%s/": no prefix is a prefix of another one *)
storePrefix(store) == <<store>>
prependStoreKey(store, key) == storePrefix(store) \o key

(* the prefix never ends in 0xFF *)
cpIncr(bz) == [bz EXCEPT ![Len(bz)] = @ + 1]

BugiterateWithPrefix(prefix, begin, end) ==
    <<prefix \o (IF begin = Nil THEN <<>> ELSE begin), prefix \o (IF end = Nil THEN <<255>> ELSE end)>>

iterateWithPrefix(prefix, begin, end) ==
    <<prefix \o (IF begin = Nil THEN <<>> ELSE begin), IF end = Nil THEN cpIncr(prefix) ELSE prefix \o end>>

-----------------------------------------------------------------------------
(* RocksDB: writes, and reads that see the newest entry of a key that is   *)
(* not newer than the timestamp of the read.                               *)
EmptyDB == [data |-> [e \in {} |-> 0], latest |-> 0]

WriteEntry(db, key, ts, value) == [db EXCEPT !.data = (<<key, ts>> :> value) @@ @]

WriteBatch(db, pairs, ts) ==
    FoldLeft(LAMBDA d, p : WriteEntry(d, prependStoreKey(p.store, p.key), ts,
                                      IF p.delete THEN Tombstone ELSE p.value), db, pairs)

Newest(data, key, ts) ==
    LET seen == {e[2] : e \in {x \in DOMAIN data : x[1] = key /\ x[2] <= ts}}
    IN IF seen = {} THEN Absent ELSE Max(seen)

GetCFWithTS(data, key, ts) ==
    LET n == Newest(data, key, ts)
    IN IF n = Absent \/ data[<<key, n>>] = Tombstone THEN [exists |-> FALSE, ts |-> 0, value |-> Absent]
       ELSE [exists |-> TRUE, ts |-> n, value |-> data[<<key, n>>]]

(* what a RocksDB iterator at ts walks over *)
Visible(data, ts) ==
    LET keys == {k \in {e[1] : e \in DOMAIN data} : GetCFWithTS(data, k, ts).exists}
        found == {[key |-> k, ts |-> Newest(data, k, ts), value |-> data[<<k, Newest(data, k, ts)>>]] : k \in keys}
    IN Ordered(found, LAMBDA a, b : BytesLess(a.key, b.key))

-----------------------------------------------------------------------------
SetLatestVersion(db, version) == [db EXCEPT !.latest = version]

(* one synced batch: the change set of a block and the latest version *)
PutAtVersion(db, version, pairs) == WriteBatch([db EXCEPT !.latest = version], pairs, version)

GetLatestVersion(db) == db.latest

newTSReadOptions(version) == IF version = Absent THEN MaxUint64 ELSE version

GetAtVersionSlice(db, skip, store, key, version) ==
    LET r == GetCFWithTS(db.data, prependStoreKey(store, key), newTSReadOptions(version))
    IN IF r.exists /\ skip /\ r.ts = 0 THEN [r EXCEPT !.exists = FALSE, !.value = Absent] ELSE r

GetAtVersion(db, skip, store, key, version) == GetAtVersionSlice(db, skip, store, key, version).value
HasAtVersion(db, skip, store, key, version) == GetAtVersionSlice(db, skip, store, key, version).exists

(* a version of one store, without touching the latest version *)
FeedChangeSet(db, version, store, pairs) ==
    WriteBatch(db, [i \in DOMAIN pairs |-> [store |-> store] @@ pairs[i]], version)

(* OpenVersionDBAndTrimHistory *)
TrimHistory(db, version) ==
    LET kept == {e \in DOMAIN db.data : e[2] <= version} IN [db EXCEPT !.data = [e \in kept |-> db.data[e]]]

-----------------------------------------------------------------------------
(* rocksDBIterator: the entries of the source, where it stands, its bounds *)
Seek(source, key) == Cardinality({i \in DOMAIN source : BytesLess(source[i].key, key)}) + 1

SourceValid(it) == it.pos \in DOMAIN it.source

Valid(it) ==
    /\ SourceValid(it)
    /\ IF it.reverse THEN ~BytesLess(it.source[it.pos].key, it.start)
                     ELSE BytesLess(it.source[it.pos].key, it.end)

Advance(it) == [it EXCEPT !.pos = IF it.reverse THEN @ - 1 ELSE @ + 1]

RECURSIVE trySkipZeroVersion(_)
trySkipZeroVersion(it) ==
    IF it.skip /\ Valid(it) /\ it.source[it.pos].ts = 0 THEN trySkipZeroVersion(Advance(it)) ELSE it

NextEntry(it) == trySkipZeroVersion(Advance(it))

(* the last entry before end; the source is left invalid when there is none *)
reversePosition(source, end) ==
    LET eoa == Seek(source, end) IN IF eoa \in DOMAIN source THEN eoa - 1 ELSE Len(source)

newRocksDBIterator(source, start, end, reverse, skip) ==
    trySkipZeroVersion([source |-> source, start |-> start, end |-> end, reverse |-> reverse, skip |-> skip,
                        pos |-> IF reverse THEN reversePosition(source, end) ELSE Seek(source, start)])

iteratorAtVersion(db, skip, store, start, end, version, reverse) ==
    LET range == iterateWithPrefix(storePrefix(store), start, end)
    IN newRocksDBIterator(Visible(db.data, newTSReadOptions(version)), range[1], range[2], reverse, skip)

(* what a caller collects: keys without the prefix, values, timestamps *)
RECURSIVE Collect(_)
Collect(it) ==
    IF ~Valid(it) THEN <<>>
    ELSE LET e == it.source[it.pos] IN <<[e EXCEPT !.key = Tail(@)]>> \o Collect(NextEntry(it))

-----------------------------------------------------------------------------
(* FixData: entries a RocksDB upgrade wrote at version 0, under a key that *)
(* ends in their timestamp, are written again where they belong.           *)
loadWrongData(db, skip, store) ==
    LET found == SelectSeq(Collect(iteratorAtVersion(db, skip, store, Nil, Nil, 0, FALSE)), LAMBDA e : e.ts = 0)
    IN [i \in DOMAIN found |-> [key |-> Front(found[i].key), ts |-> Last(found[i].key), value |-> found[i].value]]

fixDataStore(db, skip, store) ==
    LET clean(p) == LET old == GetCFWithTS(db.data, prependStoreKey(store, p.key), p.ts)
                    IN old.value = p.value /\ old.ts = p.ts
    IN FoldLeft(LAMBDA d, p : WriteEntry(d, prependStoreKey(store, p.key), p.ts, p.value),
                db, SelectSeq(loadWrongData(db, skip, store), LAMBDA p : ~clean(p)))
=============================================================================
