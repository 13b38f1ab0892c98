------------------------------- MODULE IavlTree -------------------------------
(***************************************************************************)
(* One memiavl.Tree (memiavl/tree.go): the live tree the state machine     *)
(* writes, its value cache, the copies taken of it for snapshot rewrites,  *)
(* and the reload that replaces its nodes by those of a snapshot.          *)
(***************************************************************************)
EXTENDS IavlSnapshot, IavlProof

CONSTANTS
    Keys,             \* keys, positive integers
    Values,           \* values, naturals
    CacheSize,        \* entries of the value cache, 0 for none
    LockFreeReaders,  \* whether Tree.Get runs beside a write, as latest-height queries do
    BlockWrites,      \* bound: how many writes each block may make, one entry per version
    MaxCopies         \* bound: copies taken

ASSUME TreeAssumption ==
    /\ Keys \subseteq Nat \ {NoKey} /\ Values \subseteq Nat
    /\ CacheSize \in Nat /\ MaxCopies \in Nat
    /\ BlockWrites \in Seq(Nat)
    /\ LockFreeReaders \in BOOLEAN

VARIABLES
    heap,     \* MemNodes
    tree,     \* [root, version, cowVersion, file]
    cache,    \* Tree.cache: pairs, least recently used first
    reader,   \* a Get between its lookup and its insertion in the cache
    copies,   \* trees returned by Copy, with what they held then
    content,  \* the key-value map the writes so far describe
    writes    \* writes since the last SaveVersion

vars == <<heap, tree, cache, reader, copies, content, writes>>

NoReader == NoPair
dirty == writes > 0
Empty == [k \in Keys |-> NoValue]

-----------------------------------------------------------------------------
StoreOf(t) == [heap |-> heap, file |-> t.file]
Live == StoreOf(tree)

(* Go's garbage collector (external): nodes no tree reaches are gone, and   *)
(* the rest is numbered in the order a traversal meets it.                  *)
RECURSIVE Reached(_, _, _)
Reached(h, n, seen) ==
    IF ~IsMem(n) \/ Contains(seen, n[2]) THEN seen
    ELSE Reached(h, h[n[2]].right, Reached(h, h[n[2]].left, Append(seen, n[2])))

Collect(h, t, cs) ==
    LET roots == <<t.root>> \o [i \in DOMAIN cs |-> cs[i].tree.root]
        kept == FoldLeft(LAMBDA seen, n : Reached(h, n, seen), <<>>, roots)
        at(n) == IF IsMem(n) THEN Mem(SelectInSeq(kept, LAMBDA i : i = n[2])) ELSE n
    IN /\ heap' = [i \in DOMAIN kept |-> [h[kept[i]] EXCEPT !.left = at(@), !.right = at(@)]]
       /\ tree' = [t EXCEPT !.root = at(@)]
       /\ copies' = [i \in DOMAIN cs |-> [cs[i] EXCEPT !.tree.root = at(@)]]

(* The value cache (external, an LRU per shard). *)
Without(c, k) == SelectSeq(c, LAMBDA e : e[1] # k)

CacheAdd(c, k, v) ==
    LET full == Append(Without(c, k), <<k, v>>)
    IN IF CacheSize = 0 THEN <<>>
       ELSE IF Len(full) > CacheSize THEN Tail(full) ELSE full

CacheGet(c, k) == SelectSeq(c, LAMBDA e : e[1] = k)

-----------------------------------------------------------------------------
Init ==
    /\ heap = <<>> /\ cache = <<>> /\ reader = NoReader /\ copies = <<>>
    /\ tree = [root |-> NoNode, version |-> 0, cowVersion |-> 0, file |-> NoFile]
    /\ content = Empty /\ writes = 0

(* nodes of the block being executed carry the version it will get *)
WorkingVersion == tree.version + 1

MaxVersion == Len(BlockWrites)

CanWrite ==
    /\ tree.version < MaxVersion /\ writes < BlockWrites[WorkingVersion]
    /\ LockFreeReaders \/ reader = NoReader

set(k, v) ==
    /\ CanWrite
    /\ LET r == setRecursive(Live, tree.root, k, v, WorkingVersion, tree.cowVersion)
       IN Collect(r.m.heap, [tree EXCEPT !.root = r.node], copies)
    /\ cache' = CacheAdd(cache, k, v)
    /\ content' = [content EXCEPT ![k] = v] /\ writes' = writes + 1
    /\ UNCHANGED reader

BugremoveStaleCache(k) ==
    /\ CanWrite
    /\ LET r == removeRecursive(Live, tree.root, k, WorkingVersion, tree.cowVersion)
       IN Collect(r.m.heap, [tree EXCEPT !.root = r.node], copies)
    /\ content' = [content EXCEPT ![k] = NoValue] /\ writes' = writes + 1
    /\ UNCHANGED <<cache, reader>>

remove(k) ==
    /\ CanWrite
    /\ LET r == removeRecursive(Live, tree.root, k, WorkingVersion, tree.cowVersion)
       IN Collect(r.m.heap, [tree EXCEPT !.root = r.node], copies)
    /\ cache' = Without(cache, k)
    /\ content' = [content EXCEPT ![k] = NoValue] /\ writes' = writes + 1
    /\ UNCHANGED reader

Hashed(m, root) == IF root = NoNode THEN m ELSE Hash(m, root).m

(* WorkingCommitInfo: the hash of the block before it is committed *)
RootHash ==
    /\ dirty
    /\ heap' = Hashed(Live, tree.root).heap
    /\ UNCHANGED <<tree, cache, reader, copies, content, writes>>

SaveVersion(updateHash) ==
    /\ tree.version < MaxVersion
    /\ heap' = IF updateHash THEN Hashed(Live, tree.root).heap ELSE heap
    /\ tree' = [tree EXCEPT !.version = @ + 1]
    /\ writes' = 0
    /\ UNCHANGED <<cache, reader, copies, content>>

(* Copy protects the MemNodes it shares, then copies the struct; its cache  *)
(* is its own. Commit takes it for the rewrite, when no write is pending.   *)
Copy ==
    /\ Len(copies) < MaxCopies
    /\ ~dirty
    /\ tree' = [tree EXCEPT !.cowVersion = IF IsMem(tree.root) THEN tree.version ELSE @]
    /\ copies' = Append(copies, [tree |-> tree', content |-> content])
    /\ UNCHANGED <<heap, cache, reader, content, writes>>

(* a snapshot of the tree is written and the tree replaced by it           *)
(* (WriteSnapshot, OpenSnapshot, NewFromSnapshot)                          *)
Reload ==
    /\ ~dirty /\ tree.version > 0 /\ reader = NoReader
    /\ LET s == writeSnapshot(Live, tree.root, tree.version)
       IN /\ ~Corrupted(s.file)
          /\ Collect(s.m.heap, [root |-> RootNode(s.file), version |-> s.file.version,
                                cowVersion |-> 0, file |-> s.file], copies)
    /\ cache' = <<>>
    /\ UNCHANGED <<reader, content, writes>>

(* Get: a hit ends it; a miss looks the key up and then caches the value *)
TreeGet(t, m, k) == IF t.root = NoNode THEN NoValue ELSE Get(m, t.root, k).value

GetHit(k) ==
    /\ CacheGet(cache, k) # <<>>
    /\ cache' = Without(cache, k) \o CacheGet(cache, k)
    /\ UNCHANGED <<heap, tree, reader, copies, content, writes>>

GetMiss(k) ==
    /\ CacheSize > 0 /\ reader = NoReader /\ CacheGet(cache, k) = <<>>
    /\ TreeGet(tree, Live, k) # NoValue
    /\ reader' = <<k, TreeGet(tree, Live, k)>>
    /\ UNCHANGED <<heap, tree, cache, copies, content, writes>>

GetFill ==
    /\ reader # NoReader
    /\ cache' = CacheAdd(cache, reader[1], reader[2])
    /\ reader' = NoReader
    /\ UNCHANGED <<heap, tree, copies, content, writes>>

Next ==
    \/ \E k \in Keys : remove(k) \/ GetHit(k) \/ GetMiss(k)
    \/ \E k \in Keys, v \in Values : set(k, v)
    \/ GetFill \/ RootHash \/ Copy \/ Reload
    \/ \E updateHash \in BOOLEAN : SaveVersion(updateHash)

Spec == Init /\ [][Next]_vars
-----------------------------------------------------------------------------
(* Properties. *)

Nodes(t) == Range(PostOrder(StoreOf(t), t.root))

(* what an in-order walk of the subtree finds *)
RECURSIVE Pairs(_, _)
Pairs(m, n) ==
    IF n = NoNode THEN <<>>
    ELSE IF IsLeaf(m, n) THEN <<<<Key(m, n), Value(m, n)>>>>
    ELSE Pairs(m, Left(m, n)) \o Pairs(m, Right(m, n))

(* the hash recomputed from the leaves, no cached hash used *)
RECURSIVE FreshHash(_, _)
FreshHash(m, n) ==
    IF IsLeaf(m, n) THEN LeafHash(NodeVersion(m, n), Key(m, n), Value(m, n))
    ELSE BranchHash(Height(m, n), Size(m, n), NodeVersion(m, n),
                    FreshHash(m, Left(m, n)), FreshHash(m, Right(m, n)))

Trees == {tree} \cup {copies[i].tree : i \in DOMAIN copies}

(* the map as the sequence of its pairs, in key order *)
PairsOf(c) ==
    LET ks == SetToSortSeq({k \in Keys : c[k] # NoValue}, <)
    IN [i \in DOMAIN ks |-> <<ks[i], c[ks[i]]>>]

(* The tree stays an AVL tree whose heights and sizes are exact, and the   *)
(* key of a branch is the smallest key of its right subtree: set and       *)
(* remove, with their rotations and the key removeRecursive passes up.     *)
BalancedSearchTree ==
    \A t \in Trees : LET m == StoreOf(t) IN
        \A n \in Nodes(t) : ~IsLeaf(m, n) =>
            LET l == Left(m, n)
                r == Right(m, n)
            IN /\ Height(m, n) = Max({Height(m, l), Height(m, r)}) + 1
               /\ Size(m, n) = Size(m, l) + Size(m, r)
               /\ calcBalance(m, n) \in -1..1
               /\ Last(Pairs(m, l))[1] < Key(m, n)
               /\ Key(m, n) = Head(Pairs(m, r))[1]

(* All the ways to read the tree (GetWithIndex, GetByIndex) see the map    *)
(* the writes describe, whether its nodes are in memory, in a snapshot     *)
(* file or both.                                                           *)
ReadsMatchWrites ==
    LET pairs == PairsOf(content)
    IN /\ Pairs(Live, tree.root) = pairs
       /\ tree.root # NoNode =>
            /\ \A k \in Keys : Get(Live, tree.root, k) =
                 [value |-> content[k],
                  index |-> Cardinality({j \in Keys : j < k /\ content[j] # NoValue})]
            /\ \A i \in 0..Len(pairs) : GetByIndex(Live, tree.root, i) =
                 IF i < Len(pairs) THEN pairs[i + 1] ELSE NoPair

Bounds == Keys \cup {NoKey}

RECURSIVE Iterate(_, _, _, _)
Iterate(stack, start, end, ascending) ==
    LET next == IteratorNext(Live, stack, start, end, ascending)
    IN IF next.node = NoNode THEN <<>>
       ELSE <<<<Key(Live, next.node), Value(Live, next.node)>>>>
            \o Iterate(next.stack, start, end, ascending)

(* An iterator yields exactly the pairs of [start, end), each once, in     *)
(* order, in both directions and with either end open.                     *)
IteratorsExact ==
    \A start, end \in Bounds, ascending \in BOOLEAN :
        LET found == Iterate(IF tree.root = NoNode THEN <<>> ELSE <<tree.root>>, start, end, ascending)
            inside == SelectSeq(PairsOf(content), LAMBDA p : /\ start <= p[1]
                                                             /\ end = NoKey \/ p[1] < end)
        IN found = IF ascending THEN inside ELSE Reverse(inside)

(* "protect the existing MemNodes from get modified in-place": a copy      *)
(* still holds what the tree held when it was taken, whatever was written  *)
(* to, hashed in or reloaded into the tree since.                          *)
CopiesUnchanged ==
    \A i \in DOMAIN copies :
        LET t == copies[i].tree IN Pairs(StoreOf(t), t.root) = PairsOf(copies[i].content)

(* A cached hash is never stale (VerifyHash), in the tree, in its copies   *)
(* and in the snapshot files: Mutate clears the hash of every node on the  *)
(* path of a write, in place or in the clone.                              *)
HashesFresh ==
    \A t \in Trees : \A n \in Nodes(t) :
        CachedHash(StoreOf(t), n) \in {NoHash, FreshHash(StoreOf(t), n)}

(* A snapshot reads back as the tree it was written from, and both ways to *)
(* export it send a stream from which the importer rebuilds the same       *)
(* files, hashes included: the index arithmetic of PersistedNode, preTrees *)
(* and keyLeaf as computed by writeRecursive and by importer.Add.          *)
SnapshotRoundTrip ==
    LET file == writeSnapshot(Live, tree.root, tree.version).file
        m == [heap |-> <<>>, file |-> file]
        stream == ExportTree(Live, tree.root)
    IN /\ ~Corrupted(file)
       /\ ExportTree(m, RootNode(file)) = stream
       /\ ExportSnapshot(m) = stream
       /\ doImport(tree.version, stream) = [err |-> FALSE, file |-> file]

(* Every key has a proof, of membership or of absence, that verifies       *)
(* against the root hash; getProofFromTree panics when there is none.      *)
ProofsVerify ==
    tree.root # NoNode =>
        LET hash == FreshHash(Live, tree.root)
        IN \A k \in Keys :
            IF content[k] # NoValue
            THEN VerifyMembership(createExistenceProof(Live, tree.root, k), hash, k, content[k])
            ELSE VerifyNonMembership(GetNonMembershipProof(Live, tree.root, k), hash, k)

(* What the value cache answers is what the tree holds: set and remove     *)
(* keep it up to date, and a reload starts a new one.                      *)
CacheCoherent == \A i \in DOMAIN cache : cache[i][2] = content[cache[i][1]]
=============================================================================
