----------------------------- MODULE IavlSnapshot -----------------------------
(***************************************************************************)
(* The snapshot files of one tree (memiavl/snapshot.go) and the stream of  *)
(* nodes a state-sync snapshot sends (export.go, import.go).               *)
(*                                                                         *)
(* The leaves file is an array of leaves, the nodes file an array of       *)
(* branches, both in post-order.  A branch has no pointers: its children   *)
(* follow from its index, its size, the number of trees pending before it  *)
(* (preTrees) and the index of the leaf that has its key (keyLeaf).  Key   *)
(* and value bytes, kept in a third file, are fields of the leaf here.     *)
(***************************************************************************)
EXTENDS IavlNode

uint8(x) == x % 256

(* snapshotWriter: its counters are the lengths of what it wrote *)
NewWriter == [leaves |-> <<>>, nodes |-> <<>>]

writeLeaf(w, version, key, value, hash) ==
    [w EXCEPT !.leaves = Append(@, [version |-> version, key |-> key, value |-> value, hash |-> hash])]

writeBranch(w, version, size, height, preTrees, keyLeaf, hash) ==
    [w EXCEPT !.nodes = Append(@, [height |-> height, preTrees |-> preTrees, version |-> version,
                                   size |-> size, keyLeaf |-> keyLeaf, hash |-> hash])]

(* writeRecursive; node.Hash() fills the hash of a node that has none *)
RECURSIVE writeRecursive(_, _, _)
writeRecursive(m, n, w) ==
    IF IsLeaf(m, n)
    THEN LET h == Hash(m, n)
         IN [m |-> h.m, w |-> writeLeaf(w, NodeVersion(m, n), Key(m, n), Value(m, n), h.hash)]
    ELSE LET preTrees == uint8(Len(w.leaves) - Len(w.nodes))
             l == writeRecursive(m, Left(m, n), w)
             keyLeaf == Len(l.w.leaves)
             r == writeRecursive(l.m, Right(m, n), l.w)
             h == Hash(r.m, n)
         IN [m |-> h.m, w |-> writeBranch(r.w, NodeVersion(m, n), Size(m, n), Height(m, n),
                                          preTrees, keyLeaf, h.hash)]

SnapshotFile(version, w) == [version |-> version, leaves |-> w.leaves, nodes |-> w.nodes]

(* Tree.WriteSnapshotWithContext *)
writeSnapshot(m, root, version) ==
    LET r == IF root = NoNode THEN [m |-> m, w |-> NewWriter] ELSE writeRecursive(m, root, NewWriter)
    IN [m |-> r.m, file |-> SnapshotFile(version, r.w)]

(* OpenSnapshot: the sizes of the two arrays must fit, then the last       *)
(* branch is the root                                                      *)
Corrupted(f) == \/ f.leaves # <<>> /\ Len(f.nodes) + 1 # Len(f.leaves)
                \/ f.leaves = <<>> /\ f.nodes # <<>>

RootNode(f) == IF f.nodes # <<>> THEN Branch(Len(f.nodes) - 1)
               ELSE IF f.leaves # <<>> THEN Leaf(0) ELSE NoNode

-----------------------------------------------------------------------------
(* Export: from any tree in post-order, or straight through the arrays     *)
(* when the tree is the snapshot.                                          *)
ExportNode(m, n) == [key |-> Key(m, n), value |-> Value(m, n),
                     version |-> NodeVersion(m, n), height |-> Height(m, n)]

ExportTree(m, root) ==
    LET order == PostOrder(m, root) IN [i \in DOMAIN order |-> ExportNode(m, order[i])]

BugExportSnapshotPending(m) ==
    LET pending(i) == m.file.nodes[i].preTrees + 1
        step(acc, i) ==
            LET more == Max({0, pending(i) - acc.pending})
                leaves == [k \in 1..more |-> ExportNode(m, Leaf(acc.next + k - 1))]
            IN [out |-> acc.out \o leaves \o <<ExportNode(m, Branch(i - 1))>>,
                next |-> acc.next + more, pending |-> acc.pending + more - 1]
    IN IF Len(m.file.leaves) = 1 THEN <<ExportNode(m, Leaf(0))>>
       ELSE FoldLeft(step, [out |-> <<>>, next |-> 0, pending |-> 0],
                     [i \in DOMAIN m.file.nodes |-> i]).out

(* Snapshot.export: before a branch, leaves until its two subtrees are there *)
ExportSnapshot(m) ==
    LET pending(i) == m.file.nodes[i].preTrees + 2
        step(acc, i) ==
            LET more == Max({0, pending(i) - acc.pending})
                leaves == [k \in 1..more |-> ExportNode(m, Leaf(acc.next + k - 1))]
            IN [out |-> acc.out \o leaves \o <<ExportNode(m, Branch(i - 1))>>,
                next |-> acc.next + more, pending |-> acc.pending + more - 1]
    IN IF Len(m.file.leaves) = 1 THEN <<ExportNode(m, Leaf(0))>>
       ELSE FoldLeft(step, [out |-> <<>>, next |-> 0, pending |-> 0],
                     [i \in DOMAIN m.file.nodes |-> i]).out

-----------------------------------------------------------------------------
(* Import: a stack of the subtrees read so far, and of the number of       *)
(* leaves written when each was complete.                                  *)
NewImporter == [w |-> NewWriter, leavesStack |-> <<>>, nodeStack |-> <<>>, err |-> FALSE]

ImportLeaf(i, n) ==
    LET hash == LeafHash(n.version, n.key, n.value)
        w == writeLeaf(i.w, n.version, n.key, n.value, hash)
    IN [i EXCEPT !.w = w,
                 !.leavesStack = Append(@, Len(w.leaves)),
                 !.nodeStack = Append(@, [size |-> 1, hash |-> hash])]

ImportBranch(i, n) ==
    LET k == Len(i.nodeStack)
        left == i.nodeStack[k - 1]
        right == i.nodeStack[k]
        size == left.size + right.size
        hash == BranchHash(uint8(n.height), size, n.version, left.hash, right.hash)
    IN [i EXCEPT !.w = writeBranch(@, n.version, size, uint8(n.height), uint8(k - 2),
                                   i.leavesStack[k - 1], hash),
                 !.leavesStack = Append(SubSeq(@, 1, k - 2), Len(i.w.leaves)),
                 !.nodeStack = Append(SubSeq(@, 1, k - 2), [size |-> size, hash |-> hash])]

(* importer.Add *)
ImporterAdd(i, n) ==
    IF i.err THEN i
    ELSE IF n.height = 0 THEN ImportLeaf(i, n)
    ELSE IF Len(i.nodeStack) < 2 THEN [i EXCEPT !.err = TRUE]
    ELSE ImportBranch(i, n)

(* doImport: more than one subtree left over is an error *)
doImport(version, nodes) ==
    LET i == FoldLeft(ImporterAdd, NewImporter, nodes)
    IN [err |-> i.err \/ Len(i.leavesStack) > 1, file |-> SnapshotFile(version, i.w)]
=============================================================================
