------------------------------- MODULE IavlNode -------------------------------
(***************************************************************************)
(* The nodes of one IAVL tree (memiavl/node.go, mem_node.go,               *)
(* persisted_node.go).  A node is a reference: into the Go heap, where a   *)
(* MemNode may be shared by a tree and its copies and is changed in place, *)
(* or into the two arrays of a snapshot file, which never change.          *)
(*                                                                         *)
(* A store m == [heap |-> sequence of MemNodes, file |-> snapshot file]    *)
(* is all a tree can reach.  An operator that writes returns the store it  *)
(* leaves with its result.  Keys are positive integers, values naturals;   *)
(* sha256 is an injective term, so equal hashes mean equal subtrees.       *)
(***************************************************************************)
EXTENDS Integers, Sequences, SequencesExt, FiniteSetsExt

NoKey == 0        \* nil key
NoValue == -1     \* nil value
NoHash == <<>>    \* nil hash
NoNode == <<"nil", 0>>
Mem(i) == <<"mem", i>>
Leaf(i) == <<"leaf", i>>       \* PersistedNode{isLeaf: true, index: i}
Branch(i) == <<"branch", i>>   \* PersistedNode{isLeaf: false, index: i}

NoFile == [version |-> 0, leaves |-> <<>>, nodes |-> <<>>]

-----------------------------------------------------------------------------
(* Where the parts of a persisted branch are, from its index alone. *)
getStartLeaf(index, size, preTrees) == index + 2 - size + preTrees
getEndLeaf(index, preTrees) == index + preTrees + 1
getLeftBranch(keyLeaf, preTrees) == keyLeaf - preTrees - 2

IsMem(n) == n[1] = "mem"
MemNode(m, n) == m.heap[n[2]]
leafNode(m, n) == m.file.leaves[n[2] + 1]
branchNode(m, n) == m.file.nodes[n[2] + 1]
LeafKey(m, i) == m.file.leaves[i + 1].key

IsLeaf(m, n) == IF IsMem(n) THEN MemNode(m, n).height = 0 ELSE n[1] = "leaf"

Height(m, n) == IF IsMem(n) THEN MemNode(m, n).height
                ELSE IF n[1] = "leaf" THEN 0 ELSE branchNode(m, n).height

Size(m, n) == IF IsMem(n) THEN MemNode(m, n).size
              ELSE IF n[1] = "leaf" THEN 1 ELSE branchNode(m, n).size

NodeVersion(m, n) == IF IsMem(n) THEN MemNode(m, n).version
                     ELSE IF n[1] = "leaf" THEN leafNode(m, n).version ELSE branchNode(m, n).version

(* a persisted branch has no key of its own: it names the leaf that has it *)
Key(m, n) == IF IsMem(n) THEN MemNode(m, n).key
             ELSE IF n[1] = "leaf" THEN leafNode(m, n).key ELSE LeafKey(m, branchNode(m, n).keyLeaf)

Value(m, n) == IF IsMem(n) THEN MemNode(m, n).value
               ELSE IF n[1] = "leaf" THEN leafNode(m, n).value ELSE NoValue

PersistedLeft(m, n) ==
    LET d == branchNode(m, n)
        startLeaf == getStartLeaf(n[2], d.size, d.preTrees)
    IN IF startLeaf + 1 = d.keyLeaf THEN Leaf(startLeaf)
       ELSE Branch(getLeftBranch(d.keyLeaf, d.preTrees))

PersistedRight(m, n) ==
    LET d == branchNode(m, n)
    IN IF d.keyLeaf = getEndLeaf(n[2], d.preTrees) THEN Leaf(d.keyLeaf) ELSE Branch(n[2] - 1)

Left(m, n) == IF IsMem(n) THEN MemNode(m, n).left ELSE PersistedLeft(m, n)
Right(m, n) == IF IsMem(n) THEN MemNode(m, n).right ELSE PersistedRight(m, n)

-----------------------------------------------------------------------------
(* Hashes.  A MemNode computes its hash once and keeps it.                 *)
CachedHash(m, n) == IF IsMem(n) THEN MemNode(m, n).hash
                    ELSE IF n[1] = "leaf" THEN leafNode(m, n).hash ELSE branchNode(m, n).hash

(* writeHashBytes: the key of an inner node is not hashed *)
LeafHash(version, key, value) == <<0, 1, version, key, value>>
BranchHash(height, size, version, left, right) == <<height, size, version, left, right>>

RECURSIVE Hash(_, _)
Hash(m, n) ==
    IF CachedHash(m, n) # NoHash THEN [m |-> m, hash |-> CachedHash(m, n)]
    ELSE LET keep(m1, h) == [m |-> [m1 EXCEPT !.heap[n[2]].hash = h], hash |-> h]
         IN IF IsLeaf(m, n) THEN keep(m, LeafHash(NodeVersion(m, n), Key(m, n), Value(m, n)))
            ELSE LET l == Hash(m, Left(m, n))
                     r == Hash(l.m, Right(m, n))
                 IN keep(r.m, BranchHash(Height(m, n), Size(m, n), NodeVersion(m, n), l.hash, r.hash))

-----------------------------------------------------------------------------
(* Writing nodes. *)
Alloc(m, node) == [m |-> [m EXCEPT !.heap = Append(@, node)], node |-> Mem(Len(m.heap) + 1)]

newLeafNode(key, value, version) ==
    [height |-> 0, size |-> 1, version |-> version, key |-> key, value |-> value,
     left |-> NoNode, right |-> NoNode, hash |-> NoHash]

newBranchNode(key, left, right, version) ==
    [height |-> 1, size |-> 2, version |-> version, key |-> key, value |-> NoValue,
     left |-> left, right |-> right, hash |-> NoHash]

(* the fields of a node, wherever it is, as a MemNode *)
Fields(m, n) ==
    IF IsMem(n) THEN MemNode(m, n)
    ELSE [height |-> Height(m, n), size |-> Size(m, n), version |-> NodeVersion(m, n),
          key |-> Key(m, n), value |-> Value(m, n), hash |-> NoHash,
          left |-> IF n[1] = "leaf" THEN NoNode ELSE PersistedLeft(m, n),
          right |-> IF n[1] = "leaf" THEN NoNode ELSE PersistedRight(m, n)]

BugMutateInPlace(m, n, version, cowVersion) ==
    IF IsMem(n) /\ MemNode(m, n).version >= cowVersion
    THEN [m |-> [m EXCEPT !.heap[n[2]].version = version, !.heap[n[2]].hash = NoHash], node |-> n]
    ELSE Alloc(m, [Fields(m, n) EXCEPT !.version = version, !.hash = NoHash])

BugMutateKeepsHash(m, n, version, cowVersion) ==
    IF IsMem(n) /\ MemNode(m, n).version > cowVersion
    THEN [m |-> [m EXCEPT !.heap[n[2]].version = version], node |-> n]
    ELSE Alloc(m, [Fields(m, n) EXCEPT !.version = version, !.hash = NoHash])

(* in place only what no copy of the tree can reach *)
Mutate(m, n, version, cowVersion) ==
    IF IsMem(n) /\ MemNode(m, n).version > cowVersion
    THEN [m |-> [m EXCEPT !.heap[n[2]].version = version, !.heap[n[2]].hash = NoHash], node |-> n]
    ELSE Alloc(m, [Fields(m, n) EXCEPT !.version = version, !.hash = NoHash])

SetLeft(m, n, child) == [m EXCEPT !.heap[n[2]].left = child]
SetRight(m, n, child) == [m EXCEPT !.heap[n[2]].right = child]

updateHeightSize(m, n) ==
    LET l == Left(m, n)
        r == Right(m, n)
    IN [m EXCEPT !.heap[n[2]].height = Max({Height(m, l), Height(m, r)}) + 1,
                 !.heap[n[2]].size = Size(m, l) + Size(m, r)]

calcBalance(m, n) == Height(m, Left(m, n)) - Height(m, Right(m, n))

rotateRight(m, n, version, cowVersion) ==
    LET left == Left(m, n)
        self == Mutate(m, left, version, cowVersion)
        m1 == SetRight(SetLeft(self.m, n, Right(m, left)), self.node, n)
    IN [m |-> updateHeightSize(updateHeightSize(m1, n), self.node), node |-> self.node]

rotateLeft(m, n, version, cowVersion) ==
    LET right == Right(m, n)
        self == Mutate(m, right, version, cowVersion)
        m1 == SetLeft(SetRight(self.m, n, Left(m, right)), self.node, n)
    IN [m |-> updateHeightSize(updateHeightSize(m1, n), self.node), node |-> self.node]

BugreBalanceOneRotation(m, n, version, cowVersion) ==
    IF calcBalance(m, n) > 1 THEN rotateRight(m, n, version, cowVersion)
    ELSE IF calcBalance(m, n) < -1 THEN rotateLeft(m, n, version, cowVersion)
    ELSE [m |-> m, node |-> n]

reBalance(m, n, version, cowVersion) ==
    LET balance == calcBalance(m, n)
    IN CASE balance > 1 /\ calcBalance(m, Left(m, n)) >= 0 ->
              rotateRight(m, n, version, cowVersion)
         [] balance > 1 /\ calcBalance(m, Left(m, n)) < 0 ->
              LET l == Mutate(m, Left(m, n), version, cowVersion)
                  lr == rotateLeft(l.m, l.node, version, cowVersion)
              IN rotateRight(SetLeft(lr.m, n, lr.node), n, version, cowVersion)
         [] balance < -1 /\ calcBalance(m, Right(m, n)) <= 0 ->
              rotateLeft(m, n, version, cowVersion)
         [] balance < -1 /\ calcBalance(m, Right(m, n)) > 0 ->
              LET r == Mutate(m, Right(m, n), version, cowVersion)
                  rl == rotateRight(r.m, r.node, version, cowVersion)
              IN rotateLeft(SetRight(rl.m, n, rl.node), n, version, cowVersion)
         [] OTHER -> [m |-> m, node |-> n]

-----------------------------------------------------------------------------
(* updated: the key was there, so heights are as before (and the root was  *)
(* nil, which has no parent to rebalance)                                  *)
setLeaf(m, n, key, value, version, cowVersion) ==
    LET new == Alloc(m, newLeafNode(key, value, version))
        branch(k, l, r) == Alloc(new.m, newBranchNode(k, l, r, version)) @@ [updated |-> FALSE]
    IN CASE n = NoNode -> new @@ [updated |-> TRUE]
         [] n # NoNode /\ key < Key(m, n) -> branch(Key(m, n), new.node, n)
         [] n # NoNode /\ key > Key(m, n) -> branch(key, n, new.node)
         [] OTHER -> LET self == Mutate(m, n, version, cowVersion)
                     IN [m |-> [self.m EXCEPT !.heap[self.node[2]].value = value],
                         node |-> self.node, updated |-> TRUE]

RECURSIVE setRecursive(_, _, _, _, _, _)
setRecursive(m, n, key, value, version, cowVersion) ==
    IF n = NoNode \/ IsLeaf(m, n) THEN setLeaf(m, n, key, value, version, cowVersion)
    ELSE LET goLeft == key < Key(m, n)
             child == setRecursive(m, IF goLeft THEN Left(m, n) ELSE Right(m, n),
                                   key, value, version, cowVersion)
             self == Mutate(child.m, n, version, cowVersion)
             m1 == IF goLeft THEN SetLeft(self.m, self.node, child.node)
                             ELSE SetRight(self.m, self.node, child.node)
         IN (IF child.updated THEN [m |-> m1, node |-> self.node]
             ELSE reBalance(updateHeightSize(m1, self.node), self.node, version, cowVersion))
            @@ [updated |-> child.updated]

(* found: the removed value is not nil; newKey: the smallest key of the    *)
(* subtree, when it was removed                                            *)
NotFound(m, n) == [m |-> m, found |-> FALSE, node |-> n, newKey |-> NoKey]

BugSpliceNoNewKey(m, n, child, goLeft) ==
    [m |-> child.m, found |-> TRUE, newKey |-> NoKey,
     node |-> IF goLeft THEN Right(m, n) ELSE Left(m, n)]

(* the removed child was a leaf: its sibling takes the place of the parent *)
Splice(m, n, child, goLeft) ==
    [m |-> child.m, found |-> TRUE,
     node |-> IF goLeft THEN Right(m, n) ELSE Left(m, n),
     newKey |-> IF goLeft THEN Key(m, n) ELSE NoKey]

RECURSIVE removeRecursive(_, _, _, _, _)
removeRecursive(m, n, key, version, cowVersion) ==
    IF n = NoNode THEN NotFound(m, n)
    ELSE IF IsLeaf(m, n)
    THEN IF Key(m, n) = key /\ Value(m, n) # NoValue
         THEN [m |-> m, found |-> TRUE, node |-> NoNode, newKey |-> NoKey]
         ELSE NotFound(m, n)
    ELSE LET goLeft == key < Key(m, n)
             child == removeRecursive(m, IF goLeft THEN Left(m, n) ELSE Right(m, n),
                                      key, version, cowVersion)
         IN IF ~child.found THEN NotFound(m, n)
            ELSE IF child.node = NoNode THEN Splice(m, n, child, goLeft)
            ELSE LET self == Mutate(child.m, n, version, cowVersion)
                     m1 == IF goLeft THEN SetLeft(self.m, self.node, child.node)
                                     ELSE SetRight(self.m, self.node, child.node)
                     m2 == IF ~goLeft /\ child.newKey # NoKey
                           THEN [m1 EXCEPT !.heap[self.node[2]].key = child.newKey] ELSE m1
                     top == reBalance(updateHeightSize(m2, self.node), self.node,
                                      version, cowVersion)
                 IN top @@ [found |-> TRUE, newKey |-> IF goLeft THEN child.newKey ELSE NoKey]

-----------------------------------------------------------------------------
(* Reading.  Get returns the value and the rank of the key.                *)
FirstLeaf(m, n) == IF n[1] = "leaf" THEN n[2]
                   ELSE getStartLeaf(n[2], Size(m, n), branchNode(m, n).preTrees)

LastLeaf(m, n) == IF n[1] = "leaf" THEN n[2]
                  ELSE getEndLeaf(n[2], branchNode(m, n).preTrees)

BugPersistedGetAfter(m, n, key) ==
    LET start == FirstLeaf(m, n)
        i == Min({j \in 0..Size(m, n) : j = Size(m, n) \/ LeafKey(m, start + j) > key})
    IN [index |-> i,
        value |-> IF i < Size(m, n) /\ LeafKey(m, start + i) = key
                  THEN m.file.leaves[start + i + 1].value ELSE NoValue]

(* sort.Search over the leaves of the subtree *)
PersistedGet(m, n, key) ==
    LET start == FirstLeaf(m, n)
        i == Min({j \in 0..Size(m, n) : j = Size(m, n) \/ LeafKey(m, start + j) >= key})
    IN [index |-> i,
        value |-> IF i < Size(m, n) /\ LeafKey(m, start + i) = key
                  THEN m.file.leaves[start + i + 1].value ELSE NoValue]

RECURSIVE Get(_, _, _)
Get(m, n, key) ==
    CASE ~IsMem(n) -> PersistedGet(m, n, key)
      [] IsMem(n) /\ IsLeaf(m, n) ->
           [value |-> IF Key(m, n) = key THEN Value(m, n) ELSE NoValue,
            index |-> IF Key(m, n) < key THEN 1 ELSE 0]
      [] OTHER ->
           IF key < Key(m, n) THEN Get(m, Left(m, n), key)
           ELSE LET r == Get(m, Right(m, n), key)
                IN [r EXCEPT !.index = @ + Size(m, n) - Size(m, Right(m, n))]

NoPair == <<NoKey, NoValue>>

RECURSIVE GetByIndex(_, _, _)
GetByIndex(m, n, index) ==
    IF ~IsMem(n)
    THEN IF FirstLeaf(m, n) + index > LastLeaf(m, n) THEN NoPair
         ELSE LET d == m.file.leaves[FirstLeaf(m, n) + index + 1] IN <<d.key, d.value>>
    ELSE IF IsLeaf(m, n) THEN IF index = 0 THEN <<Key(m, n), Value(m, n)>> ELSE NoPair
    ELSE LET leftSize == Size(m, Left(m, n))
         IN IF index < leftSize THEN GetByIndex(m, Left(m, n), index)
            ELSE GetByIndex(m, Right(m, n), index - leftSize)

BugYieldsEnd(start, end, key) == start <= key /\ (end = NoKey \/ key <= end)

(* a leaf inside the domain [start, end) *)
Yields(start, end, key) == start <= key /\ (end = NoKey \/ key < end)

(* Iterator.Next: pop nodes until a leaf inside the domain *)
RECURSIVE IteratorNext(_, _, _, _, _)
IteratorNext(m, stack, start, end, ascending) ==
    IF stack = <<>> THEN [stack |-> <<>>, node |-> NoNode]
    ELSE LET n == Last(stack)
             rest == Front(stack)
             key == Key(m, n)
             afterStart == start = NoKey \/ start < key
             beforeEnd == end = NoKey \/ key < end
             push(on, c) == IF on THEN <<c>> ELSE <<>>
             left == push(afterStart, Left(m, n))
             right == push(beforeEnd, Right(m, n))
         IN IF IsLeaf(m, n)
            THEN IF Yields(start, end, key)
                 THEN [stack |-> rest, node |-> n]
                 ELSE IteratorNext(m, rest, start, end, ascending)
            ELSE IteratorNext(m, rest \o (IF ascending THEN right \o left ELSE left \o right),
                              start, end, ascending)

(* ScanPostOrder *)
RECURSIVE PostOrder(_, _)
PostOrder(m, n) ==
    IF n = NoNode THEN <<>>
    ELSE IF IsLeaf(m, n) THEN <<n>>
    ELSE PostOrder(m, Left(m, n)) \o PostOrder(m, Right(m, n)) \o <<n>>
=============================================================================
