------------------------------ MODULE IavlProof ------------------------------
(***************************************************************************)
(* Merkle proofs of one tree (memiavl/proof.go).  An existence proof is a  *)
(* leaf and, from the leaf up, what the verifier must hash around it; the  *)
(* verifier is ics23, which sees only the proof and a root hash.           *)
(***************************************************************************)
EXTENDS IavlNode

NoProof == [key |-> NoKey]

(* from the root down to the leaf of key; the sibling's hash is kept on the *)
(* side the search does not take                                            *)
RECURSIVE pathToLeaf(_, _, _)
pathToLeaf(m, n, key) ==
    IF IsLeaf(m, n) THEN [path |-> <<>>, node |-> n, found |-> Key(m, n) = key]
    ELSE LET goLeft == key < Key(m, n)
             step == [height |-> Height(m, n), size |-> Size(m, n), version |-> NodeVersion(m, n),
                      left |-> IF goLeft THEN NoHash ELSE Hash(m, Left(m, n)).hash,
                      right |-> IF goLeft THEN Hash(m, Right(m, n)).hash ELSE NoHash]
             rest == pathToLeaf(m, IF goLeft THEN Left(m, n) ELSE Right(m, n), key)
         IN [rest EXCEPT !.path = <<step>> \o @]

(* convertInnerOps turns the path around *)
createExistenceProof(m, root, key) ==
    LET p == pathToLeaf(m, root, key)
    IN IF ~p.found THEN NoProof
       ELSE [key |-> Key(m, p.node), value |-> Value(m, p.node),
             version |-> NodeVersion(m, p.node), path |-> Reverse(p.path)]

(* GetNonMembershipProof of a key that has no value: the two neighbours *)
BugGetNonMembershipProof(m, root, key) ==
    LET index == Get(m, root, key).index
        neighbour(i) == LET k == GetByIndex(m, root, i)[1]
                        IN IF k = NoKey THEN NoProof ELSE createExistenceProof(m, root, k)
    IN [left |-> IF index > 1 THEN neighbour(index - 1) ELSE NoProof,
        right |-> neighbour(index)]

GetNonMembershipProof(m, root, key) ==
    LET index == Get(m, root, key).index
        neighbour(i) == LET k == GetByIndex(m, root, i)[1]
                        IN IF k = NoKey THEN NoProof ELSE createExistenceProof(m, root, k)
    IN [left |-> IF index >= 1 THEN neighbour(index - 1) ELSE NoProof,
        right |-> neighbour(index)]

-----------------------------------------------------------------------------
(* ics23 (external) *)
ProofRoot(p) ==
    LET up(hash, op) == BranchHash(op.height, op.size, op.version,
                                   IF op.left = NoHash THEN hash ELSE op.left,
                                   IF op.left = NoHash THEN op.right ELSE hash)
    IN FoldLeft(up, LeafHash(p.version, p.key, p.value), p.path)

VerifyMembership(p, rootHash, key, value) ==
    p # NoProof /\ p.key = key /\ p.value = value /\ ProofRoot(p) = rootHash

(* the path, from the root, of a child that is always the first / the last *)
AllLeft(path) == \A i \in DOMAIN path : path[i].left = NoHash
AllRight(path) == \A i \in DOMAIN path : path[i].left # NoHash

(* no leaf fits between the two: the paths part once, and then hug the gap *)
IsNeighbor(l, r) ==
    LET a == Reverse(l.path)
        b == Reverse(r.path)
    IN \E i \in DOMAIN a \cap DOMAIN b :
        /\ SubSeq(a, 1, i - 1) = SubSeq(b, 1, i - 1)
        /\ a[i].left = NoHash /\ b[i].left # NoHash
        /\ AllRight(SubSeq(a, i + 1, Len(a))) /\ AllLeft(SubSeq(b, i + 1, Len(b)))

VerifyNonMembership(p, rootHash, key) ==
    /\ p.left # NoProof \/ p.right # NoProof
    /\ p.left # NoProof => p.left.key < key /\ ProofRoot(p.left) = rootHash
    /\ p.right # NoProof => key < p.right.key /\ ProofRoot(p.right) = rootHash
    /\ CASE p.left = NoProof -> AllLeft(p.right.path)
         [] p.right = NoProof -> AllRight(p.left.path)
         [] OTHER -> IsNeighbor(p.left, p.right)
=============================================================================
