------------------------------ MODULE MultiTree ------------------------------
(***************************************************************************)
(* memiavl.MultiTree (memiavl/multitree.go): the trees of an application's *)
(* stores, which are versioned, upgraded, snapshotted and replayed         *)
(* together.                                                               *)
(*                                                                         *)
(* A tree is the list of its writes, each with the version it was made     *)
(* for: its root hash is a function of that list, and two trees with the   *)
(* same list have the same hash (IavlTree has the nodes themselves).       *)
(* Store names are integers, in the order of the names.                    *)
(***************************************************************************)
EXTENDS Integers, Sequences, SequencesExt, FiniteSetsExt

nextVersion(v, initialVersion) == IF v = 0 /\ initialVersion > 1 THEN initialVersion ELSE v + 1

WORD == 1073741824      \* bound: 2^30 stands for 2^64, where an unsigned index wraps

walIndex(v, initialVersion) == IF initialVersion > 1 THEN (v - initialVersion + 1) % WORD ELSE v
walVersion(index, initialVersion) == IF initialVersion > 1 THEN index + initialVersion - 1 ELSE index

-----------------------------------------------------------------------------
NewTree(name, version) == [name |-> name, version |-> version, writes |-> <<>>]

BugNewWithInitialVersion(initialVersion) == initialVersion

(* the version of a tree whose first commit will be initialVersion *)
NewWithInitialVersion(initialVersion) == IF initialVersion <= 1 THEN 0 ELSE initialVersion - 1

(* Tree.ApplyChangeSet: the nodes carry the version being built *)
Apply(t, pairs) == [t EXCEPT !.writes = @ \o [i \in DOMAIN pairs |-> <<t.version + 1, pairs[i]>>]]

(* Tree.setInitialVersion: no effect once the tree has a version *)
setTreeVersion(t, initialVersion) ==
    IF t.version > 0 THEN t ELSE [t EXCEPT !.version = NewWithInitialVersion(initialVersion)]

(* Tree.SaveVersion *)
SaveTreeVersion(t) == [t EXCEPT !.version = @ + 1]

RootHash(t) == t.writes

-----------------------------------------------------------------------------
NewEmptyMultiTree(initialVersion) ==
    [initialVersion |-> initialVersion, trees |-> <<>>, info |-> [version |-> 0, stores |-> <<>>]]

Version(mt) == mt.info.version
TreeNames(mt) == {mt.trees[i].name : i \in DOMAIN mt.trees}
IndexOf(mt, name) == SelectInSeq(mt.trees, LAMBDA t : t.name = name)

setInitialVersion(mt, initialVersion) ==
    [mt EXCEPT !.initialVersion = initialVersion,
               !.trees = IF initialVersion > 1
                         THEN [i \in DOMAIN @ |-> setTreeVersion(@[i], initialVersion)] ELSE @]

Failed(mt) == [err |-> TRUE, mt |-> mt]
Done(mt) == [err |-> FALSE, mt |-> mt]

(* the next step of an operation that returns at the first error *)
Then(r, step(_)) == IF r.err THEN r ELSE step(r.mt)

(* one TreeNameUpgrade: [name, delete, renameFrom]; 0 is the empty name *)
ApplyUpgrade(r, u) ==
    LET mt == r.mt
        i == IndexOf(mt, IF u.delete THEN u.name ELSE u.renameFrom)
        new == NewTree(u.name, NewWithInitialVersion(nextVersion(Version(mt), mt.initialVersion)))
    IN CASE r.err -> r
         [] ~r.err /\ ~u.delete /\ u.renameFrom = 0 -> Done([mt EXCEPT !.trees = Append(@, new)])
         [] ~r.err /\ (u.delete \/ u.renameFrom # 0) /\ i = 0 -> Failed(mt)
         [] ~r.err /\ u.delete /\ i # 0 -> Done([mt EXCEPT !.trees = Front([@ EXCEPT ![i] = Last(mt.trees)])])
         [] OTHER -> Done([mt EXCEPT !.trees[i].name = u.name])

(* the names of a finite set in their order *)
Ascending(S) == CHOOSE s \in [1 .. Cardinality(S) -> S] : \A i, j \in DOMAIN s : i < j => s[i] < s[j]

(* the trees sorted by name; two trees of one name are an error *)
sortTrees(mt) ==
    LET names == Ascending(TreeNames(mt))
    IN IF Cardinality(TreeNames(mt)) < Len(mt.trees) THEN Failed(mt)
       ELSE Done([mt EXCEPT !.trees = [i \in DOMAIN @ |-> @[IndexOf(mt, names[i])]]])

ApplyUpgrades(mt, upgrades) ==
    IF upgrades = <<>> THEN Done(mt)
    ELSE Then(FoldLeft(ApplyUpgrade, Done(mt), upgrades), sortTrees)

ApplyChangeSet(r, cs) ==
    Then(r, LAMBDA mt : LET i == IndexOf(mt, cs.name)
                        IN IF i = 0 THEN Failed(mt) ELSE Done([mt EXCEPT !.trees[i] = Apply(@, cs.pairs)]))

ApplyChangeSets(mt, changeSets) == FoldLeft(ApplyChangeSet, Done(mt), changeSets)

applyWALEntry(mt, entry) ==
    Then(ApplyUpgrades(mt, entry.upgrades), LAMBDA upgraded : ApplyChangeSets(upgraded, entry.changesets))

buildCommitInfo(mt, version) ==
    [version |-> version,
     stores |-> [i \in DOMAIN mt.trees |-> [name |-> mt.trees[i].name, version |-> mt.trees[i].version,
                                            hash |-> RootHash(mt.trees[i])]]]

WorkingCommitInfo(mt) == buildCommitInfo(mt, nextVersion(Version(mt), mt.initialVersion))

SaveVersion(mt, updateCommitInfo) ==
    LET next == [mt EXCEPT !.info.version = nextVersion(@, mt.initialVersion),
                           !.trees = [i \in DOMAIN @ |-> SaveTreeVersion(@[i])]]
    IN [next EXCEPT !.info = IF updateCommitInfo THEN buildCommitInfo(next, @.version)
                             ELSE [@ EXCEPT !.stores = <<>>]]

replayEntry(r, entry) ==
    Then(r, LAMBDA mt : Then(applyWALEntry(mt, entry), LAMBDA applied : Done(SaveVersion(applied, FALSE))))

BugcatchupWAL(mt, log, endVersion) ==
    LET firstIndex == walIndex(nextVersion(Version(mt), mt.initialVersion), mt.initialVersion)
        endIndex == IF endVersion = 0 THEN Len(log) ELSE walIndex(endVersion, mt.initialVersion)
    IN IF firstIndex > Len(log) THEN Done(mt)
       ELSE IF endIndex < firstIndex THEN Failed(mt)
       ELSE FoldLeft(replayEntry, Done(mt), SubSeq(log, firstIndex, Min({endIndex, Len(log)})))

(* replay the log to endVersion, 0 for its end *)
catchupWAL(mt, log, endVersion) ==
    LET firstIndex == walIndex(nextVersion(Version(mt), mt.initialVersion), mt.initialVersion)
        endIndex == IF endVersion = 0 THEN Len(log) ELSE walIndex(endVersion, mt.initialVersion)
    IN IF firstIndex > Len(log) THEN Done(mt)
       ELSE IF endIndex < firstIndex THEN Failed(mt)
       ELSE Then(FoldLeft(replayEntry, Done(mt), SubSeq(log, firstIndex, Min({endIndex, Len(log)}))),
                 LAMBDA m : Done([m EXCEPT !.info = buildCommitInfo(m, @.version)]))

-----------------------------------------------------------------------------
(* A snapshot: the trees, and the metadata file. *)
WriteSnapshot(mt) == [trees |-> mt.trees, info |-> mt.info, initialVersion |-> mt.initialVersion]

(* commitInfoEqual: the metadata must describe the trees that were loaded *)
LoadMultiTree(snapshot) ==
    LET mt == setInitialVersion([NewEmptyMultiTree(0) EXCEPT !.trees = snapshot.trees,
                                                              !.info = snapshot.info],
                                snapshot.initialVersion)
        actualVersion == IF mt.trees = <<>> THEN snapshot.info.version ELSE mt.trees[1].version
    IN IF buildCommitInfo(mt, actualVersion) = snapshot.info THEN Done(mt) ELSE Failed(mt)

(* MultiTreeImporter: the trees of a peer, at height; the log will start   *)
(* with the next version                                                   *)
Import(trees, height) ==
    LET at == [i \in DOMAIN trees |-> [trees[i] EXCEPT !.version = height]]
        mt == [NewEmptyMultiTree(height + 1) EXCEPT !.trees = at]
    IN WriteSnapshot([mt EXCEPT !.info = buildCommitInfo(mt, height)])
=============================================================================
