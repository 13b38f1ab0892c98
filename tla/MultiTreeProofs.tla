-------------------------- MODULE MultiTreeProofs ---------------------------
(***************************************************************************)
(* Facts about the operators of MultiTree, for every number of stores,     *)
(* trees and upgrades: folds round by round, the sorted list of the names, *)
(* and upgrades, which keep the trees in step with their version and see   *)
(* that version only in the trees they add.                                *)
(***************************************************************************)
EXTENDS MultiTree, FiniteSetTheorems, SequenceTheorems, TLAPS

Trees == [name : Nat \ {0}, version : Nat, writes : Seq(Nat \X Nat)]

StoreInfos == [name : Nat \ {0}, version : Nat, hash : Seq(Nat \X Nat)]

CommitInfos == [version : Nat, stores : Seq(StoreInfos)]

MultiTrees == [initialVersion : Nat, trees : Seq(Trees), info : CommitInfos]

Results == [err : BOOLEAN, mt : MultiTrees]

TreeNameUpgrades == [name : Nat \ {0}, delete : BOOLEAN, renameFrom : Nat]

NamedChangeSets == [name : Nat \ {0}, pairs : Seq(Nat)]

WALEntries == [upgrades : Seq(TreeNameUpgrades), changesets : Seq(NamedChangeSets)]

(* every tree is one below the version that is built next *)
InStep(mt) == \A i \in DOMAIN mt.trees : mt.trees[i].version + 1 = nextVersion(Version(mt), mt.initialVersion)

UniqueNames(mt) == \A i, j \in DOMAIN mt.trees : mt.trees[i].name = mt.trees[j].name => i = j

-----------------------------------------------------------------------------
(* Facts about numbers, and induction over them. *)

(* A set of numbers has a least one. *)
LEMMA LeastNat ==
    ASSUME NEW S \in SUBSET Nat, S # {}
    PROVE  Min(S) \in S /\ \A x \in S : Min(S) <= x
<1>1. PICK m \in S : \A y \in S : ~(<<y, m>> \in OpToRel(<, Nat))
  BY WFMin, NatLessThanWellFounded, Zenon
<1>2. ASSUME NEW y \in S PROVE m <= y
  <2>1. ~(y < m)
    BY <1>1, Zenon DEF OpToRel
  <2>. QED  BY <2>1
<1>. QED  BY <1>2, Zenon DEF Min

(* Induction: a set of naturals up to n that has 0 and the successor of    *)
(* each of its members has all of them.                                    *)
LEMMA InductionUpTo ==
    ASSUME NEW n \in Nat, NEW S, 0 \in S, \A k \in 1..n : k - 1 \in S => k \in S
    PROVE  0..n \subseteq S
<1>. DEFINE B == {k \in 0..n : k \notin S}
            m == Min(B)
<1>. SUFFICES ASSUME B # {} PROVE FALSE
  OBVIOUS
<1>1. m \in B /\ \A x \in B : m <= x
  BY LeastNat
<1>. HIDE DEF m
<1>2. m # 0 /\ m \in 1..n
  BY <1>1
<1>3. m - 1 \in S
  BY <1>1, <1>2
<1>. QED  BY <1>1, <1>2, <1>3

(* A bounded set of numbers has a greatest one. *)
LEMMA GreatestNat ==
    ASSUME NEW S \in SUBSET Nat, S # {}, NEW n \in Nat, \A x \in S : x <= n
    PROVE  Max(S) \in S /\ \A x \in S : x <= Max(S)
<1>. DEFINE B == {b \in Nat : \A x \in S : x <= b}
            m == Min(B)
<1>1. m \in B /\ \A b \in B : m <= b
  BY LeastNat, Zenon
<1>. HIDE DEF m
<1>2. m \in S
  <2>. SUFFICES ASSUME m \notin S PROVE FALSE
    OBVIOUS
  <2>1. \A x \in S : x <= m - 1
    BY <1>1
  <2>2. m - 1 \in Nat
    <3>1. PICK x \in S : TRUE
      BY Zenon
    <3>. QED  BY <2>1, <3>1, <1>1
  <2>3. m - 1 \in B
    BY <2>1, <2>2
  <2>. QED  BY <2>2, <2>3, <1>1
<1>3. \A x \in S : m >= x
  BY <1>1
<1>. QED  BY <1>2, <1>3, Zenon DEF Max

(* The greatest of the first n numbers. *)
LEMMA MaxOfInterval ==
    ASSUME NEW n \in Nat \ {0}
    PROVE  Max(1..n) = n /\ (1..n) \ {n} = 1..(n-1)
<1>1. 1..n \in SUBSET Nat /\ 1..n # {} /\ \A x \in 1..n : x <= n
  OBVIOUS
<1>2. Max(1..n) \in 1..n /\ \A x \in 1..n : x <= Max(1..n)
  BY <1>1, GreatestNat, Zenon
<1>. QED  BY <1>2

(* A loop of n rounds as FoldLeft defines it: g[s] is the result of the    *)
(* rounds in s, of which the last is made last.                            *)
IsLoop(g, n, base, step) ==
    \A s \in SUBSET (1..n) : g[s] = IF s = {} THEN base ELSE step[Max(s)][g[s \ {Max(s)}]]

(* f goes on like the loop from results in S *)
Follows(f, n, base, step, S) ==
    /\ f[{}] = base
    /\ \A s \in SUBSET (1..n) :
         s # {} /\ f[s \ {Max(s)}] \in S => f[s] = step[Max(s)][f[s \ {Max(s)}]]

(* its results after each round *)
AreRounds(run, n, base, step, result) ==
    run[0] = base /\ (\A k \in 1..n : run[k] = step[k][run[k - 1]]) /\ run[n] = result

(* A loop whose body maps S to S exists. *)
LEMMA LoopExists ==
    ASSUME NEW S, NEW base \in S, NEW n \in Nat, NEW step \in [1..n -> [S -> S]]
    PROVE  \E g \in [SUBSET (1..n) -> S] : IsLoop(g, n, base, step)
<1>. DEFINE Run(k, g) == /\ g \in [SUBSET (1..k) -> S]
                         /\ \A s \in SUBSET (1..k) :
                              g[s] = IF s = {} THEN base ELSE step[Max(s)][g[s \ {Max(s)}]]
            P == {k \in 0..n : \E g : Run(k, g)}
<1>1. 0 \in P
  <2>. DEFINE g == [s \in SUBSET (1..0) |-> base]
  <2>1. Run(0, g)
    OBVIOUS
  <2>2. 0 \in 0..n
    OBVIOUS
  <2>. QED  BY <2>1, <2>2, Zenon
<1>2. ASSUME NEW k \in 1..n, k - 1 \in P PROVE k \in P
  <2>1. PICK f : Run(k - 1, f)
    BY <1>2, Zenon
  <2>. DEFINE g == [s \in SUBSET (1..k) |-> IF k \in s THEN step[k][f[s \ {k}]] ELSE f[s]]
  <2>2. \A s \in SUBSET (1..k) : s \ {k} \in SUBSET (1..(k-1))
    OBVIOUS
  <2>3. g \in [SUBSET (1..k) -> S]
    <3>. SUFFICES ASSUME NEW s \in SUBSET (1..k) PROVE g[s] \in S
      BY Zenon
    <3>1. f[s \ {k}] \in S
      BY <2>1, <2>2
    <3>2. k \notin s => s = s \ {k}
      OBVIOUS
    <3>. QED  BY <3>1, <3>2, Zenon
  <2>4. ASSUME NEW s \in SUBSET (1..k)
        PROVE  g[s] = IF s = {} THEN base ELSE step[Max(s)][g[s \ {Max(s)}]]
    <3>1. CASE k \in s
      <4>1. s \in SUBSET Nat /\ s # {} /\ k \in Nat /\ \A x \in s : x <= k
        BY <3>1
      <4>2. Max(s) = k
        <5>1. Max(s) \in s /\ \A x \in s : x <= Max(s)
          BY <4>1, GreatestNat, Zenon
        <5>2. Max(s) \in Nat /\ Max(s) <= k /\ k <= Max(s)
          BY <5>1, <4>1, <3>1, Zenon
        <5>. QED  BY <5>2
      <4>3. g[s \ {k}] = f[s \ {k}]
        BY <2>2
      <4>. QED  BY <3>1, <4>2, <4>3, <4>1
    <3>2. CASE k \notin s
      <4>1. s \in SUBSET (1..(k-1))
        BY <3>2
      <4>2. g[s] = f[s]
        BY <3>2
      <4>3. CASE s = {}
        BY <4>1, <4>2, <4>3, <2>1, Zenon
      <4>4. CASE s # {}
        <5>1. s \ {Max(s)} \in SUBSET (1..k) /\ k \notin s \ {Max(s)}
          BY <3>2, Zenon
        <5>2. g[s \ {Max(s)}] = f[s \ {Max(s)}]
          BY <5>1
        <5>3. f[s] = step[Max(s)][f[s \ {Max(s)}]]
          BY <2>1, <4>1, <4>4, Zenon
        <5>. QED  BY <4>2, <4>4, <5>2, <5>3, Zenon
      <4>. QED  BY <4>3, <4>4
    <3>. QED  BY <3>1, <3>2
  <2>5. Run(k, g)
    BY <2>3, <2>4, Zenon
  <2>6. k \in 0..n
    OBVIOUS
  <2>. QED  BY <2>5, <2>6, Zenon
<1>3. 0..n \subseteq P
  <2>. HIDE DEF P
  <2>. QED  BY <1>1, <1>2, InductionUpTo, Zenon
<1>4. n \in P
  <2>. HIDE DEF P
  <2>. QED  BY <1>3
<1>. QED  BY <1>4, Zenon DEF IsLoop

(* The results of such a loop after each round. *)
LEMMA LoopRounds ==
    ASSUME NEW S, NEW base \in S, NEW n \in Nat, NEW step \in [1..n -> [S -> S]], NEW f,
           Follows(f, n, base, step, S)
    PROVE  \E run \in [0..n -> S] : AreRounds(run, n, base, step, f[1..n])
<1>. DEFINE P == {k \in 0..n : f[1..k] \in S}
<1>1. 1..0 = {} /\ f[1..0] = base
  BY DEF Follows
<1>2. ASSUME NEW k \in 1..n, f[1..(k-1)] \in S PROVE f[1..k] = step[k][f[1..(k-1)]]
  <2>1. 1..k \in SUBSET (1..n) /\ 1..k # {}
    OBVIOUS
  <2>2. Max(1..k) = k /\ (1..k) \ {k} = 1..(k-1)
    BY MaxOfInterval
  <2>. QED  BY <1>2, <2>1, <2>2, Zenon DEF Follows
<1>3. 0 \in P
  BY <1>1
<1>4. ASSUME NEW k \in 1..n, k - 1 \in P PROVE k \in P
  <2>1. f[1..k] \in S
    BY <1>2, <1>4
  <2>. QED  BY <2>1
<1>5. 0..n \subseteq P
  <2>. HIDE DEF P
  <2>. QED  BY <1>3, <1>4, InductionUpTo, Zenon
<1>. DEFINE run == [k \in 0..n |-> f[1..k]]
<1>6. run \in [0..n -> S]
  BY <1>5
<1>7. run[0] = base /\ run[n] = f[1..n]
  BY <1>1
<1>8. \A k \in 1..n : run[k] = step[k][run[k - 1]]
  BY <1>2, <1>5
<1>. QED  BY <1>6, <1>7, <1>8, Zenon DEF AreRounds

(* the loops of ApplyUpgrades and catchupWAL on their own *)
upgradeAll(mt, upgrades) == FoldLeft(ApplyUpgrade, Done(mt), upgrades)

replayAll(mt, log) == FoldLeft(replayEntry, Done(mt), log)

(* The rounds of ApplyChangeSets, of ApplyUpgrades and of a replay, which  *)
(* stay in any set S that each round stays in.                             *)
LEMMA ChangeSetLoop ==
    ASSUME NEW S, NEW mt, Done(mt) \in S, NEW T, NEW css \in Seq(T),
           \A r \in S, k \in 1..Len(css) : ApplyChangeSet(r, css[k]) \in S
    PROVE  \E run \in [0..Len(css) -> S] :
               /\ run[0] = Done(mt)
               /\ \A k \in 1..Len(css) : run[k] = ApplyChangeSet(run[k - 1], css[k])
               /\ ApplyChangeSets(mt, css) = run[Len(css)]
<1>. DEFINE n == Len(css)
            base == Done(mt)
            step == [k \in 1..n |-> [r \in S |-> ApplyChangeSet(r, css[k])]]
            Eq(f) == f = [s \in SUBSET (1..n) |-> IF s = {} THEN base
                                                  ELSE ApplyChangeSet(f[s \ {Max(s)}], css[Max(s)])]
            fold == CHOOSE f : Eq(f)
<1>1. n \in Nat /\ DOMAIN css = 1..n
  OBVIOUS
<1>2. step \in [1..n -> [S -> S]]
  OBVIOUS
<1>3. ApplyChangeSets(mt, css) = fold[1..n]
  BY <1>1, Zenon DEF ApplyChangeSets, FoldLeft, MapThenFoldSet
<1>4. \A s \in SUBSET (1..n) : s # {} => Max(s) \in 1..n /\ s \ {Max(s)} \in SUBSET (1..n)
  <2>. SUFFICES ASSUME NEW s \in SUBSET (1..n), s # {} PROVE Max(s) \in s
    BY Zenon
  <2>1. s \in SUBSET Nat /\ \A x \in s : x <= n
    OBVIOUS
  <2>. QED  BY <2>1, <1>1, GreatestNat, Zenon
<1>. HIDE DEF n, base
<1>5. \E f : Eq(f)
  <2>1. PICK g \in [SUBSET (1..n) -> S] : IsLoop(g, n, base, step)
    <3>. HIDE DEF step
    <3>1. base \in S
      BY DEF base
    <3>. QED  BY <3>1, <1>1, <1>2, LoopExists, Zenon
  <2>2. \A s \in SUBSET (1..n) : s # {} => step[Max(s)][g[s \ {Max(s)}]]
                                              = ApplyChangeSet(g[s \ {Max(s)}], css[Max(s)])
    BY <1>4, <2>1
  <2>3. Eq(g)
    BY <2>1, <2>2, Zenon DEF IsLoop
  <2>. QED  BY <2>3, Zenon
<1>6. Eq(fold)
  BY <1>5, Zenon
<1>. HIDE DEF fold
<1>7. fold[{}] = base
  BY <1>6
<1>8. Follows(fold, n, base, step, S)
  BY <1>4, <1>6, <1>7, Zenon DEF Follows
<1>9. PICK run \in [0..n -> S] : AreRounds(run, n, base, step, fold[1..n])
  <2>. HIDE DEF step
  <2>1. base \in S
    BY DEF base
  <2>. QED  BY <2>1, <1>1, <1>2, <1>8, LoopRounds, Zenon
<1>10. ASSUME NEW k \in 1..n PROVE run[k] = ApplyChangeSet(run[k - 1], css[k])
  <2>1. run[k - 1] \in S
    BY <1>9, <1>1
  <2>. QED  BY <1>9, <2>1, Zenon DEF AreRounds
<1>. QED  BY <1>3, <1>9, <1>10 DEF n, base, AreRounds

(* The loop of ApplyUpgrades, round by round. *)
LEMMA UpgradeLoop ==
    ASSUME NEW S, NEW mt, Done(mt) \in S, NEW T, NEW upgrades \in Seq(T),
           \A r \in S, k \in 1..Len(upgrades) : ApplyUpgrade(r, upgrades[k]) \in S
    PROVE  \E run \in [0..Len(upgrades) -> S] :
               /\ run[0] = Done(mt)
               /\ \A k \in 1..Len(upgrades) : run[k] = ApplyUpgrade(run[k - 1], upgrades[k])
               /\ upgradeAll(mt, upgrades) = run[Len(upgrades)]
<1>. DEFINE n == Len(upgrades)
            base == Done(mt)
            step == [k \in 1..n |-> [r \in S |-> ApplyUpgrade(r, upgrades[k])]]
            Eq(f) == f = [s \in SUBSET (1..n) |-> IF s = {} THEN base
                                                  ELSE ApplyUpgrade(f[s \ {Max(s)}], upgrades[Max(s)])]
            fold == CHOOSE f : Eq(f)
<1>1. n \in Nat /\ DOMAIN upgrades = 1..n
  OBVIOUS
<1>2. step \in [1..n -> [S -> S]]
  OBVIOUS
<1>3. upgradeAll(mt, upgrades) = fold[1..n]
  BY <1>1, Zenon DEF upgradeAll, FoldLeft, MapThenFoldSet
<1>4. \A s \in SUBSET (1..n) : s # {} => Max(s) \in 1..n /\ s \ {Max(s)} \in SUBSET (1..n)
  <2>. SUFFICES ASSUME NEW s \in SUBSET (1..n), s # {} PROVE Max(s) \in s
    BY Zenon
  <2>1. s \in SUBSET Nat /\ \A x \in s : x <= n
    OBVIOUS
  <2>. QED  BY <2>1, <1>1, GreatestNat, Zenon
<1>. HIDE DEF n, base
<1>5. \E f : Eq(f)
  <2>1. PICK g \in [SUBSET (1..n) -> S] : IsLoop(g, n, base, step)
    <3>. HIDE DEF step
    <3>1. base \in S
      BY DEF base
    <3>. QED  BY <3>1, <1>1, <1>2, LoopExists, Zenon
  <2>2. \A s \in SUBSET (1..n) : s # {} => step[Max(s)][g[s \ {Max(s)}]]
                                              = ApplyUpgrade(g[s \ {Max(s)}], upgrades[Max(s)])
    BY <1>4, <2>1
  <2>3. Eq(g)
    BY <2>1, <2>2, Zenon DEF IsLoop
  <2>. QED  BY <2>3, Zenon
<1>6. Eq(fold)
  BY <1>5, Zenon
<1>. HIDE DEF fold
<1>7. fold[{}] = base
  BY <1>6
<1>8. Follows(fold, n, base, step, S)
  BY <1>4, <1>6, <1>7, Zenon DEF Follows
<1>9. PICK run \in [0..n -> S] : AreRounds(run, n, base, step, fold[1..n])
  <2>. HIDE DEF step
  <2>1. base \in S
    BY DEF base
  <2>. QED  BY <2>1, <1>1, <1>2, <1>8, LoopRounds, Zenon
<1>10. ASSUME NEW k \in 1..n PROVE run[k] = ApplyUpgrade(run[k - 1], upgrades[k])
  <2>1. run[k - 1] \in S
    BY <1>9, <1>1
  <2>. QED  BY <1>9, <2>1, Zenon DEF AreRounds
<1>. QED  BY <1>3, <1>9, <1>10 DEF n, base, AreRounds

(* The loop of catchupWAL, round by round. *)
LEMMA ReplayLoop ==
    ASSUME NEW S, NEW mt, Done(mt) \in S, NEW T, NEW log \in Seq(T),
           \A r \in S, k \in 1..Len(log) : replayEntry(r, log[k]) \in S
    PROVE  \E run \in [0..Len(log) -> S] :
               /\ run[0] = Done(mt)
               /\ \A k \in 1..Len(log) : run[k] = replayEntry(run[k - 1], log[k])
               /\ replayAll(mt, log) = run[Len(log)]
<1>. DEFINE n == Len(log)
            base == Done(mt)
            step == [k \in 1..n |-> [r \in S |-> replayEntry(r, log[k])]]
            Eq(f) == f = [s \in SUBSET (1..n) |-> IF s = {} THEN base
                                                  ELSE replayEntry(f[s \ {Max(s)}], log[Max(s)])]
            fold == CHOOSE f : Eq(f)
<1>1. n \in Nat /\ DOMAIN log = 1..n
  OBVIOUS
<1>2. step \in [1..n -> [S -> S]]
  OBVIOUS
<1>3. replayAll(mt, log) = fold[1..n]
  BY <1>1, Zenon DEF replayAll, FoldLeft, MapThenFoldSet
<1>4. \A s \in SUBSET (1..n) : s # {} => Max(s) \in 1..n /\ s \ {Max(s)} \in SUBSET (1..n)
  <2>. SUFFICES ASSUME NEW s \in SUBSET (1..n), s # {} PROVE Max(s) \in s
    BY Zenon
  <2>1. s \in SUBSET Nat /\ \A x \in s : x <= n
    OBVIOUS
  <2>. QED  BY <2>1, <1>1, GreatestNat, Zenon
<1>. HIDE DEF n, base
<1>5. \E f : Eq(f)
  <2>1. PICK g \in [SUBSET (1..n) -> S] : IsLoop(g, n, base, step)
    <3>. HIDE DEF step
    <3>1. base \in S
      BY DEF base
    <3>. QED  BY <3>1, <1>1, <1>2, LoopExists, Zenon
  <2>2. \A s \in SUBSET (1..n) : s # {} => step[Max(s)][g[s \ {Max(s)}]]
                                              = replayEntry(g[s \ {Max(s)}], log[Max(s)])
    BY <1>4, <2>1
  <2>3. Eq(g)
    BY <2>1, <2>2, Zenon DEF IsLoop
  <2>. QED  BY <2>3, Zenon
<1>6. Eq(fold)
  BY <1>5, Zenon
<1>. HIDE DEF fold
<1>7. fold[{}] = base
  BY <1>6
<1>8. Follows(fold, n, base, step, S)
  BY <1>4, <1>6, <1>7, Zenon DEF Follows
<1>9. PICK run \in [0..n -> S] : AreRounds(run, n, base, step, fold[1..n])
  <2>. HIDE DEF step
  <2>1. base \in S
    BY DEF base
  <2>. QED  BY <2>1, <1>1, <1>2, <1>8, LoopRounds, Zenon
<1>10. ASSUME NEW k \in 1..n PROVE run[k] = replayEntry(run[k - 1], log[k])
  <2>1. run[k - 1] \in S
    BY <1>9, <1>1
  <2>. QED  BY <1>9, <2>1, Zenon DEF AreRounds
<1>. QED  BY <1>3, <1>9, <1>10 DEF n, base, AreRounds

-----------------------------------------------------------------------------
(* Names in their order. *)

IsAscending(s) == \A i, j \in DOMAIN s : i < j => s[i] < s[j]

(* A finite set of numbers can be listed in ascending order. *)
LEMMA AscendingExists ==
    ASSUME NEW S \in SUBSET Nat, IsFiniteSet(S)
    PROVE  \E s \in [1..Cardinality(S) -> S] : IsAscending(s)
<1>. DEFINE N == Cardinality(S)
            Q(k) == \A T \in SUBSET S : Cardinality(T) = k => \E s \in [1..k -> T] : IsAscending(s)
            P == {k \in 0..N : Q(k)}
<1>1. N \in Nat
  BY FS_CardinalityType
<1>2. \A T \in SUBSET S : IsFiniteSet(T)
  BY FS_Subset, Zenon
<1>. HIDE DEF N
<1>3. Q(0)
  <2>. SUFFICES ASSUME NEW T \in SUBSET S, Cardinality(T) = 0
                PROVE  \E s \in [1..0 -> T] : IsAscending(s)
    BY Zenon
  <2>. DEFINE s == [i \in 1..0 |-> 0]
  <2>1. s \in [1..0 -> T] /\ IsAscending(s)
    BY DEF IsAscending
  <2>. QED  BY <2>1, Zenon
<1>4. ASSUME NEW k \in 1..N, Q(k - 1) PROVE Q(k)
  <2>. SUFFICES ASSUME NEW T \in SUBSET S, Cardinality(T) = k
                PROVE  \E s \in [1..k -> T] : IsAscending(s)
    BY Zenon
  <2>1. T # {} /\ T \in SUBSET Nat
    BY FS_EmptySet, <1>1
  <2>. DEFINE m == Min(T)
  <2>2. m \in T /\ \A x \in T : m <= x
    BY <2>1, LeastNat, Zenon
  <2>. HIDE DEF m
  <2>3. T \ {m} \in SUBSET S /\ Cardinality(T \ {m}) = k - 1
    BY <2>2, <1>2, FS_RemoveElement, Zenon
  <2>4. PICK r \in [1..(k-1) -> T \ {m}] : IsAscending(r)
    BY <2>3, <1>4, Zenon
  <2>. DEFINE s == [i \in 1..k |-> IF i = 1 THEN m ELSE r[i - 1]]
  <2>5. \A i \in 1..(k-1) : r[i] \in T /\ r[i] # m /\ r[i] \in Nat /\ m \in Nat /\ m <= r[i]
    BY <2>1, <2>2, <2>4, Zenon
  <2>6. s \in [1..k -> T]
    BY <2>2, <2>5
  <2>7. IsAscending(s)
    <3>. SUFFICES ASSUME NEW i \in 1..k, NEW j \in 1..k, i < j PROVE s[i] < s[j]
      BY DEF IsAscending
    <3>1. j - 1 \in 1..(k-1) /\ s[j] = r[j - 1]
      OBVIOUS
    <3>2. CASE i = 1
      BY <3>1, <3>2, <2>5
    <3>3. CASE i # 1
      <4>1. i - 1 \in 1..(k-1) /\ s[i] = r[i - 1] /\ i - 1 < j - 1
        BY <3>3
      <4>. QED  BY <3>1, <4>1, <2>4 DEF IsAscending
    <3>. QED  BY <3>2, <3>3
  <2>. QED  BY <2>6, <2>7, Zenon
<1>. HIDE DEF Q
<1>5. 0 \in P
  BY <1>1, <1>3
<1>6. ASSUME NEW k \in 1..N, k - 1 \in P PROVE k \in P
  BY <1>4, <1>6
<1>7. 0..N \subseteq P
  <2>. HIDE DEF P
  <2>. QED  BY <1>1, <1>5, <1>6, InductionUpTo, Zenon
<1>8. Q(N)
  BY <1>1, <1>7
<1>. QED  BY <1>8, Zenon DEF Q, N

(* Ascending lists every element of a finite set once, in order. *)
LEMMA AscendingLists ==
    ASSUME NEW S \in SUBSET Nat, IsFiniteSet(S)
    PROVE  /\ Cardinality(S) \in Nat
           /\ Ascending(S) \in [1..Cardinality(S) -> S]
           /\ IsAscending(Ascending(S))
           /\ \A x \in S : \E i \in 1..Cardinality(S) : Ascending(S)[i] = x
<1>. DEFINE n == Cardinality(S)
            a == Ascending(S)
<1>1. n \in Nat
  BY FS_CardinalityType
<1>2. a \in [1..n -> S] /\ IsAscending(a)
  BY AscendingExists, Zenon DEF Ascending, IsAscending
<1>. HIDE DEF a
<1>3. a \in Injection(1..n, S)
  <2>1. ASSUME NEW i \in 1..n, NEW j \in 1..n, i # j PROVE a[i] # a[j]
    <3>1. a[i] \in Nat /\ a[j] \in Nat
      BY <1>2, Zenon
    <3>2. i < j \/ j < i
      BY <2>1, <1>1
    <3>. QED  BY <3>1, <3>2, <1>2 DEF IsAscending
  <2>. QED  BY <2>1, <1>2, Zenon DEF Injection, IsInjective
<1>4. Cardinality(1..n) = n
  BY <1>1, FS_Interval
<1>5. a \in Surjection(1..n, S)
  BY <1>3, <1>4, FS_Injection, Zenon
<1>. QED  BY <1>1, <1>2, <1>5, Zenon DEF Surjection, a

-----------------------------------------------------------------------------
(* One upgrade, one change set. *)

(* IndexOf is the place of a tree, or 0 when no tree has the name. *)
LEMMA IndexOfTree ==
    ASSUME NEW mt, NEW T, mt.trees \in Seq(T), NEW name
    PROVE  \/ IndexOf(mt, name) = 0 /\ name \notin TreeNames(mt)
           \/ /\ IndexOf(mt, name) \in 1..Len(mt.trees) /\ name \in TreeNames(mt)
              /\ mt.trees[IndexOf(mt, name)].name = name
<1>. DEFINE I == {i \in 1..Len(mt.trees) : mt.trees[i].name = name}
<1>1. IndexOf(mt, name) = IF I # {} THEN Min(I) ELSE 0
  BY Zenon DEF IndexOf, SelectInSeq
<1>2. I \in SUBSET Nat /\ DOMAIN mt.trees = 1..Len(mt.trees)
  OBVIOUS
<1>3. I # {} => Min(I) \in I
  BY <1>2, LeastNat, Zenon
<1>. QED  BY <1>1, <1>2, <1>3 DEF TreeNames

(* A function on the first n numbers is a sequence. *)
LEMMA FunctionSeq ==
    ASSUME NEW S, NEW n \in Nat, NEW f \in [1..n -> S]
    PROVE  f \in Seq(S) /\ Len(f) = n /\ DOMAIN f = 1..n
OBVIOUS

(* A sequence with one element replaced. *)
LEMMA ExceptAt ==
    ASSUME NEW S, NEW s \in Seq(S), NEW i \in 1..Len(s), NEW e \in S, NEW t, t = [s EXCEPT ![i] = e]
    PROVE  /\ t \in Seq(S) /\ Len(t) = Len(s) /\ t[i] = e
           /\ \A j \in 1..Len(s) : j # i => t[j] = s[j]
BY ExceptSeq

AtVersion(info, initialVersion) ==
    {r \in Results : r.mt.info = info /\ r.mt.initialVersion = initialVersion /\ InStep(r.mt)}

(* A tree that an upgrade adds is one version below the version built      *)
(* next.                                                                   *)
LEMMA NextVersionType ==
    ASSUME NEW v \in Nat, NEW initialVersion \in Nat
    PROVE  /\ nextVersion(v, initialVersion) \in Nat \ {0}
           /\ NewWithInitialVersion(nextVersion(v, initialVersion)) \in Nat
           /\ NewWithInitialVersion(nextVersion(v, initialVersion)) + 1 = nextVersion(v, initialVersion)
BY DEF nextVersion, NewWithInitialVersion

(* the outcomes of one upgrade *)
LEMMA UpgradeCases ==
    ASSUME NEW r \in Results, NEW u \in TreeNameUpgrades
    PROVE  LET mt == r.mt
               i == IndexOf(mt, IF u.delete THEN u.name ELSE u.renameFrom)
               new == NewTree(u.name, NewWithInitialVersion(nextVersion(Version(mt), mt.initialVersion)))
           IN \/ r.err /\ ApplyUpgrade(r, u) = r
              \/ ~r.err /\ ~u.delete /\ u.renameFrom = 0 /\ ApplyUpgrade(r, u) = Done([mt EXCEPT !.trees = Append(@, new)])
              \/ ~r.err /\ (u.delete \/ u.renameFrom # 0) /\ i = 0 /\ ApplyUpgrade(r, u) = Failed(mt)
              \/ ~r.err /\ u.delete /\ i # 0 /\ ApplyUpgrade(r, u) = Done([mt EXCEPT !.trees = Front([@ EXCEPT ![i] = Last(mt.trees)])])
              \/ ~r.err /\ ~u.delete /\ u.renameFrom # 0 /\ i # 0 /\ ApplyUpgrade(r, u) = Done([mt EXCEPT !.trees[i].name = u.name])
BY Zenon DEF ApplyUpgrade, Results, TreeNameUpgrades

(* One upgrade keeps the trees in step. *)
LEMMA UpgradeInStep ==
    ASSUME NEW info, NEW iv, NEW r \in AtVersion(info, iv), NEW u \in TreeNameUpgrades
    PROVE  ApplyUpgrade(r, u) \in AtVersion(info, iv)
<1>. DEFINE mt == r.mt
            i == IndexOf(mt, IF u.delete THEN u.name ELSE u.renameFrom)
            version == NewWithInitialVersion(nextVersion(Version(mt), mt.initialVersion))
            new == NewTree(u.name, version)
            trees == mt.trees
<1>1. /\ r \in Results /\ mt \in MultiTrees /\ mt.info = info /\ mt.initialVersion = iv
      /\ trees \in Seq(Trees) /\ \A j \in 1..Len(trees) : trees[j].version + 1 = nextVersion(Version(mt), iv)
  BY DEF AtVersion, Results, MultiTrees, InStep
<1>2. ASSUME NEW ts \in Seq(Trees), \A j \in 1..Len(ts) : ts[j].version + 1 = nextVersion(Version(mt), iv)
      PROVE  Done([mt EXCEPT !.trees = ts]) \in AtVersion(info, iv)
  <2>. DEFINE m == [mt EXCEPT !.trees = ts]
  <2>1. m \in MultiTrees /\ m.trees = ts /\ m.info = mt.info /\ m.initialVersion = mt.initialVersion
    BY <1>1 DEF MultiTrees
  <2>. HIDE DEF m
  <2>2. InStep(m)
    BY <1>1, <1>2, <2>1 DEF InStep, Version
  <2>3. Done(m) \in AtVersion(info, iv)
    BY <1>1, <2>1, <2>2 DEF AtVersion, Results, Done
  <2>. QED  BY <2>3 DEF m
<1>3. Failed(mt) \in AtVersion(info, iv)
  BY <1>1 DEF AtVersion, Results, InStep, Failed
<1>4. version \in Nat /\ version + 1 = nextVersion(Version(mt), iv)
  BY <1>1, NextVersionType, Zenon DEF MultiTrees, CommitInfos, Version
<1>5. i = 0 \/ i \in 1..Len(trees)
  BY <1>1, IndexOfTree, Zenon
<1>. HIDE DEF i, version, trees
<1>6. Done([mt EXCEPT !.trees = Append(@, new)]) \in AtVersion(info, iv)
  <2>1. new \in Trees /\ new.version = version
    BY <1>4 DEF NewTree, Trees, TreeNameUpgrades
  <2>2. Append(trees, new) \in Seq(Trees)
    BY <1>1, <2>1
  <2>3. \A j \in 1..Len(Append(trees, new)) : Append(trees, new)[j].version + 1 = nextVersion(Version(mt), iv)
    BY <1>1, <1>4, <2>1
  <2>4. Done([mt EXCEPT !.trees = Append(trees, new)]) \in AtVersion(info, iv)
    BY <1>2, <2>2, <2>3, Zenon
  <2>. QED  BY <2>4 DEF trees
<1>7. ASSUME i # 0 PROVE Done([mt EXCEPT !.trees = Front([@ EXCEPT ![i] = Last(mt.trees)])]) \in AtVersion(info, iv)
  <2>. DEFINE swapped == [trees EXCEPT ![i] = Last(trees)]
  <2>1. Len(trees) \in 1..Len(trees) /\ Last(trees) = trees[Len(trees)]
    BY <1>1, <1>5, <1>7 DEF Last
  <2>2. /\ swapped \in Seq(Trees) /\ Len(swapped) = Len(trees)
        /\ \A j \in 1..Len(trees) : swapped[j].version + 1 = nextVersion(Version(mt), iv)
    <3>1. Last(trees) \in Trees /\ i \in 1..Len(trees)
      BY <1>1, <1>5, <1>7, <2>1
    <3>2. /\ swapped \in Seq(Trees) /\ Len(swapped) = Len(trees)
          /\ swapped[i] = Last(trees) /\ \A j \in 1..Len(trees) : j # i => swapped[j] = trees[j]
      BY <1>1, <3>1, ExceptAt
    <3>. QED  BY <1>1, <2>1, <3>2
  <2>. HIDE DEF swapped
  <2>3. Front(swapped) \in Seq(Trees) /\ \A j \in 1..Len(Front(swapped)) : j \in 1..Len(trees) /\ Front(swapped)[j] = swapped[j]
    BY <2>1, <2>2 DEF Front
  <2>4. Done([mt EXCEPT !.trees = Front(swapped)]) \in AtVersion(info, iv)
    BY <1>2, <2>2, <2>3
  <2>. QED  BY <2>4 DEF swapped, trees
<1>8. ASSUME i # 0 PROVE Done([mt EXCEPT !.trees[i].name = u.name]) \in AtVersion(info, iv)
  <2>. DEFINE renamed == [trees EXCEPT ![i].name = u.name]
  <2>1. u.name \in Nat \ {0} /\ i \in 1..Len(trees)
    BY <1>5, <1>8 DEF TreeNameUpgrades
  <2>2. /\ renamed \in Seq(Trees) /\ Len(renamed) = Len(trees)
        /\ \A j \in 1..Len(trees) : renamed[j].version = trees[j].version
    <3>. DEFINE t == [trees[i] EXCEPT !.name = u.name]
    <3>1. trees[i] \in Trees
      BY <1>1, <2>1
    <3>2. t \in Trees /\ t.version = trees[i].version
      BY <2>1, <3>1, Zenon DEF Trees
    <3>3. renamed = [trees EXCEPT ![i] = t]
      OBVIOUS
    <3>. HIDE DEF t, renamed
    <3>4. /\ renamed \in Seq(Trees) /\ Len(renamed) = Len(trees) /\ renamed[i] = t
          /\ \A j \in 1..Len(trees) : j # i => renamed[j] = trees[j]
      BY <1>1, <2>1, <3>2, <3>3, ExceptAt
    <3>. QED  BY <3>2, <3>4
  <2>. HIDE DEF renamed
  <2>3. Done([mt EXCEPT !.trees = renamed]) \in AtVersion(info, iv)
    BY <1>1, <1>2, <2>2
  <2>. QED  BY <2>3 DEF renamed, trees
<1>. QED  BY <1>1, <1>3, <1>6, <1>7, <1>8, UpgradeCases, ZenonT(40) DEF i, version, trees

-----------------------------------------------------------------------------
(* ApplyUpgrades. *)

(* The names are as many as the trees when no two trees share one. *)
LEMMA NamesCounted ==
    ASSUME NEW mt \in MultiTrees
    PROVE  /\ IsFiniteSet(TreeNames(mt)) /\ Cardinality(TreeNames(mt)) \in Nat /\ TreeNames(mt) \subseteq Nat \ {0}
           /\ Cardinality(TreeNames(mt)) <= Len(mt.trees)
           /\ Cardinality(TreeNames(mt)) = Len(mt.trees) <=> UniqueNames(mt)
<1>. DEFINE n == Len(mt.trees)
            f == [i \in 1..n |-> mt.trees[i].name]
            T == TreeNames(mt)
<1>1. mt.trees \in Seq(Trees) /\ n \in Nat /\ DOMAIN mt.trees = 1..n
  BY DEF MultiTrees
<1>2. T \subseteq Nat \ {0}
  <2>1. \A i \in 1..n : mt.trees[i] \in Trees
    BY <1>1
  <2>2. \A i \in 1..n : mt.trees[i].name \in Nat \ {0}
    BY <2>1 DEF Trees
  <2>. QED  BY <1>1, <2>2 DEF TreeNames
<1>3. f \in [1..n -> T] /\ \A x \in T : \E i \in 1..n : f[i] = x
  BY <1>1 DEF TreeNames
<1>4. f \in Surjection(1..n, T)
  BY <1>3, Zenon DEF Surjection
<1>5. IsFiniteSet(1..n) /\ Cardinality(1..n) = n
  BY <1>1, FS_Interval
<1>. HIDE DEF n
<1>6. /\ IsFiniteSet(T) /\ Cardinality(T) <= Cardinality(1..n)
      /\ Cardinality(T) = Cardinality(1..n) <=> f \in Injection(1..n, T)
  <2>. HIDE DEF f, T
  <2>. QED  BY <1>4, <1>5, FS_Surjection, Zenon
<1>7. f \in Injection(1..n, T) <=> UniqueNames(mt)
  BY <1>1, <1>3, Zenon DEF Injection, IsInjective, UniqueNames
<1>8. Cardinality(T) \in Nat
  BY <1>6, FS_CardinalityType
<1>. QED  BY <1>2, <1>5, <1>6, <1>7, <1>8, Zenon DEF n

(* ts has the trees of mt in some order *)
Reordered(mt, ts) ==
    /\ ts \in Seq(Trees) /\ Len(ts) = Len(mt.trees)
    /\ \A i \in 1..Len(ts) : \E k \in 1..Len(mt.trees) : ts[i] = mt.trees[k]
    /\ \A i, j \in 1..Len(ts) : ts[i].name = ts[j].name => i = j
    /\ {ts[i].name : i \in 1..Len(ts)} = TreeNames(mt)

(* sortTrees reorders the trees, and fails when two trees share a name. *)
LEMMA SortedTrees ==
    ASSUME NEW mt \in MultiTrees
    PROVE  \/ ~UniqueNames(mt) /\ sortTrees(mt) = Failed(mt)
           \/ /\ UniqueNames(mt)
              /\ \E ts : Reordered(mt, ts) /\ sortTrees(mt) = Done([mt EXCEPT !.trees = ts])
<1>. DEFINE n == Len(mt.trees)
            T == TreeNames(mt)
            names == Ascending(T)
            ts == [i \in 1..n |-> mt.trees[IndexOf(mt, names[i])]]
<1>1. mt.trees \in Seq(Trees) /\ n \in Nat /\ DOMAIN mt.trees = 1..n
  BY DEF MultiTrees
<1>2. /\ IsFiniteSet(T) /\ Cardinality(T) \in Nat /\ T \subseteq Nat \ {0}
      /\ Cardinality(T) <= n /\ (Cardinality(T) = n <=> UniqueNames(mt))
  BY NamesCounted, Zenon
<1>3. CASE ~UniqueNames(mt)
  BY <1>1, <1>2, <1>3 DEF sortTrees
<1>4. CASE UniqueNames(mt)
  <2>1. Cardinality(T) = n
    BY <1>2, <1>4
  <2>2. sortTrees(mt) = Done([mt EXCEPT !.trees = ts])
    <3>1. ~(Cardinality(TreeNames(mt)) < Len(mt.trees))
      BY <1>1, <2>1
    <3>. QED  BY <1>1, <3>1, Zenon DEF sortTrees
  <2>3. /\ names \in [1..n -> T] /\ IsAscending(names)
        /\ \A x \in T : \E i \in 1..n : names[i] = x
    <3>1. T \in SUBSET Nat
      BY <1>2
    <3>. QED  BY <1>2, <2>1, <3>1, AscendingLists, Zenon
  <2>. HIDE DEF names, T, n
  <2>4. ASSUME NEW i \in 1..n
        PROVE  IndexOf(mt, names[i]) \in 1..n /\ ts[i] = mt.trees[IndexOf(mt, names[i])] /\ ts[i].name = names[i]
    <3>1. names[i] \in TreeNames(mt)
      BY <2>3 DEF T
    <3>. QED  BY <1>1, <3>1, IndexOfTree, Zenon DEF n
  <2>5. ts \in Seq(Trees) /\ Len(ts) = n
    BY <1>1, <2>4
  <2>. HIDE DEF ts
  <2>6. ASSUME NEW i \in 1..n, NEW j \in 1..n, ts[i].name = ts[j].name PROVE i = j
    <3>1. names[i] = names[j] /\ names[i] \in Nat
      BY <2>3, <2>4, <2>6, <1>2, Zenon
    <3>. QED  BY <2>3, <3>1, <1>1 DEF IsAscending
  <2>7. {ts[i].name : i \in 1..n} = T
    <3>1. \A i \in 1..n : ts[i].name = names[i] /\ names[i] \in T
      BY <2>3, <2>4, Zenon
    <3>. QED  BY <2>3, <3>1, Zenon
  <2>8. Reordered(mt, ts)
    BY <2>4, <2>5, <2>6, <2>7, Zenon DEF Reordered, n, T
  <2>. QED  BY <1>4, <2>2, <2>8, Zenon
<1>. QED  BY <1>3, <1>4

(* Upgrades keep the version, the initial version and the trees in step,   *)
(* and leave no two trees of one name.                                     *)
LEMMA UpgradesInStep ==
    ASSUME NEW mt \in MultiTrees, InStep(mt), NEW us \in Seq(TreeNameUpgrades)
    PROVE  /\ ApplyUpgrades(mt, us) \in AtVersion(mt.info, mt.initialVersion)
           /\ us = <<>> => ApplyUpgrades(mt, us) = Done(mt)
           /\ us # <<>> /\ ~ApplyUpgrades(mt, us).err => UniqueNames(ApplyUpgrades(mt, us).mt)
<1>. DEFINE S == AtVersion(mt.info, mt.initialVersion)
            a == upgradeAll(mt, us)
<1>1. Done(mt) \in S
  BY DEF AtVersion, Done, Results
<1>2. \A r \in S, k \in 1..Len(us) : ApplyUpgrade(r, us[k]) \in S
  BY UpgradeInStep
<1>3. a \in S
  <2>. HIDE DEF S
  <2>1. PICK run \in [0..Len(us) -> S] : upgradeAll(mt, us) = run[Len(us)]
    BY <1>1, <1>2, UpgradeLoop
  <2>. QED  BY <2>1
<1>4. us # <<>> => ApplyUpgrades(mt, us) = IF a.err THEN a ELSE sortTrees(a.mt)
  BY Zenon DEF ApplyUpgrades, upgradeAll, Then
<1>5. us = <<>> => ApplyUpgrades(mt, us) = Done(mt)
  BY Zenon DEF ApplyUpgrades
<1>. HIDE DEF a
<1>6. /\ a \in Results /\ a.mt \in MultiTrees /\ InStep(a.mt)
      /\ a.mt.info = mt.info /\ a.mt.initialVersion = mt.initialVersion
  BY <1>3 DEF AtVersion, Results
<1>7. CASE us # <<>> /\ ~a.err /\ ~UniqueNames(a.mt)
  <2>1. ApplyUpgrades(mt, us) = Failed(a.mt)
    BY <1>4, <1>6, <1>7, SortedTrees
  <2>. QED  BY <1>6, <1>7, <2>1 DEF AtVersion, Results, Failed
<1>8. CASE us # <<>> /\ ~a.err /\ UniqueNames(a.mt)
  <2>1. PICK ts : Reordered(a.mt, ts) /\ sortTrees(a.mt) = Done([a.mt EXCEPT !.trees = ts])
    BY <1>6, <1>8, SortedTrees
  <2>. DEFINE m == [a.mt EXCEPT !.trees = ts]
  <2>2. m \in MultiTrees /\ m.trees = ts /\ m.info = mt.info /\ m.initialVersion = mt.initialVersion
    BY <1>6, <2>1 DEF MultiTrees, Reordered
  <2>3. ApplyUpgrades(mt, us) = Done(m)
    BY <1>4, <1>8, <2>1
  <2>. HIDE DEF m
  <2>4. DOMAIN ts = 1..Len(ts) /\ DOMAIN a.mt.trees = 1..Len(a.mt.trees)
    BY <1>6, <2>1 DEF Reordered, MultiTrees
  <2>5. InStep(m)
    <3>1. ASSUME NEW i \in 1..Len(ts)
          PROVE  ts[i].version + 1 = nextVersion(mt.info.version, mt.initialVersion)
      <4>1. PICK k \in 1..Len(a.mt.trees) : ts[i] = a.mt.trees[k]
        BY <2>1 DEF Reordered
      <4>. QED  BY <1>6, <2>4, <4>1 DEF InStep, Version
    <3>. QED  BY <2>2, <2>4, <3>1 DEF InStep, Version
  <2>6. UniqueNames(m)
    BY <2>1, <2>2, <2>4, Zenon DEF UniqueNames, Reordered
  <2>. QED  BY <1>8, <2>2, <2>3, <2>5, <2>6 DEF AtVersion, Results, Done
<1>9. CASE us # <<>> /\ a.err
  BY <1>3, <1>4, <1>9
<1>. QED  BY <1>1, <1>5, <1>7, <1>8, <1>9

(* The multi tree with its trees put in step with another version. *)
Restep(mt, info, iv) ==
    [initialVersion |-> iv, info |-> info,
     trees |-> [i \in DOMAIN mt.trees |->
                  [mt.trees[i] EXCEPT !.version = NewWithInitialVersion(nextVersion(info.version, iv))]]]

RestepResult(r, info, iv) == [err |-> r.err, mt |-> Restep(r.mt, info, iv)]

(* Restep keeps the names and the places of the trees. *)
LEMMA RestepType ==
    ASSUME NEW mt \in MultiTrees, NEW info \in CommitInfos, NEW iv \in Nat
    PROVE  /\ Restep(mt, info, iv) \in MultiTrees
           /\ Len(Restep(mt, info, iv).trees) = Len(mt.trees)
           /\ TreeNames(Restep(mt, info, iv)) = TreeNames(mt)
           /\ \A name : IndexOf(Restep(mt, info, iv), name) = IndexOf(mt, name)
           /\ UniqueNames(Restep(mt, info, iv)) <=> UniqueNames(mt)
<1>. DEFINE v == NewWithInitialVersion(nextVersion(info.version, iv))
            ts == [i \in DOMAIN mt.trees |-> [mt.trees[i] EXCEPT !.version = v]]
            m == Restep(mt, info, iv)
<1>1. v \in Nat
  BY NextVersionType, Zenon DEF CommitInfos
<1>. HIDE DEF v
<1>2. mt.trees \in Seq(Trees) /\ DOMAIN mt.trees = 1..Len(mt.trees) /\ Len(mt.trees) \in Nat
  BY DEF MultiTrees
<1>3. \A i \in 1..Len(mt.trees) : mt.trees[i] \in Trees
  BY <1>2
<1>4. \A i \in 1..Len(mt.trees) : ts[i] \in Trees /\ ts[i].name = mt.trees[i].name
  BY <1>1, <1>2, <1>3, Zenon DEF Trees
<1>5. ts \in Seq(Trees) /\ Len(ts) = Len(mt.trees) /\ DOMAIN ts = 1..Len(mt.trees)
  <2>1. ts \in [1..Len(mt.trees) -> Trees]
    BY <1>2, <1>4, Zenon
  <2>. HIDE DEF ts
  <2>. QED  BY <1>2, <2>1, FunctionSeq
<1>6. m.trees = ts /\ m.info = info /\ m.initialVersion = iv /\ m = [initialVersion |-> iv, info |-> info, trees |-> ts]
  BY DEF Restep, v
<1>. HIDE DEF ts, m
<1>7. m \in MultiTrees
  BY <1>5, <1>6 DEF MultiTrees
<1>8. TreeNames(m) = TreeNames(mt)
  BY <1>2, <1>4, <1>5, <1>6 DEF TreeNames
<1>9. ASSUME NEW name PROVE IndexOf(m, name) = IndexOf(mt, name)
  <2>1. {i \in 1..Len(m.trees) : m.trees[i].name = name} = {i \in 1..Len(mt.trees) : mt.trees[i].name = name}
    BY <1>4, <1>5, <1>6
  <2>. QED  BY <2>1, Zenon DEF IndexOf, SelectInSeq
<1>10. UniqueNames(m) <=> UniqueNames(mt)
  BY <1>2, <1>4, <1>5, <1>6 DEF UniqueNames
<1>. QED  BY <1>5, <1>6, <1>7, <1>8, <1>9, <1>10 DEF m

-----------------------------------------------------------------------------
(* Upgrades see the version and the initial version only in the version of *)
(* the trees they add.                                                     *)

(* ss has the trees of ts at version v *)
SameTrees(ts, ss, v) == Len(ss) = Len(ts) /\ \A j \in 1..Len(ts) : ss[j] = [ts[j] EXCEPT !.version = v]

(* Restep of other trees. *)
LEMMA RestepTrees ==
    ASSUME NEW mt \in MultiTrees, NEW info \in CommitInfos, NEW iv \in Nat,
           NEW ts \in Seq(Trees), NEW ss \in Seq(Trees),
           SameTrees(ts, ss, NewWithInitialVersion(nextVersion(info.version, iv)))
    PROVE  Restep([mt EXCEPT !.trees = ts], info, iv) = [Restep(mt, info, iv) EXCEPT !.trees = ss]
<1>. DEFINE v == NewWithInitialVersion(nextVersion(info.version, iv))
            rs == [j \in DOMAIN ts |-> [ts[j] EXCEPT !.version = v]]
            m == [mt EXCEPT !.trees = ts]
<1>1. m.trees = ts
  BY DEF MultiTrees
<1>2. rs = ss
  <2>1. DOMAIN ts = 1..Len(ts) /\ DOMAIN ss = 1..Len(ts)
    BY DEF SameTrees
  <2>2. \A j \in 1..Len(ts) : ss[j] = [ts[j] EXCEPT !.version = v]
    BY DEF SameTrees
  <2>3. ss = [j \in 1..Len(ts) |-> ss[j]]
    BY <2>1
  <2>. HIDE DEF v
  <2>. QED  BY <2>1, <2>2, <2>3
<1>3. Restep(m, info, iv) = [initialVersion |-> iv, info |-> info, trees |-> rs]
  BY <1>1 DEF Restep
<1>4. [Restep(mt, info, iv) EXCEPT !.trees = ss] = [initialVersion |-> iv, info |-> info, trees |-> ss]
  <2>1. ASSUME NEW x PROVE [[initialVersion |-> iv, info |-> info, trees |-> x] EXCEPT !.trees = ss]
                             = [initialVersion |-> iv, info |-> info, trees |-> ss]
    OBVIOUS
  <2>. QED  BY <2>1, Zenon DEF Restep
<1>. QED  BY <1>2, <1>3, <1>4

(* One upgrade of trees in step with another version. *)
LEMMA RestepUpgrade ==
    ASSUME NEW r \in Results, NEW u \in TreeNameUpgrades, NEW info \in CommitInfos, NEW iv \in Nat
    PROVE  /\ RestepResult(r, info, iv) \in Results
           /\ ApplyUpgrade(RestepResult(r, info, iv), u) = RestepResult(ApplyUpgrade(r, u), info, iv)
<1>. DEFINE mt == r.mt
            m == Restep(mt, info, iv)
            q == RestepResult(r, info, iv)
            v == NewWithInitialVersion(nextVersion(info.version, iv))
            name == IF u.delete THEN u.name ELSE u.renameFrom
            i == IndexOf(mt, name)
            old == NewTree(u.name, NewWithInitialVersion(nextVersion(Version(mt), mt.initialVersion)))
            new == NewTree(u.name, v)
            ts == mt.trees
            ss == m.trees
<1>1. mt \in MultiTrees /\ m \in MultiTrees /\ Len(ss) = Len(ts) /\ IndexOf(m, name) = i
  BY RestepType DEF Results
<1>2. q \in Results /\ q.err = r.err /\ q.mt = m
  BY <1>1 DEF RestepResult, Results
<1>3. m.info = info /\ m.initialVersion = iv /\ \A j \in 1..Len(ts) : ss[j] = [ts[j] EXCEPT !.version = v]
  BY <1>1 DEF Restep, MultiTrees
<1>4. ts \in Seq(Trees) /\ ss \in Seq(Trees) /\ v \in Nat
  BY <1>1, NextVersionType, Zenon DEF MultiTrees, CommitInfos
<1>5. i = 0 \/ i \in 1..Len(ts)
  BY <1>4, IndexOfTree, Zenon
<1>6. NewTree(u.name, NewWithInitialVersion(nextVersion(Version(m), m.initialVersion))) = new
  BY <1>3 DEF Version
<1>7. old \in Trees /\ new = [old EXCEPT !.version = v] /\ new \in Trees
  <2>1. NewWithInitialVersion(nextVersion(Version(mt), mt.initialVersion)) \in Nat
    BY <1>1, NextVersionType, Zenon DEF MultiTrees, CommitInfos, Version
  <2>. HIDE DEF v
  <2>2. ASSUME NEW w \in Nat
        PROVE  NewTree(u.name, w) \in Trees /\ new = [NewTree(u.name, w) EXCEPT !.version = v] /\ new \in Trees
    <3>1. u.name \in Nat \ {0} /\ <<>> \in Seq(Nat \X Nat)
      BY DEF TreeNameUpgrades
    <3>2. ASSUME NEW x PROVE [[name |-> u.name, version |-> w, writes |-> x] EXCEPT !.version = v]
                               = [name |-> u.name, version |-> v, writes |-> x]
      OBVIOUS
    <3>3. NewTree(u.name, w) \in Trees /\ new \in Trees
      BY <1>4, <3>1 DEF NewTree, Trees
    <3>. QED  BY <3>2, <3>3, Zenon DEF NewTree
  <2>. QED  BY <2>1, <2>2, Zenon
<1>8. ASSUME NEW a \in Seq(Trees), NEW b \in Seq(Trees), SameTrees(a, b, v)
      PROVE  Done([m EXCEPT !.trees = b]) = RestepResult(Done([mt EXCEPT !.trees = a]), info, iv)
  <2>1. Restep([mt EXCEPT !.trees = a], info, iv) = [m EXCEPT !.trees = b]
    <3>1. mt \in MultiTrees
      BY <1>1
    <3>2. SameTrees(a, b, NewWithInitialVersion(nextVersion(info.version, iv)))
      BY <1>8
    <3>. HIDE DEF mt
    <3>. QED  BY <3>1, <3>2, RestepTrees
  <2>. QED  BY <2>1, Zenon DEF RestepResult, Done
<1>9. Failed(m) = RestepResult(Failed(mt), info, iv)
  BY DEF RestepResult, Failed
<1>. HIDE DEF i, v, old, new, ts, ss, m, name
<1>10. Done([m EXCEPT !.trees = Append(@, new)]) = RestepResult(Done([mt EXCEPT !.trees = Append(@, old)]), info, iv)
  <2>1. Append(ts, old) \in Seq(Trees) /\ Append(ss, new) \in Seq(Trees) /\ Len(Append(ss, new)) = Len(Append(ts, old))
    BY <1>1, <1>4, <1>7
  <2>2. SameTrees(Append(ts, old), Append(ss, new), v)
    BY <1>1, <1>3, <1>4, <1>7 DEF SameTrees
  <2>3. Done([m EXCEPT !.trees = Append(ss, new)]) = RestepResult(Done([mt EXCEPT !.trees = Append(ts, old)]), info, iv)
    BY <1>8, <2>1, <2>2, Zenon
  <2>. QED  BY <2>3 DEF ts, ss
<1>11. ASSUME i # 0
       PROVE  Done([m EXCEPT !.trees = Front([@ EXCEPT ![i] = Last(m.trees)])])
                = RestepResult(Done([mt EXCEPT !.trees = Front([@ EXCEPT ![i] = Last(mt.trees)])]), info, iv)
  <2>. DEFINE a == [ts EXCEPT ![i] = Last(ts)]
              b == [ss EXCEPT ![i] = Last(ss)]
  <2>1. /\ i \in 1..Len(ts) /\ i \in 1..Len(ss) /\ Len(ts) \in 1..Len(ts)
        /\ Last(ts) = ts[Len(ts)] /\ Last(ss) = ss[Len(ts)] /\ Last(ts) \in Trees /\ Last(ss) \in Trees
    BY <1>1, <1>4, <1>5, <1>11 DEF Last
  <2>2. /\ a \in Seq(Trees) /\ Len(a) = Len(ts) /\ a[i] = Last(ts)
        /\ \A j \in 1..Len(ts) : j # i => a[j] = ts[j]
    BY <1>4, <2>1, ExceptAt
  <2>3. /\ b \in Seq(Trees) /\ Len(b) = Len(ts) /\ b[i] = Last(ss)
        /\ \A j \in 1..Len(ts) : j # i => b[j] = ss[j]
    BY <1>1, <1>4, <2>1, ExceptAt
  <2>. HIDE DEF a, b
  <2>4. ASSUME NEW j \in 1..Len(ts) PROVE b[j] = [a[j] EXCEPT !.version = v]
    <3>1. CASE j = i
      <4>1. ss[Len(ts)] = [ts[Len(ts)] EXCEPT !.version = v]
        BY <1>3, <2>1, Zenon
      <4>. QED  BY <3>1, <4>1, <2>1, <2>2, <2>3, Zenon
    <3>2. CASE j # i
      BY <3>2, <1>3, <2>2, <2>3, Zenon
    <3>. QED  BY <3>1, <3>2
  <2>5. /\ Front(a) \in Seq(Trees) /\ Front(b) \in Seq(Trees) /\ Len(Front(a)) = Len(Front(b))
        /\ \A j \in 1..Len(Front(a)) : j \in 1..Len(ts) /\ Front(a)[j] = a[j] /\ Front(b)[j] = b[j]
    BY <2>1, <2>2, <2>3 DEF Front
  <2>6. SameTrees(Front(a), Front(b), v)
    BY <2>4, <2>5, Zenon DEF SameTrees
  <2>7. Done([m EXCEPT !.trees = Front(b)]) = RestepResult(Done([mt EXCEPT !.trees = Front(a)]), info, iv)
    BY <1>8, <2>5, <2>6, Zenon
  <2>. QED  BY <2>7 DEF a, b, ts, ss
<1>12. ASSUME i # 0
       PROVE  Done([m EXCEPT !.trees[i].name = u.name]) = RestepResult(Done([mt EXCEPT !.trees[i].name = u.name]), info, iv)
  <2>. DEFINE x == [ts[i] EXCEPT !.name = u.name]
              y == [ss[i] EXCEPT !.name = u.name]
              a == [ts EXCEPT ![i] = x]
              b == [ss EXCEPT ![i] = y]
  <2>1. /\ i \in 1..Len(ts) /\ i \in 1..Len(ss) /\ ts[i] \in Trees /\ ss[i] \in Trees /\ u.name \in Nat \ {0}
        /\ ss[i] = [ts[i] EXCEPT !.version = v]
    BY <1>1, <1>3, <1>4, <1>5, <1>12 DEF TreeNameUpgrades
  <2>2. x \in Trees /\ y \in Trees /\ y = [x EXCEPT !.version = v]
    BY <2>1, Zenon DEF Trees
  <2>. HIDE DEF x, y
  <2>3. /\ a \in Seq(Trees) /\ Len(a) = Len(ts) /\ a[i] = x
        /\ \A j \in 1..Len(ts) : j # i => a[j] = ts[j]
    BY <1>4, <2>1, <2>2, ExceptAt
  <2>4. /\ b \in Seq(Trees) /\ Len(b) = Len(ts) /\ b[i] = y
        /\ \A j \in 1..Len(ts) : j # i => b[j] = ss[j]
    BY <1>1, <1>4, <2>1, <2>2, ExceptAt
  <2>. HIDE DEF a, b
  <2>5. SameTrees(a, b, v)
    <3>1. ASSUME NEW j \in 1..Len(ts) PROVE b[j] = [a[j] EXCEPT !.version = v]
      <4>1. CASE j = i
        BY <4>1, <2>2, <2>3, <2>4, Zenon
      <4>2. CASE j # i
        BY <4>2, <1>3, <2>3, <2>4, Zenon
      <4>. QED  BY <4>1, <4>2
    <3>. QED  BY <3>1, <2>3, <2>4, Zenon DEF SameTrees
  <2>6. Done([m EXCEPT !.trees = b]) = RestepResult(Done([mt EXCEPT !.trees = a]), info, iv)
    BY <1>8, <2>3, <2>4, <2>5, Zenon
  <2>. QED  BY <2>6 DEF a, b, x, y, ts, ss
<1>. QED
  <2>1. ApplyUpgrade(q, u) = RestepResult(ApplyUpgrade(r, u), info, iv)
    <3>1. CASE r.err
      BY <3>1, <1>2, UpgradeCases, Zenon
    <3>2. CASE ~r.err
      BY <3>2, <1>1, <1>2, <1>6, <1>9, <1>10, <1>11, <1>12, UpgradeCases, ZenonT(40) DEF i, old, name, m
    <3>. QED  BY <3>1, <3>2
  <2>. QED  BY <1>2, <2>1

(* sortTrees of trees in step with another version. *)
LEMMA RestepSort ==
    ASSUME NEW mt \in MultiTrees, NEW info \in CommitInfos, NEW iv \in Nat
    PROVE  sortTrees(Restep(mt, info, iv)) = RestepResult(sortTrees(mt), info, iv)
<1>. DEFINE m == Restep(mt, info, iv)
            v == NewWithInitialVersion(nextVersion(info.version, iv))
            n == Len(mt.trees)
            names == Ascending(TreeNames(mt))
            a == [i \in 1..n |-> mt.trees[IndexOf(mt, names[i])]]
            b == [i \in 1..n |-> m.trees[IndexOf(mt, names[i])]]
<1>1. /\ m \in MultiTrees /\ Len(m.trees) = n /\ TreeNames(m) = TreeNames(mt)
      /\ \A name : IndexOf(m, name) = IndexOf(mt, name)
  BY RestepType, Zenon
<1>2. /\ mt.trees \in Seq(Trees) /\ m.trees \in Seq(Trees) /\ n \in Nat
      /\ DOMAIN mt.trees = 1..n /\ DOMAIN m.trees = 1..n
  BY <1>1 DEF MultiTrees
<1>3. \A j \in 1..n : m.trees[j] = [mt.trees[j] EXCEPT !.version = v]
  BY <1>2 DEF Restep
<1>4. /\ IsFiniteSet(TreeNames(mt)) /\ Cardinality(TreeNames(mt)) \in Nat /\ TreeNames(mt) \in SUBSET Nat
      /\ Cardinality(TreeNames(mt)) <= n
  BY NamesCounted
<1>. HIDE DEF m, v
<1>5. CASE Cardinality(TreeNames(mt)) < n
  <2>1. sortTrees(m) = Failed(m) /\ sortTrees(mt) = Failed(mt)
    BY <1>1, <1>5 DEF sortTrees
  <2>. QED  BY <2>1 DEF m, Failed, RestepResult
<1>6. CASE ~(Cardinality(TreeNames(mt)) < n)
  <2>1. sortTrees(mt) = Done([mt EXCEPT !.trees = a])
    BY <1>2, <1>6, Zenon DEF sortTrees
  <2>2. sortTrees(m) = Done([m EXCEPT !.trees = b])
    <3>1. ~(Cardinality(TreeNames(m)) < Len(m.trees))
      BY <1>1, <1>6
    <3>2. \A i \in 1..n : m.trees[IndexOf(m, Ascending(TreeNames(m))[i])] = m.trees[IndexOf(mt, names[i])]
      BY <1>1, Zenon
    <3>3. [i \in DOMAIN m.trees |-> m.trees[IndexOf(m, Ascending(TreeNames(m))[i])]] = b
      BY <1>2, <3>2, Zenon
    <3>. QED  BY <3>1, <3>3, Zenon DEF sortTrees
  <2>3. \A i \in 1..n : IndexOf(mt, names[i]) \in 1..n
    <3>1. names \in [1..n -> TreeNames(mt)]
      <4>1. Cardinality(TreeNames(mt)) = n
        BY <1>2, <1>4, <1>6
      <4>. QED  BY <1>4, <4>1, AscendingLists, Zenon
    <3>2. ASSUME NEW i \in 1..n PROVE IndexOf(mt, names[i]) \in 1..n
      <4>1. names[i] \in TreeNames(mt)
        BY <3>1
      <4>. QED  BY <1>2, <4>1, IndexOfTree, Zenon
    <3>. QED  BY <3>2
  <2>. HIDE DEF names
  <2>4. a \in Seq(Trees) /\ b \in Seq(Trees) /\ SameTrees(a, b, v)
    <3>1. ASSUME NEW i \in 1..n PROVE a[i] \in Trees /\ b[i] \in Trees /\ b[i] = [a[i] EXCEPT !.version = v]
      <4>1. /\ mt.trees[IndexOf(mt, names[i])] \in Trees /\ m.trees[IndexOf(mt, names[i])] \in Trees
            /\ m.trees[IndexOf(mt, names[i])] = [mt.trees[IndexOf(mt, names[i])] EXCEPT !.version = v]
        BY <1>2, <1>3, <2>3
      <4>. QED  BY <4>1, Zenon
    <3>2. a \in [1..n -> Trees] /\ b \in [1..n -> Trees]
      BY <3>1, Zenon
    <3>. HIDE DEF a, b
    <3>3. a \in Seq(Trees) /\ b \in Seq(Trees) /\ Len(a) = n /\ Len(b) = n
      BY <1>2, <3>2, FunctionSeq, Zenon
    <3>. QED  BY <3>1, <3>3, Zenon DEF SameTrees
  <2>. HIDE DEF a, b
  <2>5. Restep([mt EXCEPT !.trees = a], info, iv) = [m EXCEPT !.trees = b]
    BY <2>4, RestepTrees DEF m, v
  <2>6. ASSUME NEW x PROVE RestepResult(Done(x), info, iv) = Done(Restep(x, info, iv))
    BY DEF Done, RestepResult
  <2>. QED  BY <2>1, <2>2, <2>5, <2>6, Zenon DEF m
<1>. QED  BY <1>5, <1>6, Zenon DEF m

(* Restep leaves the trees in step. *)
LEMMA RestepInStep ==
    ASSUME NEW mt \in MultiTrees, NEW info \in CommitInfos, NEW iv \in Nat
    PROVE  /\ InStep(Restep(mt, info, iv))
           /\ Restep(mt, info, iv).info = info /\ Restep(mt, info, iv).initialVersion = iv
<1>. DEFINE v == NewWithInitialVersion(nextVersion(info.version, iv))
            m == Restep(mt, info, iv)
<1>1. v + 1 = nextVersion(info.version, iv)
  BY NextVersionType DEF CommitInfos
<1>. HIDE DEF v
<1>2. m.info = info /\ m.initialVersion = iv /\ m.trees = [i \in DOMAIN mt.trees |-> [mt.trees[i] EXCEPT !.version = v]]
  BY DEF Restep, v
<1>3. \A i \in DOMAIN mt.trees : [mt.trees[i] EXCEPT !.version = v].version = v
  <2>1. \A i \in DOMAIN mt.trees : mt.trees[i] \in Trees
    BY DEF MultiTrees
  <2>. QED  BY <2>1 DEF Trees
<1>. HIDE DEF m
<1>. QED  BY <1>1, <1>2, <1>3 DEF m, InStep, Version

(* The same upgrades of the same trees in step with another version. *)
LEMMA RestepUpgrades ==
    ASSUME NEW mt \in MultiTrees, InStep(mt), NEW info \in CommitInfos, NEW iv \in Nat,
           NEW us \in Seq(TreeNameUpgrades)
    PROVE  ApplyUpgrades(Restep(mt, info, iv), us) = RestepResult(ApplyUpgrades(mt, us), info, iv)
<1>. DEFINE m == Restep(mt, info, iv)
            n == Len(us)
            S == AtVersion(mt.info, mt.initialVersion)
            T == AtVersion(info, iv)
            R(r) == RestepResult(r, info, iv)
<1>1. m \in MultiTrees /\ InStep(m) /\ m.info = info /\ m.initialVersion = iv
  <2>1. m \in MultiTrees
    BY RestepType, Zenon
  <2>. QED  BY <2>1, RestepInStep
<1>2. Done(m) = R(Done(mt))
  BY DEF Done, RestepResult
<1>. HIDE DEF m
<1>3. Done(mt) \in S /\ Done(m) \in T
  BY <1>1 DEF AtVersion, Done, Results
<1>4. /\ \A r \in S, k \in 1..Len(us) : ApplyUpgrade(r, us[k]) \in S
      /\ \A r \in T, k \in 1..Len(us) : ApplyUpgrade(r, us[k]) \in T
  BY UpgradeInStep
<1>. HIDE DEF S, T
<1>5. PICK p \in [0..n -> S] : /\ p[0] = Done(mt)
                               /\ \A k \in 1..n : p[k] = ApplyUpgrade(p[k - 1], us[k])
                               /\ upgradeAll(mt, us) = p[n]
  BY <1>3, <1>4, UpgradeLoop
<1>6. PICK q \in [0..n -> T] : /\ q[0] = Done(m)
                               /\ \A k \in 1..n : q[k] = ApplyUpgrade(q[k - 1], us[k])
                               /\ upgradeAll(m, us) = q[n]
  BY <1>3, <1>4, UpgradeLoop
<1>. DEFINE P == {k \in 0..n : q[k] = R(p[k])}
<1>7. 0 \in P
  BY <1>2, <1>5, <1>6
<1>8. ASSUME NEW k \in 1..n, k - 1 \in P PROVE k \in P
  <2>1. k - 1 \in 0..n /\ k \in 0..n /\ us[k] \in TreeNameUpgrades
    OBVIOUS
  <2>2. p[k - 1] \in Results
    BY <1>5, <2>1 DEF S, AtVersion
  <2>3. ApplyUpgrade(R(p[k - 1]), us[k]) = R(ApplyUpgrade(p[k - 1], us[k]))
    BY <2>1, <2>2, RestepUpgrade, Zenon
  <2>. QED  BY <1>5, <1>6, <1>8, <2>1, <2>3, Zenon
<1>9. q[n] = R(p[n])
  <2>1. n \in Nat
    OBVIOUS
  <2>2. 0..n \subseteq P
    <3>. HIDE DEF P, n
    <3>. QED  BY <2>1, <1>7, <1>8, InductionUpTo, Zenon
  <2>. QED  BY <2>1, <2>2
<1>10. p[n] \in Results
  BY <1>5 DEF S, AtVersion
<1>. HIDE DEF n
<1>11. CASE us = <<>>
  BY <1>11, <1>2, Zenon DEF ApplyUpgrades, m
<1>12. CASE us # <<>>
  <2>1. ApplyUpgrades(mt, us) = IF p[n].err THEN p[n] ELSE sortTrees(p[n].mt)
    BY <1>5, <1>12, Zenon DEF ApplyUpgrades, upgradeAll, Then
  <2>2. ApplyUpgrades(m, us) = IF q[n].err THEN q[n] ELSE sortTrees(q[n].mt)
    BY <1>6, <1>12, Zenon DEF ApplyUpgrades, upgradeAll, Then
  <2>3. q[n].err = p[n].err /\ q[n].mt = Restep(p[n].mt, info, iv)
    BY <1>9 DEF RestepResult
  <2>4. sortTrees(Restep(p[n].mt, info, iv)) = RestepResult(sortTrees(p[n].mt), info, iv)
    BY <1>10, RestepSort DEF Results
  <2>5. CASE p[n].err
    BY <2>1, <2>2, <2>3, <2>5, <1>9 DEF m
  <2>6. CASE ~p[n].err
    BY <2>1, <2>2, <2>3, <2>4, <2>6 DEF m
  <2>. QED  BY <2>5, <2>6
<1>. QED  BY <1>11, <1>12
=============================================================================
