----------------------- MODULE MultiTreeReplayProofs ------------------------
(***************************************************************************)
(* What a replay of the log computes, for every log: the change sets of a  *)
(* block in closed form, the versions and the trees that a replay reaches, *)
(* and that one more entry in the log is one more block on the trees.      *)
(***************************************************************************)
EXTENDS MultiTreeProofs

(* the change sets of a block, at most one for each store *)
Distinct(css) == \A j, k \in DOMAIN css : css[j].name = css[k].name => j = k

(* change sets of different stores, that mt has trees for *)
Logged(mt, css) ==
    /\ css \in Seq(NamedChangeSets) /\ Distinct(css)
    /\ \A k \in DOMAIN css : css[k].name \in TreeNames(mt)

(* the pairs for a store *)
PairsOf(css, name) ==
    IF \E k \in DOMAIN css : css[k].name = name
    THEN css[CHOOSE k \in DOMAIN css : css[k].name = name].pairs ELSE <<>>

(* the stores that have a change set *)
NamesOf(css) == {css[k].name : k \in DOMAIN css}

(* b has the pairs of a, and those of cs after them *)
Adds(a, cs, b) ==
    /\ PairsOf(b, cs.name) = PairsOf(a, cs.name) \o cs.pairs
    /\ \A name : name # cs.name => PairsOf(b, name) = PairsOf(a, name)

(* the trees with the pairs of their stores applied *)
WithPairs(mt, css) ==
    [mt EXCEPT !.trees = [i \in DOMAIN @ |-> Apply(@[i], PairsOf(css, @[i].name))]]

(* the place in the log of the entry that builds the next version *)
nextIndex(mt) ==
    IF mt.initialVersion > 1 THEN nextVersion(Version(mt), mt.initialVersion) - mt.initialVersion + 1
    ELSE nextVersion(Version(mt), mt.initialVersion)

(* a multi tree that a log can be replayed on *)
Sound(mt) ==
    /\ mt \in MultiTrees /\ InStep(mt) /\ UniqueNames(mt)
    /\ Version(mt) = 0 \/ Version(mt) + 1 >= mt.initialVersion
    /\ Version(mt) + 1 < WORD /\ mt.initialVersion < WORD

-----------------------------------------------------------------------------
(* Change sets. *)

(* What Apply does. *)
LEMMA ApplyType ==
    ASSUME NEW t \in Trees, NEW p \in Seq(Nat)
    PROVE  /\ Apply(t, p) \in Trees /\ Apply(t, p).name = t.name /\ Apply(t, p).version = t.version
           /\ Apply(t, p).writes = t.writes \o [i \in 1..Len(p) |-> <<t.version + 1, p[i]>>]
           /\ p = <<>> => Apply(t, p) = t
<1>. DEFINE w == [i \in 1..Len(p) |-> <<t.version + 1, p[i]>>]
<1>1. t.version \in Nat /\ t.writes \in Seq(Nat \X Nat)
  BY DEF Trees
<1>2. \A i \in 1..Len(p) : <<t.version + 1, p[i]>> \in Nat \X Nat
  BY <1>1
<1>3. w \in Seq(Nat \X Nat) /\ Len(w) = Len(p)
  <2>1. w \in [1..Len(p) -> Nat \X Nat]
    BY <1>2
  <2>2. Len(p) \in Nat
    OBVIOUS
  <2>. HIDE DEF w
  <2>. QED  BY <2>1, <2>2, FunctionSeq, Zenon
<1>4. Apply(t, p) = [t EXCEPT !.writes = t.writes \o w]
  <2>1. DOMAIN p = 1..Len(p)
    OBVIOUS
  <2>. QED  BY <2>1 DEF Apply, Trees
<1>. HIDE DEF w
<1>5. t.writes \o w \in Seq(Nat \X Nat)
  BY <1>1, <1>3
<1>6. p = <<>> => t.writes \o w = t.writes
  BY <1>1, <1>3
<1>7. p = <<>> => Apply(t, p) = t
  BY <1>4, <1>6, SMTT(30) DEF Trees
<1>8. Apply(t, p) \in Trees /\ Apply(t, p).name = t.name /\ Apply(t, p).version = t.version
      /\ Apply(t, p).writes = t.writes \o w
  BY <1>4, <1>5, Zenon DEF Trees
<1>. QED  BY <1>7, <1>8 DEF w

(* Trees are equal when their parts are. *)
LEMMA EqualTrees ==
    ASSUME NEW x \in Trees, NEW y \in Trees, x.name = y.name, x.version = y.version, x.writes = y.writes
    PROVE  x = y
<1>1. ASSUME NEW A, NEW B, NEW C, NEW u \in [name : A, version : B, writes : C],
             NEW w \in [name : A, version : B, writes : C],
             u.name = w.name, u.version = w.version, u.writes = w.writes
      PROVE  u = w
  BY <1>1
<1>. QED  BY <1>1, Zenon DEF Trees

(* Pairs applied one after the other are applied together. *)
LEMMA ApplyTwice ==
    ASSUME NEW t \in Trees, NEW p \in Seq(Nat), NEW q \in Seq(Nat)
    PROVE  Apply(Apply(t, p), q) = Apply(t, p \o q)
<1>. DEFINE v == t.version + 1
            a == [i \in 1..Len(p) |-> <<v, p[i]>>]
            b == [i \in 1..Len(q) |-> <<v, q[i]>>]
            c == [i \in 1..Len(p \o q) |-> <<v, (p \o q)[i]>>]
            l == Apply(Apply(t, p), q)
            r == Apply(t, p \o q)
<1>1. p \o q \in Seq(Nat)
  OBVIOUS
<1>2. /\ Apply(t, p) \in Trees /\ Apply(t, p).name = t.name /\ Apply(t, p).version = t.version
      /\ Apply(t, p).writes = t.writes \o a
  BY ApplyType, Zenon
<1>3. /\ l \in Trees /\ l.name = t.name /\ l.version = t.version /\ l.writes = Apply(t, p).writes \o b
  <2>1. /\ l \in Trees /\ l.name = Apply(t, p).name /\ l.version = Apply(t, p).version
        /\ l.writes = Apply(t, p).writes \o [i \in 1..Len(q) |-> <<Apply(t, p).version + 1, q[i]>>]
    BY <1>2, ApplyType, Zenon
  <2>. QED  BY <1>2, <2>1
<1>4. r \in Trees /\ r.name = t.name /\ r.version = t.version /\ r.writes = t.writes \o c
  BY <1>1, ApplyType, Zenon
<1>5. v \in Nat /\ t.writes \in Seq(Nat \X Nat)
  BY DEF Trees
<1>. HIDE DEF v, l, r
<1>6. a \in Seq(Nat \X Nat) /\ Len(a) = Len(p) /\ b \in Seq(Nat \X Nat) /\ Len(b) = Len(q)
  <2>1. a \in [1..Len(p) -> Nat \X Nat] /\ b \in [1..Len(q) -> Nat \X Nat] /\ Len(p) \in Nat /\ Len(q) \in Nat
    BY <1>5
  <2>. HIDE DEF a, b
  <2>. QED  BY <2>1, FunctionSeq, Zenon
<1>7. a \o b = c
  <2>1. Len(p \o q) = Len(p) + Len(q) /\ Len(p) \in Nat /\ Len(q) \in Nat
    OBVIOUS
  <2>2. a \o b \in [1..(Len(p) + Len(q)) -> Nat \X Nat]
    <3>. DEFINE W == Nat \X Nat
    <3>1. a \in Seq(W) /\ b \in Seq(W)
      BY <1>6
    <3>. HIDE DEF a, b, W
    <3>2. a \o b \in Seq(W) /\ Len(a \o b) = Len(p) + Len(q)
      <4>1. a \o b \in Seq(W) /\ Len(a \o b) = Len(a) + Len(b)
        BY <3>1, ConcatProperties, Zenon
      <4>. QED  BY <4>1, <1>6, Zenon
    <3>3. ASSUME NEW s \in Seq(W) PROVE s \in [1..Len(s) -> W]
      OBVIOUS
    <3>4. a \o b \in [1..Len(a \o b) -> W]
      BY <3>2, <3>3, Zenon
    <3>. QED  BY <3>2, <3>4, Zenon DEF W
  <2>3. ASSUME NEW i \in 1..(Len(p) + Len(q)) PROVE (a \o b)[i] = <<v, (p \o q)[i]>>
    <3>1. CASE i <= Len(p)
      <4>1. (a \o b)[i] = a[i] /\ (p \o q)[i] = p[i] /\ i \in 1..Len(p)
        <5>. HIDE DEF a, b
        <5>. QED  BY <3>1, <1>6, <2>1
      <4>. QED  BY <4>1
    <3>2. CASE ~(i <= Len(p))
      <4>1. (a \o b)[i] = b[i - Len(p)] /\ (p \o q)[i] = q[i - Len(p)] /\ i - Len(p) \in 1..Len(q)
        <5>. HIDE DEF a, b
        <5>. QED  BY <3>2, <1>6, <2>1
      <4>. QED  BY <4>1
    <3>. QED  BY <3>1, <3>2
  <2>4. a \o b = [i \in 1..(Len(p) + Len(q)) |-> (a \o b)[i]]
    <3>. HIDE DEF a, b
    <3>. QED  BY <2>2, Zenon
  <2>. QED  BY <2>1, <2>3, <2>4, Zenon
<1>. HIDE DEF a, b, c
<1>8. l.writes = r.writes
  <2>. DEFINE W == Nat \X Nat
  <2>1. t.writes \in Seq(W) /\ a \in Seq(W) /\ b \in Seq(W)
    BY <1>5, <1>6
  <2>. HIDE DEF W
  <2>2. (t.writes \o a) \o b = t.writes \o (a \o b)
    <3>1. PICK x \in Seq(W) : x = t.writes
      BY <2>1, Zenon
    <3>2. PICK y \in Seq(W) : y = a
      BY <2>1, Zenon
    <3>3. PICK z \in Seq(W) : z = b
      BY <2>1, Zenon
    <3>4. (x \o y) \o z = x \o (y \o z)
      OBVIOUS
    <3>. QED  BY <3>1, <3>2, <3>3, <3>4, Zenon
  <2>. QED  BY <1>2, <1>3, <1>4, <1>7, <2>2, Zenon
<1>9. l = r
  BY <1>3, <1>4, <1>8, EqualTrees, Zenon
<1>. QED  BY <1>9 DEF l, r

(* The pairs of a store are those of its one change set. *)
LEMMA PairsOfStore ==
    ASSUME NEW css \in Seq(NamedChangeSets)
    PROVE  /\ \A name : PairsOf(css, name) \in Seq(Nat)
           /\ \A name : (\A k \in DOMAIN css : css[k].name # name) => PairsOf(css, name) = <<>>
           /\ Distinct(css) => \A k \in DOMAIN css : PairsOf(css, css[k].name) = css[k].pairs
<1>1. \A k \in DOMAIN css : css[k] \in NamedChangeSets
  OBVIOUS
<1>2. \A k \in DOMAIN css : css[k].pairs \in Seq(Nat)
  BY <1>1 DEF NamedChangeSets
<1>3. <<>> \in Seq(Nat)
  OBVIOUS
<1>4. ASSUME NEW name PROVE PairsOf(css, name) \in Seq(Nat)
  <2>1. CASE \E k \in DOMAIN css : css[k].name = name
    <3>1. (CHOOSE k \in DOMAIN css : css[k].name = name) \in DOMAIN css
      BY <2>1, Zenon
    <3>. QED  BY <1>2, <2>1, <3>1, Zenon DEF PairsOf
  <2>2. CASE ~(\E k \in DOMAIN css : css[k].name = name)
    BY <1>3, <2>2, Zenon DEF PairsOf
  <2>. QED  BY <2>1, <2>2
<1>5. ASSUME NEW name, \A k \in DOMAIN css : css[k].name # name PROVE PairsOf(css, name) = <<>>
  BY <1>5, Zenon DEF PairsOf
<1>6. ASSUME Distinct(css), NEW k \in DOMAIN css
      PROVE  PairsOf(css, css[k].name) = css[k].pairs
  <2>. DEFINE c == CHOOSE j \in DOMAIN css : css[j].name = css[k].name
  <2>1. c \in DOMAIN css /\ css[c].name = css[k].name
    BY Zenon
  <2>2. PairsOf(css, css[k].name) = css[c].pairs
    BY Zenon DEF PairsOf
  <2>3. c = k
    BY <1>6, <2>1, Zenon DEF Distinct
  <2>. QED  BY <2>2, <2>3, Zenon
<1>. QED  BY <1>4, <1>5, <1>6, Zenon

(* The trees with the pairs applied: what changes and what does not. *)
LEMMA WithPairsType ==
    ASSUME NEW mt \in MultiTrees, NEW css \in Seq(NamedChangeSets), NEW m, m = WithPairs(mt, css)
    PROVE  /\ m \in MultiTrees /\ m.info = mt.info /\ m.initialVersion = mt.initialVersion
           /\ m.trees \in Seq(Trees) /\ Len(m.trees) = Len(mt.trees)
           /\ \A i \in 1..Len(mt.trees) :
                /\ m.trees[i] = Apply(mt.trees[i], PairsOf(css, mt.trees[i].name))
                /\ m.trees[i].name = mt.trees[i].name /\ m.trees[i].version = mt.trees[i].version
           /\ TreeNames(m) = TreeNames(mt)
           /\ UniqueNames(mt) => UniqueNames(m)
           /\ InStep(mt) => InStep(m)
<1>. DEFINE n == Len(mt.trees)
            ts == [i \in 1..n |-> Apply(mt.trees[i], PairsOf(css, mt.trees[i].name))]
<1>1. mt.trees \in Seq(Trees) /\ n \in Nat /\ DOMAIN mt.trees = 1..n
  BY DEF MultiTrees
<1>2. m = [mt EXCEPT !.trees = ts]
  BY <1>1, Zenon DEF WithPairs
<1>3. ASSUME NEW i \in 1..n
      PROVE  ts[i] \in Trees /\ ts[i].name = mt.trees[i].name /\ ts[i].version = mt.trees[i].version
  <2>1. mt.trees[i] \in Trees /\ PairsOf(css, mt.trees[i].name) \in Seq(Nat)
    BY <1>1, PairsOfStore
  <2>. QED  BY <2>1, ApplyType
<1>4. ts \in Seq(Trees) /\ Len(ts) = n /\ DOMAIN ts = 1..n
  <2>1. ts \in [1..n -> Trees]
    BY <1>3, Zenon
  <2>. HIDE DEF ts
  <2>. QED  BY <1>1, <2>1, FunctionSeq, Zenon
<1>5. \A i \in 1..n : ts[i] = Apply(mt.trees[i], PairsOf(css, mt.trees[i].name))
  OBVIOUS
<1>. HIDE DEF ts
<1>6. m \in MultiTrees /\ m.info = mt.info /\ m.initialVersion = mt.initialVersion /\ m.trees = ts
  BY <1>2, <1>4 DEF MultiTrees
<1>7. TreeNames(m) = TreeNames(mt)
  BY <1>1, <1>3, <1>4, <1>6, Zenon DEF TreeNames
<1>8. UniqueNames(mt) => UniqueNames(m)
  BY <1>1, <1>3, <1>4, <1>6 DEF UniqueNames
<1>9. InStep(mt) => InStep(m)
  BY <1>1, <1>3, <1>4, <1>6 DEF InStep, Version
<1>. QED  BY <1>3, <1>4, <1>5, <1>6, <1>7, <1>8, <1>9

(* the multi tree with pairs applied to tree i *)
ChangeAt(mt, i, pairs) == [mt EXCEPT !.trees[i] = Apply(@, pairs)]

(* A change set names a tree, or is an error. *)
LEMMA ChangeSetCases ==
    ASSUME NEW r \in Results, NEW cs \in NamedChangeSets
    PROVE  LET i == IndexOf(r.mt, cs.name)
           IN \/ r.err /\ ApplyChangeSet(r, cs) = r
              \/ ~r.err /\ i = 0 /\ ApplyChangeSet(r, cs) = Failed(r.mt)
              \/ ~r.err /\ i # 0 /\ ApplyChangeSet(r, cs) = Done(ChangeAt(r.mt, i, cs.pairs))
BY DEF ApplyChangeSet, Then, ChangeAt

(* the results at a version, with the trees in step and of different names *)
Steady(info, iv) == {r \in AtVersion(info, iv) : UniqueNames(r.mt)}

(* A change set, applied to one tree of several. *)
LEMMA ChangeSetAt ==
    ASSUME NEW mt \in MultiTrees, NEW i \in 1..Len(mt.trees), NEW p \in Seq(Nat),
           NEW m, m = ChangeAt(mt, i, p)
    PROVE  /\ m \in MultiTrees /\ m.info = mt.info /\ m.initialVersion = mt.initialVersion
           /\ m.trees \in Seq(Trees) /\ Len(m.trees) = Len(mt.trees)
           /\ m.trees[i] = Apply(mt.trees[i], p)
           /\ \A j \in 1..Len(mt.trees) : j # i => m.trees[j] = mt.trees[j]
<1>. DEFINE t == Apply(mt.trees[i], p)
            ts == [mt.trees EXCEPT ![i] = t]
<1>1. mt.trees \in Seq(Trees) /\ mt.trees[i] \in Trees
  BY DEF MultiTrees
<1>2. t \in Trees
  BY <1>1, ApplyType
<1>3. m = [mt EXCEPT !.trees = ts]
  BY Zenon DEF ChangeAt
<1>. HIDE DEF t
<1>4. /\ ts \in Seq(Trees) /\ Len(ts) = Len(mt.trees) /\ ts[i] = t
      /\ \A j \in 1..Len(mt.trees) : j # i => ts[j] = mt.trees[j]
  BY <1>1, <1>2, ExceptAt
<1>. HIDE DEF ts
<1>5. m \in MultiTrees /\ m.info = mt.info /\ m.initialVersion = mt.initialVersion /\ m.trees = ts
  BY <1>3, <1>4 DEF MultiTrees
<1>. QED  BY <1>4, <1>5 DEF t

(* One change set keeps the version and the names. *)
LEMMA ChangeSetSteady ==
    ASSUME NEW info, NEW iv, NEW r \in Steady(info, iv), NEW cs \in NamedChangeSets
    PROVE  ApplyChangeSet(r, cs) \in Steady(info, iv)
<1>. DEFINE mt == r.mt
            i == IndexOf(mt, cs.name)
            m == ChangeAt(mt, i, cs.pairs)
<1>1. /\ r \in Results /\ mt \in MultiTrees /\ mt.info = info /\ mt.initialVersion = iv
      /\ InStep(mt) /\ UniqueNames(mt) /\ mt.trees \in Seq(Trees) /\ DOMAIN mt.trees = 1..Len(mt.trees)
  BY DEF Steady, AtVersion, Results, MultiTrees
<1>2. cs.pairs \in Seq(Nat) /\ (i = 0 \/ i \in 1..Len(mt.trees))
  BY <1>1, IndexOfTree DEF NamedChangeSets
<1>3. CASE r.err
  BY <1>1, <1>3, ChangeSetCases
<1>4. CASE ~r.err /\ i = 0
  <2>1. ApplyChangeSet(r, cs) = Failed(mt)
    BY <1>1, <1>4, ChangeSetCases
  <2>. QED  BY <1>1, <2>1 DEF Steady, AtVersion, Results, Failed
<1>5. CASE ~r.err /\ i # 0
  <2>1. ApplyChangeSet(r, cs) = Done(m)
    BY <1>1, <1>5, ChangeSetCases
  <2>2. /\ m \in MultiTrees /\ m.info = info /\ m.initialVersion = iv
        /\ m.trees \in Seq(Trees) /\ Len(m.trees) = Len(mt.trees)
        /\ m.trees[i] = Apply(mt.trees[i], cs.pairs)
        /\ \A j \in 1..Len(mt.trees) : j # i => m.trees[j] = mt.trees[j]
    <3>. HIDE DEF i, mt
    <3>1. PICK p \in Seq(Nat) : p = cs.pairs
      BY <1>2
    <3>2. m = ChangeAt(mt, i, p) /\ mt \in MultiTrees /\ i \in 1..Len(mt.trees)
      BY <1>1, <1>2, <1>5, <3>1
    <3>. HIDE DEF m
    <3>3. /\ m \in MultiTrees /\ m.info = mt.info /\ m.initialVersion = mt.initialVersion
          /\ m.trees \in Seq(Trees) /\ Len(m.trees) = Len(mt.trees)
          /\ m.trees[i] = Apply(mt.trees[i], p)
          /\ \A j \in 1..Len(mt.trees) : j # i => m.trees[j] = mt.trees[j]
      BY <3>2, ChangeSetAt
    <3>. QED  BY <1>1, <3>1, <3>3
  <2>. HIDE DEF m
  <2>3. \A j \in 1..Len(mt.trees) : m.trees[j].name = mt.trees[j].name /\ m.trees[j].version = mt.trees[j].version
    <3>1. m.trees[i].name = mt.trees[i].name /\ m.trees[i].version = mt.trees[i].version
      <4>1. mt.trees[i] \in Trees
        BY <1>1, <1>2, <1>5
      <4>. QED  BY <4>1, <1>2, <2>2, ApplyType
    <3>. QED  BY <2>2, <3>1
  <2>4. DOMAIN m.trees = 1..Len(mt.trees)
    BY <2>2
  <2>5. InStep(m) /\ UniqueNames(m)
    BY <1>1, <2>2, <2>3, <2>4 DEF InStep, UniqueNames, Version
  <2>. QED  BY <2>1, <2>2, <2>5 DEF Steady, AtVersion, Results, Done
<1>. QED  BY <1>3, <1>4, <1>5

(* The pairs of every store, when a change set is added to the log. *)
LEMMA PairsAdded ==
    ASSUME NEW a \in Seq(NamedChangeSets), NEW b \in Seq(NamedChangeSets), NEW cs \in NamedChangeSets,
           Distinct(a), Distinct(b), Range(b) = Range(a) \cup {cs}, cs.name \notin NamesOf(a)
    PROVE  Adds(a, cs, b)
<1>1. PairsOf(a, cs.name) = <<>>
  BY PairsOfStore, Zenon DEF NamesOf
<1>2. PICK k \in DOMAIN b : b[k] = cs
  BY Zenon DEF Range
<1>3. PairsOf(b, cs.name) = cs.pairs
  BY <1>2, PairsOfStore
<1>4. cs.pairs \in Seq(Nat)
  BY DEF NamedChangeSets
<1>5. ASSUME NEW name, name # cs.name PROVE PairsOf(b, name) = PairsOf(a, name)
  <2>1. CASE \E j \in DOMAIN a : a[j].name = name
    <3>1. PICK j \in DOMAIN a : a[j].name = name
      BY <2>1
    <3>2. PICK l \in DOMAIN b : b[l] = a[j]
      BY Zenon DEF Range
    <3>3. PairsOf(a, a[j].name) = a[j].pairs /\ PairsOf(b, b[l].name) = b[l].pairs
      BY PairsOfStore
    <3>. QED  BY <3>1, <3>2, <3>3
  <2>2. CASE ~(\E j \in DOMAIN a : a[j].name = name)
    <3>1. \A l \in DOMAIN b : b[l].name # name
      BY <1>5, <2>2, Zenon DEF Range
    <3>2. PairsOf(b, name) = <<>>
      BY <3>1, PairsOfStore
    <3>3. PairsOf(a, name) = <<>>
      BY <2>2, PairsOfStore, Zenon
    <3>. QED  BY <3>2, <3>3
  <2>. QED  BY <2>1, <2>2
<1>6. <<>> \o cs.pairs = cs.pairs
  BY <1>4
<1>. QED  BY <1>1, <1>3, <1>5, <1>6 DEF Adds

(* Multi trees are equal when their parts are. *)
LEMMA EqualMultiTrees ==
    ASSUME NEW x \in MultiTrees, NEW y \in MultiTrees, x.info = y.info, x.initialVersion = y.initialVersion,
           Len(x.trees) = Len(y.trees), \A i \in 1..Len(x.trees) : x.trees[i] = y.trees[i]
    PROVE  x = y
<1>1. ASSUME NEW A, NEW B, NEW C, NEW u \in [initialVersion : A, trees : B, info : C],
             NEW w \in [initialVersion : A, trees : B, info : C],
             u.initialVersion = w.initialVersion, u.trees = w.trees, u.info = w.info
      PROVE  u = w
  BY <1>1
<1>2. x.trees \in Seq(Trees) /\ y.trees \in Seq(Trees)
  BY DEF MultiTrees
<1>3. x.trees = y.trees
  BY <1>2
<1>. QED  BY <1>1, <1>3, Zenon DEF MultiTrees

(* One more change set of a block, and the pairs it adds. *)
LEMMA ChangeSetAdded ==
    ASSUME NEW mt \in MultiTrees, UniqueNames(mt), NEW cs \in NamedChangeSets, cs.name \in TreeNames(mt),
           NEW a \in Seq(NamedChangeSets), NEW b \in Seq(NamedChangeSets), Adds(a, cs, b)
    PROVE  ApplyChangeSet(Done(WithPairs(mt, a)), cs) = Done(WithPairs(mt, b))
<1>. DEFINE x == WithPairs(mt, a)
            y == WithPairs(mt, b)
            i == IndexOf(x, cs.name)
            z == ChangeAt(x, i, cs.pairs)
            n == Len(mt.trees)
<1>1. /\ x \in MultiTrees /\ x.info = mt.info /\ x.initialVersion = mt.initialVersion
      /\ x.trees \in Seq(Trees) /\ Len(x.trees) = n /\ TreeNames(x) = TreeNames(mt)
      /\ \A j \in 1..n : x.trees[j] = Apply(mt.trees[j], PairsOf(a, mt.trees[j].name)) /\ x.trees[j].name = mt.trees[j].name
  BY WithPairsType
<1>2. /\ y \in MultiTrees /\ y.info = mt.info /\ y.initialVersion = mt.initialVersion
      /\ y.trees \in Seq(Trees) /\ Len(y.trees) = n
      /\ \A j \in 1..n : y.trees[j] = Apply(mt.trees[j], PairsOf(b, mt.trees[j].name))
  BY WithPairsType
<1>. HIDE DEF x, y
<1>3. i \in 1..n /\ x.trees[i].name = cs.name /\ i # 0
  <2>1. cs.name \in TreeNames(x)
    BY <1>1
  <2>2. i \in 1..Len(x.trees) /\ x.trees[i].name = cs.name
    BY <1>1, <2>1, IndexOfTree, Zenon
  <2>. QED  BY <1>1, <2>2
<1>4. cs.pairs \in Seq(Nat) /\ mt.trees \in Seq(Trees) /\ DOMAIN mt.trees = 1..n
  BY DEF NamedChangeSets, MultiTrees
<1>5. ApplyChangeSet(Done(x), cs) = Done(z)
  <2>1. Done(x) \in Results /\ Done(x).mt = x /\ ~Done(x).err
    BY <1>1 DEF Results, Done
  <2>. QED  BY <2>1, <1>3, ChangeSetCases
<1>. HIDE DEF i
<1>6. /\ z \in MultiTrees /\ z.info = mt.info /\ z.initialVersion = mt.initialVersion
      /\ z.trees \in Seq(Trees) /\ Len(z.trees) = n /\ z.trees[i] = Apply(x.trees[i], cs.pairs)
      /\ \A j \in 1..n : j # i => z.trees[j] = x.trees[j]
  <2>1. i \in 1..Len(x.trees)
    BY <1>1, <1>3
  <2>3. z = ChangeAt(x, i, cs.pairs)
    OBVIOUS
  <2>. HIDE DEF z
  <2>2. /\ z \in MultiTrees /\ z.info = x.info /\ z.initialVersion = x.initialVersion
        /\ z.trees \in Seq(Trees) /\ Len(z.trees) = Len(x.trees) /\ z.trees[i] = Apply(x.trees[i], cs.pairs)
        /\ \A j \in 1..Len(x.trees) : j # i => z.trees[j] = x.trees[j]
    <3>1. PICK p \in Seq(Nat) : p = cs.pairs
      BY <1>4
    <3>2. z = ChangeAt(x, i, p) /\ x \in MultiTrees
      BY <1>1, <2>3, <3>1
    <3>3. /\ z \in MultiTrees /\ z.info = x.info /\ z.initialVersion = x.initialVersion
          /\ z.trees \in Seq(Trees) /\ Len(z.trees) = Len(x.trees) /\ z.trees[i] = Apply(x.trees[i], p)
          /\ \A j \in 1..Len(x.trees) : j # i => z.trees[j] = x.trees[j]
      BY <2>1, <3>2, ChangeSetAt
    <3>. QED  BY <3>1, <3>3
  <2>. QED  BY <1>1, <2>2
<1>. HIDE DEF z
<1>7. ASSUME NEW j \in 1..n PROVE z.trees[j] = y.trees[j]
  <2>1. mt.trees[j] \in Trees /\ PairsOf(a, mt.trees[j].name) \in Seq(Nat)
    BY <1>4, PairsOfStore
  <2>2. CASE j = i
    <3>1. mt.trees[j].name = cs.name
      BY <1>1, <1>3, <2>2
    <3>2. Apply(Apply(mt.trees[j], PairsOf(a, cs.name)), cs.pairs) = Apply(mt.trees[j], PairsOf(a, cs.name) \o cs.pairs)
      BY <1>4, <2>1, <3>1, ApplyTwice
    <3>. QED  BY <1>1, <1>2, <1>6, <2>2, <3>1, <3>2, ZenonT(40) DEF Adds
  <2>3. CASE j # i
    <3>1. mt.trees[j].name # cs.name
      BY <1>1, <1>3, <1>4, <2>3, Zenon DEF UniqueNames
    <3>2. PairsOf(b, mt.trees[j].name) = PairsOf(a, mt.trees[j].name)
      BY <3>1, Zenon DEF Adds
    <3>. QED  BY <1>1, <1>2, <1>6, <2>3, <3>2, Zenon
  <2>. QED  BY <2>2, <2>3
<1>8. z = y
  BY <1>2, <1>6, <1>7, EqualMultiTrees
<1>. QED  BY <1>5, <1>8 DEF x, y

(* Change sets without pairs change nothing. *)
LEMMA NoPairs ==
    ASSUME NEW mt \in MultiTrees, NEW css \in Seq(NamedChangeSets), \A k \in DOMAIN css : css[k].pairs = <<>>
    PROVE  WithPairs(mt, css) = mt
<1>. DEFINE m == WithPairs(mt, css)
            n == Len(mt.trees)
<1>1. /\ m \in MultiTrees /\ m.info = mt.info /\ m.initialVersion = mt.initialVersion
      /\ m.trees \in Seq(Trees) /\ Len(m.trees) = n
      /\ \A j \in 1..n : m.trees[j] = Apply(mt.trees[j], PairsOf(css, mt.trees[j].name))
  BY WithPairsType
<1>. HIDE DEF m
<1>2. ASSUME NEW name PROVE PairsOf(css, name) = <<>>
  <2>1. CASE \E k \in DOMAIN css : css[k].name = name
    <3>1. (CHOOSE k \in DOMAIN css : css[k].name = name) \in DOMAIN css
      BY <2>1, Zenon
    <3>. QED  BY <2>1, <3>1, Zenon DEF PairsOf
  <2>2. CASE ~(\E k \in DOMAIN css : css[k].name = name)
    BY <2>2, Zenon DEF PairsOf
  <2>. QED  BY <2>1, <2>2
<1>3. ASSUME NEW j \in 1..n PROVE m.trees[j] = mt.trees[j]
  <2>1. mt.trees[j] \in Trees /\ <<>> \in Seq(Nat)
    BY DEF MultiTrees
  <2>2. Apply(mt.trees[j], <<>>) = mt.trees[j]
    BY <2>1, ApplyType, Zenon
  <2>. QED  BY <1>1, <1>2, <2>2
<1>. QED  BY <1>1, <1>3, EqualMultiTrees DEF m

(* ApplyChangeSets, which applies the change sets of a block one after the *)
(* other, gives every tree the pairs of its store.                         *)
THEOREM ChangeSetsApplied ==
    ASSUME NEW mt \in MultiTrees, InStep(mt), UniqueNames(mt), NEW css, Logged(mt, css)
    PROVE  ApplyChangeSets(mt, css) = Done(WithPairs(mt, css))
<1>. DEFINE n == Len(css)
            S == Steady(mt.info, mt.initialVersion)
<1>1. css \in Seq(NamedChangeSets) /\ n \in Nat /\ DOMAIN css = 1..n
  BY DEF Logged
<1>2. Done(mt) \in S
  BY DEF Steady, AtVersion, Done, Results
<1>3. \A r \in S, k \in 1..Len(css) : ApplyChangeSet(r, css[k]) \in S
  BY <1>1, ChangeSetSteady
<1>. HIDE DEF S
<1>4. PICK run \in [0..n -> S] : /\ run[0] = Done(mt)
                                 /\ \A k \in 1..n : run[k] = ApplyChangeSet(run[k - 1], css[k])
                                 /\ ApplyChangeSets(mt, css) = run[n]
  BY <1>1, <1>2, <1>3, ChangeSetLoop
<1>. DEFINE P == {k \in 0..n : run[k] = Done(WithPairs(mt, SubSeq(css, 1, k)))}
<1>5. 0 \in P
  <2>1. SubSeq(css, 1, 0) \in Seq(NamedChangeSets) /\ DOMAIN SubSeq(css, 1, 0) = {}
    BY <1>1
  <2>2. WithPairs(mt, SubSeq(css, 1, 0)) = mt
    BY <2>1, NoPairs
  <2>. QED  BY <1>1, <1>4, <2>2
<1>6. ASSUME NEW k \in 1..n, k - 1 \in P PROVE k \in P
  <2>. DEFINE a == SubSeq(css, 1, k - 1)
              b == SubSeq(css, 1, k)
              cs == css[k]
  <2>1. /\ a \in Seq(NamedChangeSets) /\ DOMAIN a = 1..(k-1) /\ \A i \in 1..(k-1) : a[i] = css[i]
        /\ b \in Seq(NamedChangeSets) /\ DOMAIN b = 1..k /\ \A i \in 1..k : b[i] = css[i]
    BY <1>1
  <2>2. cs \in NamedChangeSets /\ cs.name \in TreeNames(mt)
    BY <1>1 DEF Logged
  <2>. HIDE DEF a, b
  <2>3. Distinct(a) /\ Distinct(b) /\ cs.name \notin NamesOf(a)
    <3>1. \A i, j \in 1..n : css[i].name = css[j].name => i = j
      BY <1>1 DEF Logged, Distinct
    <3>2. 1..(k-1) \subseteq 1..n /\ 1..k \subseteq 1..n /\ k \in 1..n /\ k \notin 1..(k-1)
      BY <1>1
    <3>. HIDE DEF n
    <3>. QED  BY <2>1, <3>1, <3>2 DEF Distinct, NamesOf
  <2>4. Range(b) = Range(a) \cup {cs}
    BY <2>1, SMTT(30) DEF Range
  <2>. HIDE DEF cs
  <2>5. Adds(a, cs, b)
    BY <2>1, <2>2, <2>3, <2>4, PairsAdded, Zenon
  <2>6. ApplyChangeSet(Done(WithPairs(mt, a)), cs) = Done(WithPairs(mt, b))
    BY <2>1, <2>2, <2>5, ChangeSetAdded, Zenon
  <2>7. run[k - 1] = Done(WithPairs(mt, a)) /\ run[k] = ApplyChangeSet(run[k - 1], cs)
    BY <1>4, <1>6 DEF a, cs
  <2>8. run[k] = Done(WithPairs(mt, SubSeq(css, 1, k)))
    BY <2>6, <2>7 DEF b
  <2>. QED  BY <1>1, <2>8
<1>7. run[n] = Done(WithPairs(mt, SubSeq(css, 1, n)))
  <2>1. 0..n \subseteq P
    <3>. HIDE DEF P, n
    <3>. QED  BY <1>1, <1>5, <1>6, InductionUpTo, Zenon
  <2>. QED  BY <1>1, <2>1
<1>8. SubSeq(css, 1, n) = css
  BY <1>1
<1>. QED  BY <1>4, <1>7, <1>8, Zenon

-----------------------------------------------------------------------------
(* Commits. *)

(* buildCommitInfo lists the trees. *)
LEMMA CommitInfoType ==
    ASSUME NEW mt \in MultiTrees, NEW v \in Nat, NEW info, info = buildCommitInfo(mt, v)
    PROVE  /\ info \in CommitInfos /\ info.version = v
           /\ Len(info.stores) = Len(mt.trees) /\ DOMAIN info.stores = 1..Len(mt.trees)
           /\ \A i \in 1..Len(mt.trees) : info.stores[i] = [name |-> mt.trees[i].name, version |-> mt.trees[i].version,
                                                             hash |-> mt.trees[i].writes]
<1>. DEFINE n == Len(mt.trees)
            ss == [i \in 1..n |-> [name |-> mt.trees[i].name, version |-> mt.trees[i].version, hash |-> mt.trees[i].writes]]
<1>1. mt.trees \in Seq(Trees) /\ n \in Nat /\ DOMAIN mt.trees = 1..n
  BY DEF MultiTrees
<1>2. info = [version |-> v, stores |-> ss]
  BY <1>1 DEF buildCommitInfo, RootHash
<1>3. ss \in [1..n -> StoreInfos]
  <2>1. \A i \in 1..n : mt.trees[i] \in Trees
    BY <1>1
  <2>. QED  BY <2>1 DEF Trees, StoreInfos
<1>4. \A i \in 1..n : ss[i] = [name |-> mt.trees[i].name, version |-> mt.trees[i].version, hash |-> mt.trees[i].writes]
  OBVIOUS
<1>. HIDE DEF ss
<1>5. ss \in Seq(StoreInfos) /\ Len(ss) = n /\ DOMAIN ss = 1..n
  BY <1>1, <1>3, FunctionSeq
<1>. QED  BY <1>2, <1>4, <1>5 DEF CommitInfos

(* What SaveVersion does. *)
LEMMA Saved ==
    ASSUME NEW mt \in MultiTrees, NEW flag \in BOOLEAN, NEW s, s = SaveVersion(mt, flag)
    PROVE  /\ s \in MultiTrees /\ s.initialVersion = mt.initialVersion
           /\ Version(s) = nextVersion(Version(mt), mt.initialVersion) /\ Version(s) \in Nat \ {0}
           /\ Len(s.trees) = Len(mt.trees)
           /\ \A i \in 1..Len(mt.trees) : s.trees[i] = SaveTreeVersion(mt.trees[i])
           /\ flag => s.info = buildCommitInfo(s, Version(s))
           /\ ~flag => s.info.stores = <<>>
           /\ UniqueNames(mt) => UniqueNames(s)
           /\ InStep(mt) => InStep(s)
<1>. DEFINE n == Len(mt.trees)
            v == nextVersion(Version(mt), mt.initialVersion)
            ts == [i \in 1..n |-> SaveTreeVersion(mt.trees[i])]
            next == [mt EXCEPT !.info.version = v, !.trees = ts]
            info == [version |-> v, stores |-> mt.info.stores]
<1>1. /\ mt.trees \in Seq(Trees) /\ n \in Nat /\ DOMAIN mt.trees = 1..n /\ mt.info \in CommitInfos
      /\ mt.initialVersion \in Nat
  BY DEF MultiTrees
<1>2. v \in Nat \ {0}
  BY <1>1, NextVersionType, Zenon DEF Version, CommitInfos
<1>3. \A i \in 1..n : mt.trees[i] \in Trees
  BY <1>1
<1>4. \A i \in 1..n : /\ ts[i] \in Trees /\ ts[i].name = mt.trees[i].name /\ ts[i].version = mt.trees[i].version + 1
                      /\ ts[i] = SaveTreeVersion(mt.trees[i])
  <2>1. ASSUME NEW t \in Trees
        PROVE  /\ SaveTreeVersion(t) \in Trees /\ SaveTreeVersion(t).name = t.name
               /\ SaveTreeVersion(t).version = t.version + 1
    BY DEF Trees, SaveTreeVersion
  <2>2. \A i \in 1..n : ts[i] = SaveTreeVersion(mt.trees[i])
    OBVIOUS
  <2>. HIDE DEF ts
  <2>. QED  BY <1>3, <2>1, <2>2
<1>5. ts \in Seq(Trees) /\ Len(ts) = n /\ DOMAIN ts = 1..n
  <2>1. ts \in [1..n -> Trees]
    BY <1>4, Zenon
  <2>. HIDE DEF ts
  <2>. QED  BY <1>1, <2>1, FunctionSeq
<1>6. s = [next EXCEPT !.info = IF flag THEN buildCommitInfo(next, @.version) ELSE [@ EXCEPT !.stores = <<>>]]
  <2>1. [i \in DOMAIN mt.trees |-> SaveTreeVersion(mt.trees[i])] = ts
    BY <1>1
  <2>2. nextVersion(mt.info.version, mt.initialVersion) = v
    BY DEF Version
  <2>. DEFINE m == [mt EXCEPT !.info.version = nextVersion(@, mt.initialVersion),
                              !.trees = [i \in DOMAIN @ |-> SaveTreeVersion(@[i])]]
  <2>3. m = next
    <3>. HIDE DEF ts, v
    <3>. QED  BY <2>1, <2>2, Zenon
  <2>4. SaveVersion(mt, flag) = [m EXCEPT !.info = IF flag THEN buildCommitInfo(m, @.version)
                                                   ELSE [@ EXCEPT !.stores = <<>>]]
    BY Zenon DEF SaveVersion
  <2>. HIDE DEF m, next
  <2>. QED  BY <2>3, <2>4
<1>. HIDE DEF ts, v
<1>7. /\ next \in MultiTrees /\ next.trees = ts /\ next.initialVersion = mt.initialVersion
      /\ next.info.version = v /\ next.info \in CommitInfos
  BY <1>1, <1>2, <1>5, Zenon DEF MultiTrees, CommitInfos
<1>. HIDE DEF next
<1>8. /\ s.trees = ts /\ s.initialVersion = mt.initialVersion
      /\ s.info = IF flag THEN buildCommitInfo(next, v) ELSE [next.info EXCEPT !.stores = <<>>]
  BY <1>6, <1>7 DEF MultiTrees
<1>9. s.info \in CommitInfos /\ s.info.version = v /\ (~flag => s.info.stores = <<>>)
  <2>1. CASE flag
    BY <1>2, <1>7, <1>8, <2>1, CommitInfoType
  <2>2. CASE ~flag
    <3>1. <<>> \in Seq(StoreInfos)
      OBVIOUS
    <3>. QED  BY <1>7, <1>8, <2>2, <3>1, Zenon DEF CommitInfos
  <2>. QED  BY <2>1, <2>2
<1>10. s \in MultiTrees
  BY <1>1, <1>5, <1>6, <1>7, <1>9, Zenon DEF MultiTrees
<1>11. flag => s.info = buildCommitInfo(s, Version(s))
  BY <1>7, <1>8, <1>9, ZenonT(40) DEF buildCommitInfo, Version
<1>12. UniqueNames(mt) => UniqueNames(s)
  BY <1>1, <1>4, <1>5, <1>8 DEF UniqueNames
<1>13. InStep(mt) => InStep(s)
  <2>1. nextVersion(v, s.initialVersion) = v + 1
    BY <1>2 DEF nextVersion
  <2>. QED  BY <1>1, <1>3, <1>4, <1>5, <1>8, <1>9, <2>1 DEF InStep, Version, v
<1>. QED  BY <1>2, <1>4, <1>5, <1>8, <1>9, <1>10, <1>11, <1>12, <1>13 DEF v, Version

(* Change sets keep the version and the names, whatever they name. *)
LEMMA ChangeSetsSteady ==
    ASSUME NEW mt \in MultiTrees, InStep(mt), UniqueNames(mt), NEW css \in Seq(NamedChangeSets)
    PROVE  ApplyChangeSets(mt, css) \in Steady(mt.info, mt.initialVersion)
<1>. DEFINE S == Steady(mt.info, mt.initialVersion)
<1>1. Done(mt) \in S
  BY DEF Steady, AtVersion, Done, Results
<1>2. \A r \in S, k \in 1..Len(css) : ApplyChangeSet(r, css[k]) \in S
  BY ChangeSetSteady
<1>. HIDE DEF S
<1>3. PICK run \in [0..Len(css) -> S] : ApplyChangeSets(mt, css) = run[Len(css)]
  BY <1>1, <1>2, ChangeSetLoop
<1>. QED  BY <1>3 DEF S

(* the results of a replay *)
Replays(iv) ==
    {r \in Results : /\ r.mt.initialVersion = iv /\ InStep(r.mt) /\ (~r.err => UniqueNames(r.mt))
                     /\ Version(r.mt) = 0 \/ Version(r.mt) + 1 >= iv}

(* The replay of one entry. *)
LEMMA EntryReplayed ==
    ASSUME NEW iv \in Nat, NEW r \in Replays(iv), NEW e \in WALEntries, NEW q, q = replayEntry(r, e)
    PROVE  /\ q \in Replays(iv)
           /\ ~q.err => ~r.err /\ nextIndex(q.mt) = nextIndex(r.mt) + 1 /\ Version(q.mt) > 0
<1>. DEFINE mt == r.mt
            u == ApplyUpgrades(mt, e.upgrades)
            a == applyWALEntry(mt, e)
            s == SaveVersion(a.mt, FALSE)
<1>1. /\ r \in Results /\ r.err \in BOOLEAN /\ mt \in MultiTrees /\ InStep(mt) /\ mt.initialVersion = iv
      /\ (~r.err => UniqueNames(mt)) /\ (Version(mt) = 0 \/ Version(mt) + 1 >= iv)
      /\ e.upgrades \in Seq(TreeNameUpgrades) /\ e.changesets \in Seq(NamedChangeSets)
  BY DEF Replays, Results, WALEntries
<1>2. q = IF r.err THEN r ELSE IF a.err THEN a ELSE Done(s)
  BY Zenon DEF replayEntry, Then
<1>3. a = IF u.err THEN u ELSE ApplyChangeSets(u.mt, e.changesets)
  BY Zenon DEF applyWALEntry, Then
<1>4. /\ u \in AtVersion(mt.info, mt.initialVersion)
      /\ e.upgrades = <<>> => u = Done(mt)
      /\ e.upgrades # <<>> /\ ~u.err => UniqueNames(u.mt)
  BY <1>1, UpgradesInStep
<1>5. /\ u \in Results /\ u.err \in BOOLEAN /\ u.mt \in MultiTrees /\ InStep(u.mt)
      /\ u.mt.info = mt.info /\ u.mt.initialVersion = iv
  BY <1>1, <1>4 DEF AtVersion, Results
<1>6. ~r.err /\ ~u.err => UniqueNames(u.mt)
  <2>1. CASE e.upgrades = <<>>
    <3>1. u.mt = mt
      BY <1>4, <2>1 DEF Done
    <3>. QED  BY <3>1, <1>1
  <2>2. CASE e.upgrades # <<>>
    BY <1>4, <2>2
  <2>. QED  BY <2>1, <2>2
<1>. HIDE DEF u
<1>7. ASSUME ~r.err
      PROVE  /\ a \in Results /\ a.err \in BOOLEAN /\ a.mt \in MultiTrees /\ InStep(a.mt)
             /\ a.mt.info = mt.info /\ a.mt.initialVersion = iv /\ (~a.err => UniqueNames(a.mt))
  <2>1. CASE u.err
    BY <1>3, <1>5, <2>1, Zenon
  <2>2. CASE ~u.err
    <3>1. a \in Steady(u.mt.info, u.mt.initialVersion)
      BY <1>1, <1>3, <1>5, <1>6, <1>7, <2>2, ChangeSetsSteady
    <3>. QED  BY <3>1, <1>5 DEF Steady, AtVersion, Results
  <2>. QED  BY <2>1, <2>2, <1>5
<1>. HIDE DEF a
<1>8. CASE r.err
  BY <1>1, <1>2, <1>8
<1>9. CASE ~r.err /\ a.err
  <2>1. q = a
    BY <1>2, <1>9
  <2>2. Version(a.mt) = Version(mt)
    BY <1>7, <1>9 DEF Version
  <2>3. a \in Replays(iv)
    BY <1>1, <1>7, <1>9, <2>2 DEF Replays
  <2>. QED  BY <1>9, <2>1, <2>3
<1>10. CASE ~r.err /\ ~a.err
  <2>1. q = Done(s) /\ q.mt = s /\ ~q.err
    BY <1>2, <1>10 DEF Done
  <2>2. /\ s \in MultiTrees /\ s.initialVersion = iv /\ InStep(s) /\ UniqueNames(s)
        /\ Version(s) = nextVersion(Version(mt), iv) /\ Version(s) \in Nat \ {0}
    <3>1. /\ s \in MultiTrees /\ s.initialVersion = a.mt.initialVersion
          /\ Version(s) = nextVersion(Version(a.mt), a.mt.initialVersion) /\ Version(s) \in Nat \ {0}
          /\ (UniqueNames(a.mt) => UniqueNames(s)) /\ (InStep(a.mt) => InStep(s))
      <4>. DEFINE m == a.mt
      <4>1. m \in MultiTrees /\ FALSE \in BOOLEAN
        BY <1>7, <1>10
      <4>. HIDE DEF m
      <4>2. s = SaveVersion(m, FALSE)
        BY DEF m
      <4>. HIDE DEF s
      <4>. QED  BY <4>1, <4>2, Saved, Zenon DEF m
    <3>2. Version(a.mt) = Version(mt)
      BY <1>7, <1>10 DEF Version
    <3>. QED  BY <1>7, <1>10, <3>1, <3>2, Zenon
  <2>. HIDE DEF s
  <2>3. Version(mt) \in Nat
    BY <1>1 DEF Version, MultiTrees, CommitInfos
  <2>4. /\ Version(s) + 1 >= iv
        /\ nextIndex(s) = nextIndex(mt) + 1
    BY <1>1, <2>2, <2>3 DEF nextVersion, nextIndex
  <2>5. Done(s) \in Replays(iv)
    BY <2>2, <2>4 DEF Replays, Results, Done
  <2>. QED  BY <1>10, <2>1, <2>2, <2>4, <2>5
<1>. QED  BY <1>1, <1>8, <1>9, <1>10

(* Indexes are numbers below WORD. *)
LEMMA WordPositive == WORD \in Nat \ {0}
BY SMT DEF WORD

(* An index below WORD does not wrap around. *)
LEMMA SmallIndex ==
    ASSUME NEW i \in 0..(WORD - 1)
    PROVE  i % WORD = i
<1>1. ASSUME NEW W \in Nat \ {0}, NEW j \in 0..(W - 1) PROVE j % W = j
  BY SMT
<1>. QED  BY <1>1, WordPositive

(* A multi tree that a log can be replayed on. *)
LEMMA SoundReplays ==
    ASSUME NEW mt, Sound(mt)
    PROVE  /\ mt \in MultiTrees /\ mt.initialVersion \in Nat /\ Version(mt) \in Nat
           /\ Done(mt) \in Replays(mt.initialVersion)
           /\ nextIndex(mt) \in 1..(WORD - 1)
           /\ walIndex(nextVersion(Version(mt), mt.initialVersion), mt.initialVersion) = nextIndex(mt)
<1>1. mt \in MultiTrees /\ mt.initialVersion \in Nat /\ Version(mt) \in Nat
  BY DEF Sound, MultiTrees, Version, CommitInfos
<1>2. Done(mt) \in Replays(mt.initialVersion)
  BY <1>1 DEF Sound, Replays, Results, Done
<1>3. nextIndex(mt) \in 1..(WORD - 1)
  BY <1>1, WordPositive DEF Sound, nextIndex, nextVersion
<1>4. walIndex(nextVersion(Version(mt), mt.initialVersion), mt.initialVersion) = nextIndex(mt)
  BY <1>1, <1>3, SmallIndex DEF walIndex, nextIndex
<1>. QED  BY <1>1, <1>2, <1>3, <1>4, SMTT(30)

(* the rounds of a replay *)
IsReplay(run, mt, log) ==
    /\ run \in [0..Len(log) -> Replays(mt.initialVersion)]
    /\ run[0] = Done(mt)
    /\ \A k \in 1..Len(log) : run[k] = replayEntry(run[k - 1], log[k])
    /\ replayAll(mt, log) = run[Len(log)]

(* A replay, round by round. *)
LEMMA ReplayRounds ==
    ASSUME NEW mt, Sound(mt), NEW log \in Seq(WALEntries)
    PROVE  \E run : IsReplay(run, mt, log)
<1>. DEFINE S == Replays(mt.initialVersion)
<1>1. mt.initialVersion \in Nat /\ Done(mt) \in S
  BY SoundReplays
<1>2. \A r \in S, k \in 1..Len(log) : replayEntry(r, log[k]) \in S
  BY <1>1, EntryReplayed
<1>. HIDE DEF S
<1>3. PICK run \in [0..Len(log) -> S] : /\ run[0] = Done(mt)
                                        /\ \A k \in 1..Len(log) : run[k] = replayEntry(run[k - 1], log[k])
                                        /\ replayAll(mt, log) = run[Len(log)]
  BY <1>1, <1>2, ReplayLoop
<1>4. IsReplay(run, mt, log)
  BY <1>3 DEF IsReplay, S
<1>. QED  BY <1>4, Zenon

(* Every entry that was replayed is one version. *)
LEMMA LogReplayed ==
    ASSUME NEW mt, Sound(mt), NEW log \in Seq(WALEntries), NEW r, r = replayAll(mt, log)
    PROVE  /\ r \in Replays(mt.initialVersion)
           /\ log = <<>> => r = Done(mt)
           /\ ~r.err => nextIndex(r.mt) = nextIndex(mt) + Len(log)
           /\ ~r.err /\ log # <<>> => Version(r.mt) > 0
<1>. DEFINE n == Len(log)
            iv == mt.initialVersion
<1>1. iv \in Nat /\ n \in Nat /\ nextIndex(mt) \in Nat
  BY SoundReplays
<1>2. PICK run : IsReplay(run, mt, log)
  BY ReplayRounds
<1>3. /\ run \in [0..n -> Replays(iv)] /\ run[0] = Done(mt) /\ r = run[n]
      /\ \A k \in 1..n : run[k] = replayEntry(run[k - 1], log[k])
  BY <1>2 DEF IsReplay
<1>. HIDE DEF n, iv
<1>. DEFINE Q(k) == ~run[k].err => nextIndex(run[k].mt) = nextIndex(mt) + k /\ (k > 0 => Version(run[k].mt) > 0)
            P == {k \in 0..n : Q(k)}
<1>4. Q(0)
  BY <1>1, <1>3 DEF Done
<1>5. ASSUME NEW k \in 1..n, Q(k - 1) PROVE Q(k)
  <2>1. run[k - 1] \in Replays(iv) /\ log[k] \in WALEntries
    BY <1>1, <1>3 DEF n
  <2>2. ~run[k].err => /\ ~run[k - 1].err /\ nextIndex(run[k].mt) = nextIndex(run[k - 1].mt) + 1
                       /\ Version(run[k].mt) > 0
    BY <1>1, <1>3, <2>1, EntryReplayed
  <2>. QED  BY <1>1, <1>5, <2>2
<1>. HIDE DEF Q
<1>6. 0 \in P /\ \A k \in 1..n : k - 1 \in P => k \in P
  BY <1>1, <1>4, <1>5
<1>7. 0..n \subseteq P
  <2>. HIDE DEF P
  <2>. QED  BY <1>1, <1>6, InductionUpTo, Zenon
<1>8. Q(n) /\ r \in Replays(iv)
  BY <1>1, <1>3, <1>7
<1>9. log = <<>> => n = 0
  BY DEF n
<1>10. log # <<>> => n > 0
  BY DEF n
<1>. QED  BY <1>3, <1>8, <1>9, <1>10 DEF Q, n, iv

(* One more entry is one more round. *)
LEMMA ReplayAppend ==
    ASSUME NEW mt, Sound(mt), NEW log \in Seq(WALEntries), NEW e \in WALEntries
    PROVE  replayAll(mt, Append(log, e)) = replayEntry(replayAll(mt, log), e)
<1>. DEFINE n == Len(log)
            longer == Append(log, e)
<1>1. n \in Nat /\ longer \in Seq(WALEntries) /\ Len(longer) = n + 1 /\ longer[n + 1] = e
      /\ \A k \in 1..n : longer[k] = log[k]
  OBVIOUS
<1>. HIDE DEF longer
<1>2. PICK p : IsReplay(p, mt, log)
  BY ReplayRounds
<1>3. PICK q : IsReplay(q, mt, longer)
  BY <1>1, ReplayRounds
<1>4. /\ p[0] = Done(mt) /\ replayAll(mt, log) = p[n]
      /\ \A k \in 1..n : p[k] = replayEntry(p[k - 1], log[k])
  BY <1>2 DEF IsReplay
<1>5. /\ q[0] = Done(mt) /\ replayAll(mt, longer) = q[n + 1]
      /\ \A k \in 1..(n + 1) : q[k] = replayEntry(q[k - 1], longer[k])
  BY <1>1, <1>3 DEF IsReplay
<1>. HIDE DEF n
<1>. DEFINE P == {k \in 0..n : q[k] = p[k]}
<1>6. 0 \in P
  BY <1>1, <1>4, <1>5, SMTT(30)
<1>7. ASSUME NEW k \in 1..n, k - 1 \in P PROVE k \in P
  <2>1. q[k] = replayEntry(q[k - 1], longer[k]) /\ q[k - 1] = p[k - 1] /\ longer[k] = log[k] /\ k \in 0..n
    BY <1>1, <1>5, <1>7
  <2>. QED  BY <1>4, <2>1
<1>8. q[n] = p[n]
  <2>1. 0..n \subseteq P
    <3>. HIDE DEF P
    <3>. QED  BY <1>1, <1>6, <1>7, InductionUpTo, ZenonT(40)
  <2>. QED  BY <1>1, <2>1
<1>9. q[n + 1] = replayEntry(q[n], e)
  BY <1>1, <1>5
<1>. QED  BY <1>4, <1>5, <1>8, <1>9 DEF longer

-----------------------------------------------------------------------------
(* catchupWAL. *)

(* Min of two numbers. *)
LEMMA MinOfTwo ==
    ASSUME NEW a \in Nat, NEW b \in Nat
    PROVE  Min({a, b}) = IF a <= b THEN a ELSE b
<1>1. {a, b} \in SUBSET Nat /\ {a, b} # {}
  OBVIOUS
<1>2. Min({a, b}) \in {a, b} /\ \A x \in {a, b} : Min({a, b}) <= x
  BY <1>1, LeastNat, Zenon
<1>. QED  BY <1>2

(* An index is a number. *)
LEMMA WalIndexType ==
    ASSUME NEW v \in Nat, NEW iv \in Nat
    PROVE  walIndex(v, iv) \in Nat
<1>1. ASSUME NEW W \in Nat \ {0}, NEW j \in Int PROVE j % W \in Nat
  BY SMT
<1>2. (v - iv + 1) % WORD \in Nat
  BY <1>1, WordPositive
<1>. QED  BY <1>2 DEF walIndex

(* the commit info that catchupWAL rebuilds at the end *)
Built(r) == IF r.err THEN r ELSE Done([r.mt EXCEPT !.info = buildCommitInfo(r.mt, @.version)])

(* The three cases of catchupWAL. *)
LEMMA Caught ==
    ASSUME NEW mt, Sound(mt), NEW log \in Seq(WALEntries), NEW endVersion \in Nat,
           NEW end, end = IF endVersion = 0 THEN Len(log) ELSE walIndex(endVersion, mt.initialVersion)
    PROVE  /\ end \in Nat
           /\ nextIndex(mt) > Len(log) => catchupWAL(mt, log, endVersion) = Done(mt)
           /\ nextIndex(mt) <= Len(log) /\ end < nextIndex(mt) => catchupWAL(mt, log, endVersion) = Failed(mt)
           /\ nextIndex(mt) <= Len(log) /\ nextIndex(mt) <= end /\ end <= Len(log)
                => catchupWAL(mt, log, endVersion) = Built(replayAll(mt, SubSeq(log, nextIndex(mt), end)))
           /\ nextIndex(mt) <= Len(log) /\ nextIndex(mt) <= end /\ Len(log) < end
                => catchupWAL(mt, log, endVersion) = Built(replayAll(mt, SubSeq(log, nextIndex(mt), Len(log))))
<1>. DEFINE first == nextIndex(mt)
            c == catchupWAL(mt, log, endVersion)
            r == replayAll(mt, SubSeq(log, first, Min({end, Len(log)})))
<1>1. /\ first \in Nat /\ Len(log) \in Nat /\ mt.initialVersion \in Nat
      /\ walIndex(nextVersion(Version(mt), mt.initialVersion), mt.initialVersion) = first
  BY SoundReplays, WordPositive
<1>2. end \in Nat
  BY <1>1, WalIndexType, Zenon
<1>3. c = IF first > Len(log) THEN Done(mt)
          ELSE IF end < first THEN Failed(mt)
          ELSE IF r.err THEN r ELSE Done([r.mt EXCEPT !.info = buildCommitInfo(r.mt, @.version)])
  BY <1>1, Zenon DEF catchupWAL, Then, replayAll
<1>. HIDE DEF first
<1>4. Min({end, Len(log)}) = IF end <= Len(log) THEN end ELSE Len(log)
  BY <1>1, <1>2, MinOfTwo, Zenon
<1>5. ~(first > Len(log)) /\ ~(end < first) => c = Built(r)
  BY <1>3, Zenon DEF Built
<1>6. first > Len(log) => c = Done(mt)
  BY <1>3, Zenon
<1>7. ~(first > Len(log)) /\ end < first => c = Failed(mt)
  BY <1>3, Zenon
<1>. HIDE DEF c
<1>8. end <= Len(log) => r = replayAll(mt, SubSeq(log, first, end))
  BY <1>4, Zenon
<1>9. Len(log) < end => r = replayAll(mt, SubSeq(log, first, Len(log)))
  <2>1. Len(log) < end => Min({end, Len(log)}) = Len(log)
    BY <1>1, <1>2, <1>4
  <2>. QED  BY <2>1, Zenon
<1>. HIDE DEF r
<1>. QED  BY <1>1, <1>2, <1>5, <1>6, <1>7, <1>8, <1>9, SMTT(30) DEF first, c

(* The commit info rebuilt at the end of a replay. *)
LEMMA BuiltReplay ==
    ASSUME NEW iv \in Nat, NEW r \in Replays(iv), NEW b, b = Built(r)
    PROVE  /\ b \in Replays(iv) /\ b.err = r.err
           /\ r.err => b = r
           /\ ~r.err => /\ b = Done(b.mt) /\ b.mt.trees = r.mt.trees /\ Version(b.mt) = Version(r.mt)
                        /\ nextIndex(b.mt) = nextIndex(r.mt)
                        /\ b.mt.info = buildCommitInfo(b.mt, Version(b.mt))
<1>1. CASE r.err
  BY <1>1, Zenon DEF Built
<1>2. CASE ~r.err
  <2>. DEFINE info == buildCommitInfo(r.mt, r.mt.info.version)
              m == [r.mt EXCEPT !.info = info]
  <2>1. /\ r.mt \in MultiTrees /\ InStep(r.mt) /\ UniqueNames(r.mt) /\ r.mt.initialVersion = iv
        /\ Version(r.mt) = 0 \/ Version(r.mt) + 1 >= iv
        /\ r.mt.info.version \in Nat /\ r.err = FALSE
    BY <1>2 DEF Replays, Results, MultiTrees, CommitInfos
  <2>2. info \in CommitInfos /\ info.version = r.mt.info.version
    BY <2>1, CommitInfoType
  <2>3. b = Done(m)
    BY <1>2 DEF Built
  <2>. HIDE DEF info
  <2>4. m \in MultiTrees /\ m.info = info /\ m.trees = r.mt.trees /\ m.initialVersion = iv
    BY <2>1, <2>2, SMTT(30) DEF MultiTrees
  <2>. HIDE DEF m
  <2>5. InStep(m) /\ UniqueNames(m) /\ Version(m) = Version(r.mt) /\ nextIndex(m) = nextIndex(r.mt)
    BY <2>1, <2>2, <2>4 DEF InStep, UniqueNames, Version, nextIndex
  <2>6. m.info = buildCommitInfo(m, Version(m))
    BY <2>2, <2>4, <2>5, Zenon DEF info, buildCommitInfo, Version
  <2>7. Done(m) \in Replays(iv)
    BY <2>1, <2>4, <2>5 DEF Replays, Results, Done
  <2>8. b.mt = m /\ b.err = FALSE
    BY <2>3 DEF Done
  <2>. QED  BY <1>2, <2>1, <2>3, <2>4, <2>5, <2>6, <2>7, <2>8, Zenon
<1>. QED  BY <1>1, <1>2

(* A replay that fails. *)
LEMMA FailedReplay ==
    ASSUME NEW mt, Sound(mt)
    PROVE  Failed(mt) \in Replays(mt.initialVersion)
BY DEF Sound, Replays, Results, Failed

(* A replay to any version keeps the trees in step. *)
LEMMA CatchupType ==
    ASSUME NEW mt, Sound(mt), NEW log \in Seq(WALEntries), NEW endVersion \in Nat
    PROVE  catchupWAL(mt, log, endVersion) \in Replays(mt.initialVersion)
<1>. DEFINE iv == mt.initialVersion
            end == IF endVersion = 0 THEN Len(log) ELSE walIndex(endVersion, mt.initialVersion)
            first == nextIndex(mt)
<1>1. Done(mt) \in Replays(iv) /\ Failed(mt) \in Replays(iv) /\ first \in Nat \ {0} /\ iv \in Nat /\ Len(log) \in Nat
  BY SoundReplays, FailedReplay, WordPositive
<1>2. ASSUME NEW n \in Nat, n <= Len(log) PROVE Built(replayAll(mt, SubSeq(log, first, n))) \in Replays(iv)
  <2>1. SubSeq(log, first, n) \in Seq(WALEntries)
    BY <1>1, <1>2
  <2>2. replayAll(mt, SubSeq(log, first, n)) \in Replays(iv)
    BY <2>1, LogReplayed, Zenon
  <2>. QED  BY <1>1, <2>2, BuiltReplay
<1>. HIDE DEF end
<1>3. end \in Nat
  BY Caught DEF end
<1>4. \/ catchupWAL(mt, log, endVersion) = Done(mt)
      \/ catchupWAL(mt, log, endVersion) = Failed(mt)
      \/ \E n \in Nat : n <= Len(log) /\ catchupWAL(mt, log, endVersion) = Built(replayAll(mt, SubSeq(log, first, n)))
  <2>1. CASE first > Len(log)
    BY <2>1, Caught DEF end
  <2>2. CASE first <= Len(log) /\ end < first
    BY <2>2, Caught DEF end
  <2>3. CASE first <= Len(log) /\ first <= end /\ end <= Len(log)
    BY <2>3, <1>3, Caught DEF end
  <2>4. CASE first <= Len(log) /\ first <= end /\ Len(log) < end
    BY <2>4, <1>1, Caught DEF end
  <2>. QED  BY <1>1, <1>3, <2>1, <2>2, <2>3, <2>4
<1>. QED  BY <1>1, <1>2, <1>4

(* A replay to the end of the log gives the version of its last entry. *)
LEMMA CatchupLatest ==
    ASSUME NEW mt, Sound(mt), NEW log \in Seq(WALEntries), nextIndex(mt) \in 1..(Len(log) + 1),
           NEW r, r = catchupWAL(mt, log, 0)
    PROVE  /\ r \in Replays(mt.initialVersion)
           /\ ~r.err => nextIndex(r.mt) = Len(log) + 1
           /\ nextIndex(mt) = Len(log) + 1 => r = Done(mt)
           /\ ~r.err /\ nextIndex(mt) <= Len(log) => Version(r.mt) > 0 /\ r.mt.info = buildCommitInfo(r.mt, Version(r.mt))
<1>. DEFINE first == nextIndex(mt)
            seg == SubSeq(log, first, Len(log))
            p == replayAll(mt, seg)
<1>1. r \in Replays(mt.initialVersion) /\ mt.initialVersion \in Nat /\ Len(log) \in Nat
  BY CatchupType, SoundReplays
<1>2. CASE first = Len(log) + 1
  <2>1. r = Done(mt)
    BY <1>1, <1>2, Caught
  <2>. QED  BY <1>1, <1>2, <2>1 DEF Done
<1>3. CASE first <= Len(log)
  <2>1. r = Built(p)
    BY <1>1, <1>3, Caught
  <2>2. seg \in Seq(WALEntries) /\ Len(seg) = Len(log) - first + 1 /\ seg # <<>>
    <3>1. ASSUME NEW i \in 1..Len(log)
          PROVE  /\ SubSeq(log, i, Len(log)) \in Seq(WALEntries) /\ SubSeq(log, i, Len(log)) # <<>>
                 /\ Len(SubSeq(log, i, Len(log))) = Len(log) - i + 1
      <4>1. /\ SubSeq(log, i, Len(log)) \in Seq(WALEntries)
            /\ Len(SubSeq(log, i, Len(log))) = Len(log) - i + 1 /\ Len(log) - i + 1 > 0
        OBVIOUS
      <4>. HIDE DEF seg
      <4>2. ASSUME NEW s \in Seq(WALEntries), Len(s) > 0 PROVE s # <<>>
        BY <4>2
      <4>. QED  BY <4>1, <4>2, Zenon
    <3>2. first \in 1..Len(log)
      BY <1>3
    <3>. QED  BY <3>1, <3>2, Zenon
  <2>. HIDE DEF seg
  <2>3. /\ p \in Replays(mt.initialVersion)
        /\ ~p.err => nextIndex(p.mt) = first + Len(seg) /\ Version(p.mt) > 0
    BY <2>2, LogReplayed
  <2>. HIDE DEF p
  <2>4. r.err = p.err /\ (~p.err => /\ Version(r.mt) = Version(p.mt) /\ nextIndex(r.mt) = nextIndex(p.mt)
                                    /\ r.mt.info = buildCommitInfo(r.mt, Version(r.mt)))
    BY <1>1, <2>1, <2>3, BuiltReplay
  <2>. QED  BY <1>1, <1>3, <2>2, <2>3, <2>4, SMTT(30)
<1>. QED  BY <1>1, <1>2, <1>3

(* catchupWAL of a log cut off after a version, as by a rollback, gives    *)
(* what catchupWAL of the whole log with that version as target gives.     *)
THEOREM CatchupPrefix ==
    ASSUME NEW mt, Sound(mt), NEW log \in Seq(WALEntries), NEW endVersion \in Nat \ {0},
           NEW end \in 1..Len(log), end = walIndex(endVersion, mt.initialVersion), nextIndex(mt) <= end
    PROVE  catchupWAL(mt, SubSeq(log, 1, end), 0) = catchupWAL(mt, log, endVersion)
<1>. DEFINE first == nextIndex(mt)
            prefix == SubSeq(log, 1, end)
<1>1. first \in Nat \ {0} /\ Len(log) \in Nat
  BY SoundReplays, WordPositive
<1>2. prefix \in Seq(WALEntries) /\ Len(prefix) = end
  OBVIOUS
<1>3. SubSeq(prefix, first, end) = SubSeq(log, first, end)
  <2>1. ASSUME NEW i \in 1..end PROVE SubSeq(SubSeq(log, 1, end), i, end) = SubSeq(log, i, end)
    OBVIOUS
  <2>2. first \in 1..end
    BY <1>1
  <2>. QED  BY <2>1, <2>2, Zenon
<1>. HIDE DEF prefix
<1>4. catchupWAL(mt, log, endVersion) = Built(replayAll(mt, SubSeq(log, first, end)))
  BY <1>1, Caught
<1>5. catchupWAL(mt, prefix, 0) = Built(replayAll(mt, SubSeq(prefix, first, end)))
  BY <1>1, <1>2, Caught
<1>. QED  BY <1>3, <1>4, <1>5, Zenon DEF prefix

(* Trees in step with a version, at that version. *)
LEMMA RestepSame ==
    ASSUME NEW mt \in MultiTrees, InStep(mt), NEW info \in CommitInfos, info.version = Version(mt)
    PROVE  Restep(mt, info, mt.initialVersion) = [mt EXCEPT !.info = info]
<1>. DEFINE m == Restep(mt, info, mt.initialVersion)
            q == [mt EXCEPT !.info = info]
            v == NewWithInitialVersion(nextVersion(info.version, mt.initialVersion))
<1>1. mt.trees \in Seq(Trees) /\ DOMAIN mt.trees = 1..Len(mt.trees) /\ mt.initialVersion \in Nat /\ info.version \in Nat
  BY DEF MultiTrees, CommitInfos
<1>2. q \in MultiTrees /\ q.info = info /\ q.trees = mt.trees /\ q.initialVersion = mt.initialVersion
  BY DEF MultiTrees
<1>3. m \in MultiTrees /\ m.info = info /\ m.initialVersion = mt.initialVersion /\ Len(m.trees) = Len(mt.trees)
  BY <1>1, RestepType, RestepInStep
<1>4. v \in Nat /\ v + 1 = nextVersion(Version(mt), mt.initialVersion)
  BY <1>1, NextVersionType, Zenon
<1>. HIDE DEF v
<1>5. \A i \in 1..Len(mt.trees) : m.trees[i] = [mt.trees[i] EXCEPT !.version = v]
  BY <1>1 DEF Restep, v
<1>. HIDE DEF m, q
<1>6. ASSUME NEW i \in 1..Len(mt.trees) PROVE m.trees[i] = mt.trees[i]
  <2>1. mt.trees[i] \in Trees
    BY <1>1
  <2>2. mt.trees[i].version = v
    <3>1. mt.trees[i].version \in Nat
      BY <2>1 DEF Trees
    <3>. QED  BY <1>1, <1>4, <3>1 DEF InStep
  <2>. QED  BY <1>5, <2>1, <2>2 DEF Trees
<1>7. m = q
  BY <1>2, <1>3, <1>6, EqualMultiTrees
<1>. QED  BY <1>7 DEF m, q

(* The commit info does not matter to what the next version is made of. *)
LEMMA SavedInfo ==
    ASSUME NEW mt \in MultiTrees, NEW m \in MultiTrees, m.trees = mt.trees, Version(m) = Version(mt),
           m.initialVersion = mt.initialVersion
    PROVE  Done(SaveVersion(mt, TRUE)) = Built(Done(SaveVersion(m, FALSE)))
<1>. DEFINE s == SaveVersion(mt, TRUE)
            q == SaveVersion(m, FALSE)
            p == [q EXCEPT !.info = buildCommitInfo(q, @.version)]
<1>1. /\ s \in MultiTrees /\ s.initialVersion = mt.initialVersion
      /\ Version(s) = nextVersion(Version(mt), mt.initialVersion)
      /\ Len(s.trees) = Len(mt.trees) /\ \A i \in 1..Len(mt.trees) : s.trees[i] = SaveTreeVersion(mt.trees[i])
      /\ s.info = buildCommitInfo(s, Version(s))
  BY Saved, ZenonT(40)
<1>2. /\ q \in MultiTrees /\ q.initialVersion = mt.initialVersion
      /\ Version(q) = nextVersion(Version(mt), mt.initialVersion)
      /\ Len(q.trees) = Len(mt.trees) /\ \A i \in 1..Len(mt.trees) : q.trees[i] = SaveTreeVersion(mt.trees[i])
  <2>1. /\ q \in MultiTrees /\ q.initialVersion = m.initialVersion
        /\ Version(q) = nextVersion(Version(m), m.initialVersion)
        /\ Len(q.trees) = Len(m.trees) /\ \A i \in 1..Len(m.trees) : q.trees[i] = SaveTreeVersion(m.trees[i])
    <3>1. PICK flag \in BOOLEAN : flag = FALSE
      BY Zenon
    <3>2. q = SaveVersion(m, flag)
      BY <3>1, Zenon
    <3>. HIDE DEF q
    <3>. QED  BY <3>2, Saved
  <2>. HIDE DEF q
  <2>. QED  BY <2>1
<1>3. Built(Done(q)) = Done(p)
  BY DEF Built, Done
<1>. HIDE DEF s, q
<1>4. s.trees = q.trees
  <2>1. s.trees \in Seq(Trees) /\ q.trees \in Seq(Trees)
    BY <1>1, <1>2 DEF MultiTrees
  <2>. QED  BY <1>1, <1>2, <2>1
<1>5. p.trees = q.trees /\ p.initialVersion = q.initialVersion /\ p.info = buildCommitInfo(q, q.info.version)
  BY <1>2 DEF MultiTrees
<1>6. p.info = s.info
  BY <1>1, <1>2, <1>4, <1>5, Zenon DEF buildCommitInfo, Version
<1>7. p \in MultiTrees
  <2>1. s.info \in CommitInfos
    BY <1>1 DEF MultiTrees
  <2>. HIDE DEF p
  <2>2. p = [q EXCEPT !.info = s.info]
    BY <1>5, <1>6 DEF p
  <2>. QED  BY <1>2, <2>1, <2>2 DEF MultiTrees
<1>. HIDE DEF p
<1>8. s = p
  BY <1>1, <1>2, <1>4, <1>5, <1>6, <1>7, EqualMultiTrees
<1>. QED  BY <1>3, <1>8, Zenon DEF s, q

(* block is mt with the upgrades and the change sets of the entry e *)
PendingEntry(mt, e, block) ==
    LET u == ApplyUpgrades(mt, e.upgrades)
    IN ~u.err /\ UniqueNames(u.mt) /\ Logged(u.mt, e.changesets) /\ block = WithPairs(u.mt, e.changesets)

(* mt is a snapshot, log the log so far, e the entry of the next block *)
NextBlock(mt, log, e, block) ==
    /\ Sound(mt) /\ log \in Seq(WALEntries) /\ nextIndex(mt) \in 1..(Len(log) + 1) /\ e \in WALEntries
    /\ \E last : catchupWAL(mt, log, 0) = Done(last) /\ PendingEntry(last, e, block)

(* The entry of a block, appended to the log that gave the trees before    *)
(* the block, replays by catchupWAL to the trees and the commit info that  *)
(* SaveVersion made of the block.                                          *)
THEOREM CommitReplayed ==
    ASSUME NEW mt, NEW log, NEW e, NEW block, NextBlock(mt, log, e, block)
    PROVE  catchupWAL(mt, Append(log, e), 0) = Done(SaveVersion(block, TRUE))
<1>. PICK last : /\ Sound(mt) /\ log \in Seq(WALEntries) /\ nextIndex(mt) \in 1..(Len(log) + 1) /\ e \in WALEntries
                 /\ catchupWAL(mt, log, 0) = Done(last) /\ PendingEntry(last, e, block)
  BY Zenon DEF NextBlock
<1>. PICK l : l = catchupWAL(mt, log, 0) /\ ~l.err /\ l.mt = last
  <2>1. ~Done(last).err /\ Done(last).mt = last
    BY DEF Done
  <2>. QED  BY <2>1, Zenon
<1>. PICK u : /\ u = ApplyUpgrades(l.mt, e.upgrades) /\ ~u.err /\ UniqueNames(u.mt) /\ Logged(u.mt, e.changesets)
              /\ block = WithPairs(u.mt, e.changesets)
  BY Zenon DEF PendingEntry
<1>. DEFINE iv == mt.initialVersion
            n == Len(log)
            first == nextIndex(mt)
            longer == Append(log, e)
            seg == SubSeq(log, first, n)
            p == replayAll(mt, seg)
            w == ApplyUpgrades(p.mt, e.upgrades)
            x == WithPairs(w.mt, e.changesets)
            y == WithPairs(u.mt, e.changesets)
<1>1. /\ iv \in Nat /\ n \in Nat /\ first \in 1..(n + 1)
      /\ e.upgrades \in Seq(TreeNameUpgrades) /\ e.changesets \in Seq(NamedChangeSets)
  BY SoundReplays DEF WALEntries
<1>2. l \in Replays(iv) /\ l.mt \in MultiTrees /\ InStep(l.mt) /\ l.mt.initialVersion = iv
  BY CatchupLatest DEF Replays, Results
<1>3. /\ longer \in Seq(WALEntries) /\ Len(longer) = n + 1 /\ seg \in Seq(WALEntries)
      /\ SubSeq(longer, first, n + 1) = Append(seg, e) /\ (first = n + 1 => seg = <<>>)
  <2>1. ASSUME NEW i \in 1..(n + 1)
        PROVE  /\ SubSeq(log, i, n) \in Seq(WALEntries)
               /\ SubSeq(Append(log, e), i, n + 1) = Append(SubSeq(log, i, n), e)
               /\ i = n + 1 => SubSeq(log, i, n) = <<>>
    OBVIOUS
  <2>2. longer \in Seq(WALEntries) /\ Len(longer) = n + 1
    OBVIOUS
  <2>3. /\ SubSeq(log, first, n) \in Seq(WALEntries)
        /\ SubSeq(Append(log, e), first, n + 1) = Append(SubSeq(log, first, n), e)
        /\ first = n + 1 => SubSeq(log, first, n) = <<>>
    <3>. HIDE DEF first
    <3>. QED  BY <1>1, <2>1, Zenon
  <2>. QED  BY <2>2, <2>3
<1>. HIDE DEF seg, longer
<1>4. catchupWAL(mt, longer, 0) = Built(replayEntry(p, e))
  <2>1. catchupWAL(mt, longer, 0) = Built(replayAll(mt, SubSeq(longer, first, n + 1)))
    BY <1>1, <1>3, Caught, SMTT(30)
  <2>2. replayAll(mt, Append(seg, e)) = replayEntry(p, e)
    BY <1>3, ReplayAppend
  <2>. QED  BY <1>3, <2>1, <2>2, Zenon
<1>5. p \in Replays(iv)
  BY <1>3, LogReplayed, SMTT(30)
<1>6. ~p.err /\ p.mt.trees = l.mt.trees /\ Version(p.mt) = Version(l.mt)
  <2>1. CASE first = n + 1
    <3>1. p = Done(mt)
      BY <1>3, <2>1, LogReplayed, Zenon
    <3>2. l = Done(mt)
      BY <2>1, CatchupLatest
    <3>. QED  BY <3>1, <3>2
  <2>2. CASE first <= n
    <3>1. l = Built(p)
      BY <1>1, <2>2, Caught, SMTT(30) DEF seg
    <3>. HIDE DEF p
    <3>. QED  BY <1>1, <1>5, <3>1, BuiltReplay, SMTT(30)
  <2>. QED  BY <1>1, <2>1, <2>2
<1>. HIDE DEF p
<1>7. p.mt \in MultiTrees /\ InStep(p.mt) /\ p.mt.initialVersion = iv /\ p.mt.info \in CommitInfos /\ p.mt.info.version = Version(l.mt)
  BY <1>5, <1>6 DEF Replays, Results, MultiTrees, Version
<1>8. p.mt = Restep(l.mt, p.mt.info, iv)
  <2>1. Restep(l.mt, p.mt.info, iv) = [l.mt EXCEPT !.info = p.mt.info]
    BY <1>2, <1>7, RestepSame
  <2>. DEFINE q == [l.mt EXCEPT !.info = p.mt.info]
  <2>2. q \in MultiTrees /\ q.info = p.mt.info /\ q.trees = l.mt.trees /\ q.initialVersion = iv
    BY <1>2, <1>7 DEF MultiTrees
  <2>. HIDE DEF q
  <2>3. p.mt = q
    BY <1>6, <1>7, <2>2, EqualMultiTrees, SMTT(30)
  <2>. QED  BY <2>1, <2>3 DEF q
<1>9. /\ u \in Results /\ u.mt \in MultiTrees /\ InStep(u.mt)
      /\ u.mt.info = l.mt.info /\ u.mt.initialVersion = iv
  <2>1. u \in AtVersion(l.mt.info, l.mt.initialVersion)
    BY <1>1, <1>2, UpgradesInStep
  <2>. QED  BY <1>2, <2>1 DEF AtVersion, Results
<1>10. ~w.err /\ w.mt = [u.mt EXCEPT !.info = p.mt.info]
  <2>1. w = RestepResult(u, p.mt.info, iv)
    <3>1. ApplyUpgrades(Restep(l.mt, p.mt.info, iv), e.upgrades) = RestepResult(u, p.mt.info, iv)
      BY <1>1, <1>2, <1>7, RestepUpgrades, SMTT(30)
    <3>. QED  BY <1>8, <3>1, SMTT(30)
  <2>2. Restep(u.mt, p.mt.info, iv) = [u.mt EXCEPT !.info = p.mt.info]
    BY <1>7, <1>9, RestepSame, SMTT(30) DEF Version
  <2>. QED  BY <2>1, <2>2 DEF RestepResult
<1>. HIDE DEF w
<1>11. /\ w.mt \in MultiTrees /\ w.mt.trees = u.mt.trees /\ w.mt.initialVersion = iv
       /\ w.mt.info = p.mt.info /\ InStep(w.mt) /\ UniqueNames(w.mt) /\ Logged(w.mt, e.changesets)
  <2>1. /\ w.mt \in MultiTrees /\ w.mt.trees = u.mt.trees /\ w.mt.initialVersion = iv
        /\ w.mt.info = p.mt.info
    BY <1>7, <1>9, <1>10, Zenon DEF MultiTrees
  <2>2. Version(w.mt) = Version(u.mt)
    BY <1>7, <1>9, <2>1 DEF Version
  <2>3. TreeNames(w.mt) = TreeNames(u.mt)
    BY <2>1 DEF TreeNames
  <2>. QED  BY <1>9, <2>1, <2>2, <2>3 DEF InStep, UniqueNames, Logged
<1>12. replayEntry(p, e) = Done(SaveVersion(x, FALSE))
  <2>1. ApplyChangeSets(w.mt, e.changesets) = Done(x)
    BY <1>11, ChangeSetsApplied
  <2>. HIDE DEF x
  <2>2. applyWALEntry(p.mt, e) = Done(x)
    <3>1. applyWALEntry(p.mt, e) = IF w.err THEN w ELSE ApplyChangeSets(w.mt, e.changesets)
      BY Zenon DEF applyWALEntry, Then, w
    <3>. QED  BY <1>10, <2>1, <3>1
  <2>3. ASSUME NEW m PROVE ~Done(m).err /\ Done(m).mt = m
    BY DEF Done
  <2>4. replayEntry(p, e) = IF p.err THEN p ELSE IF Done(x).err THEN Done(x) ELSE Done(SaveVersion(Done(x).mt, FALSE))
    BY <2>2, ZenonT(40) DEF replayEntry, Then
  <2>. QED  BY <1>6, <2>3, <2>4, ZenonT(40)
<1>. HIDE DEF x, y
<1>13. x \in MultiTrees /\ x.info = p.mt.info /\ x.initialVersion = iv
  <2>1. x = WithPairs(w.mt, e.changesets)
    BY DEF x
  <2>. QED  BY <1>1, <1>11, <2>1, WithPairsType, ZenonT(40)
<1>14. y \in MultiTrees /\ y.info = l.mt.info /\ y.initialVersion = iv
  <2>1. y = WithPairs(u.mt, e.changesets)
    BY DEF y
  <2>2. y \in MultiTrees /\ y.info = u.mt.info /\ y.initialVersion = u.mt.initialVersion
    BY <1>1, <1>9, <2>1, WithPairsType, ZenonT(40)
  <2>. QED  BY <1>9, <2>2, Zenon
<1>15. x.trees = y.trees
  <2>1. ASSUME NEW m \in MultiTrees
        PROVE  WithPairs(m, e.changesets).trees = [i \in DOMAIN m.trees |-> Apply(m.trees[i], PairsOf(e.changesets, m.trees[i].name))]
    BY DEF WithPairs, MultiTrees
  <2>2. x.trees = [i \in DOMAIN w.mt.trees |-> Apply(w.mt.trees[i], PairsOf(e.changesets, w.mt.trees[i].name))]
    BY <1>11, <2>1, Zenon DEF x
  <2>3. y.trees = [i \in DOMAIN u.mt.trees |-> Apply(u.mt.trees[i], PairsOf(e.changesets, u.mt.trees[i].name))]
    BY <1>9, <2>1, Zenon DEF y
  <2>4. w.mt.trees = u.mt.trees
    BY <1>11, SMTT(30)
  <2>. QED  BY <2>2, <2>3, <2>4, SMTT(30)
<1>16. Version(x) = Version(y)
  BY <1>7, <1>13, <1>14, SMTT(30) DEF Version
<1>17. Done(SaveVersion(y, TRUE)) = Built(Done(SaveVersion(x, FALSE)))
  BY <1>13, <1>14, <1>15, <1>16, SavedInfo, Zenon
<1>. QED  BY <1>4, <1>12, <1>17, Zenon DEF longer, y

-----------------------------------------------------------------------------
(* Snapshots, and the pending log. *)

(* NewEmptyMultiTree. *)
LEMMA EmptyTree ==
    ASSUME NEW iv \in Nat
    PROVE  /\ NewEmptyMultiTree(iv) \in MultiTrees
           /\ Version(NewEmptyMultiTree(iv)) = 0 /\ NewEmptyMultiTree(iv).initialVersion = iv
           /\ NewEmptyMultiTree(iv).trees = <<>> /\ NewEmptyMultiTree(iv).info.stores = <<>>
BY DEF NewEmptyMultiTree, MultiTrees, CommitInfos, Version

(* WriteSnapshot writes the whole multi tree. *)
LEMMA SnapshotSame ==
    ASSUME NEW mt \in MultiTrees
    PROVE  WriteSnapshot(mt) = mt
<1>. DEFINE s == WriteSnapshot(mt)
<1>1. s \in MultiTrees /\ s.trees = mt.trees /\ s.info = mt.info /\ s.initialVersion = mt.initialVersion
  BY DEF WriteSnapshot, MultiTrees
<1>. HIDE DEF s
<1>2. s = mt
  BY <1>1, EqualMultiTrees
<1>. QED  BY <1>2 DEF s

(* insertPendingChangeSet, at a place in the log *)
AddedAt(a, idx, cs) == IF idx = 0 THEN Append(a, cs) ELSE InsertAt(a, idx, cs)

(* insertPendingChangeSet: the new change set is somewhere in the log. *)
LEMMA Inserted ==
    ASSUME NEW a \in Seq(NamedChangeSets), NEW cs \in NamedChangeSets, Distinct(a),
           cs.name \notin NamesOf(a), NEW idx \in 0..Len(a), NEW b, b = AddedAt(a, idx, cs)
    PROVE  /\ b \in Seq(NamedChangeSets) /\ b # <<>> /\ Distinct(b) /\ Range(b) = Range(a) \cup {cs}
           /\ NamesOf(b) = NamesOf(a) \cup {cs.name}
<1>. DEFINE n == Len(a)
            p == IF idx = 0 THEN n + 1 ELSE idx
<1>1. /\ b \in Seq(NamedChangeSets) /\ Len(b) = n + 1 /\ b[p] = cs
      /\ \A k \in 1..n : k < p => b[k] = a[k]
      /\ \A k \in 1..n : k >= p => b[k + 1] = a[k]
  <2>1. CASE idx = 0
    BY <2>1 DEF AddedAt
  <2>2. CASE idx # 0
    <3>. DEFINE l == SubSeq(a, 1, idx - 1)
                r == SubSeq(a, idx, n)
    <3>1. l \in Seq(NamedChangeSets) /\ Len(l) = idx - 1 /\ \A k \in 1..(idx - 1) : l[k] = a[k]
      BY <2>2
    <3>2. r \in Seq(NamedChangeSets) /\ Len(r) = n - idx + 1 /\ \A k \in 1..(n - idx + 1) : r[k] = a[idx + k - 1]
      BY <2>2
    <3>3. b = l \o <<cs>> \o r
      BY <2>2 DEF InsertAt, AddedAt
    <3>. HIDE DEF l, r
    <3>4. l \o <<cs>> = Append(l, cs)
      BY <3>1
    <3>5. b = Append(l, cs) \o r
      BY <3>3, <3>4
    <3>6. Append(l, cs) \in Seq(NamedChangeSets) /\ Len(Append(l, cs)) = idx /\ Append(l, cs)[idx] = cs
          /\ \A k \in 1..(idx - 1) : Append(l, cs)[k] = a[k]
      BY <3>1, <2>2
    <3>7. PICK c \in Seq(NamedChangeSets) : c = Append(l, cs)
      BY <3>6, Zenon
    <3>8. b \in Seq(NamedChangeSets) /\ Len(b) = n + 1 /\ (\A k \in 1..idx : b[k] = c[k])
          /\ \A k \in 1..(n - idx + 1) : b[idx + k] = r[k]
      <4>1. /\ c \o r \in Seq(NamedChangeSets) /\ Len(c \o r) = Len(c) + Len(r)
            /\ \A k \in 1..Len(c) : (c \o r)[k] = c[k]
            /\ \A k \in 1..Len(r) : (c \o r)[Len(c) + k] = r[k]
        <5>1. r \in Seq(NamedChangeSets)
          BY <3>2
        <5>. QED  BY <5>1
      <4>2. b = c \o r /\ Len(c) = idx /\ idx + (n - idx + 1) = n + 1
        BY <3>5, <3>6, <3>7
      <4>. QED  BY <3>2, <4>1, <4>2
    <3>9. ASSUME NEW k \in 1..n, k >= idx PROVE b[k + 1] = a[k]
      <4>1. PICK m \in 1..(n - idx + 1) : idx + m = k + 1
        <5>1. k - idx + 1 \in 1..(n - idx + 1) /\ idx + (k - idx + 1) = k + 1
          BY <3>9, <2>2
        <5>. QED  BY <5>1
      <4>2. idx + m - 1 = k
        BY <4>1
      <4>. QED  BY <3>2, <3>8, <4>1, <4>2, Zenon
    <3>10. ASSUME NEW k \in 1..n, k < idx PROVE b[k] = a[k]
      <4>1. k \in 1..(idx - 1) /\ k \in 1..idx
        BY <3>10, <2>2
      <4>. QED  BY <3>6, <3>7, <3>8, <4>1, SMTT(30)
    <3>11. b[idx] = cs
      BY <3>6, <3>7, <3>8, <2>2, SMTT(30)
    <3>. QED  BY <3>8, <3>9, <3>10, <3>11, <2>2
  <2>. QED  BY <2>1, <2>2
<1>2. n \in Nat /\ p \in 1..(n + 1) /\ DOMAIN a = 1..n /\ DOMAIN b = 1..(n + 1)
  BY <1>1
<1>. HIDE DEF n, p
<1>3. ASSUME NEW k \in 1..(n + 1), k # p PROVE \E j \in 1..n : b[k] = a[j] /\ (j = IF k < p THEN k ELSE k - 1)
  <2>1. CASE k < p
    BY <1>1, <1>2, <2>1
  <2>2. CASE k > p
    <3>1. k - 1 \in 1..n /\ k - 1 >= p /\ (k - 1) + 1 = k
      BY <1>2, <2>2
    <3>2. b[k] = a[k - 1]
      BY <1>1, <3>1
    <3>. QED  BY <1>2, <2>2, <3>1, <3>2
  <2>. QED  BY <1>2, <1>3, <2>1, <2>2
<1>4. ASSUME NEW j \in 1..n PROVE \E k \in 1..(n + 1) : b[k] = a[j]
  <2>1. j \in 1..(n + 1) /\ j + 1 \in 1..(n + 1) /\ (j < p \/ j >= p)
    BY <1>2
  <2>. QED  BY <1>1, <2>1
<1>5. Distinct(b)
  <2>. SUFFICES ASSUME NEW j \in 1..(n + 1), NEW k \in 1..(n + 1), b[j].name = b[k].name PROVE j = k
    BY <1>2, Zenon DEF Distinct
  <2>1. CASE j = p /\ k # p
    <3>1. PICK i \in 1..n : b[k] = a[i]
      BY <1>3, <2>1
    <3>2. a[i].name # cs.name /\ b[j] = cs
      BY <1>1, <1>2, <2>1, Zenon DEF NamesOf
    <3>. QED  BY <3>1, <3>2, Zenon
  <2>2. CASE j # p /\ k = p
    <3>1. PICK i \in 1..n : b[j] = a[i]
      BY <1>3, <2>2
    <3>2. a[i].name # cs.name /\ b[k] = cs
      BY <1>1, <1>2, <2>2, Zenon DEF NamesOf
    <3>. QED  BY <3>1, <3>2, Zenon
  <2>3. CASE j # p /\ k # p
    <3>1. PICK i \in 1..n : b[j] = a[i] /\ (i = IF j < p THEN j ELSE j - 1)
      BY <1>3, <2>3
    <3>2. PICK m \in 1..n : b[k] = a[m] /\ (m = IF k < p THEN k ELSE k - 1)
      BY <1>3, <2>3
    <3>3. i = m
      BY <3>1, <3>2, <1>2 DEF Distinct
    <3>. QED  BY <1>2, <2>3, <3>1, <3>2, <3>3
  <2>. QED  BY <2>1, <2>2, <2>3
<1>6. ASSUME NEW k \in 1..(n + 1) PROVE b[k] = cs \/ \E j \in 1..n : b[k] = a[j]
  BY <1>1, <1>3, Zenon
<1>7. Range(b) = Range(a) \cup {cs}
  <2>1. ASSUME NEW k \in 1..(n + 1) PROVE b[k] \in Range(a) \cup {cs}
    BY <1>2, <1>6 DEF Range
  <2>2. ASSUME NEW j \in 1..n PROVE a[j] \in Range(b)
    BY <1>2, <1>4 DEF Range
  <2>3. cs \in Range(b)
    BY <1>1, <1>2 DEF Range
  <2>. QED  BY <1>2, <2>1, <2>2, <2>3 DEF Range
<1>8. NamesOf(b) = NamesOf(a) \cup {cs.name}
  <2>1. ASSUME NEW x \in NamesOf(b) PROVE x \in NamesOf(a) \cup {cs.name}
    <3>1. PICK k \in 1..(n + 1) : x = b[k].name
      BY <1>2 DEF NamesOf
    <3>. QED  BY <1>2, <1>6, <3>1 DEF NamesOf
  <2>2. ASSUME NEW x \in NamesOf(a) PROVE x \in NamesOf(b)
    BY <1>2, <1>4, <2>2, Zenon DEF NamesOf
  <2>3. cs.name \in NamesOf(b)
    BY <1>1, <1>2, ZenonT(40) DEF NamesOf
  <2>. QED  BY <2>1, <2>2, <2>3
<1>. QED  BY <1>1, <1>2, <1>5, <1>7, <1>8, SMTT(30)

(* mergePendingChangeSet: the pairs follow those the store has in the log. *)
LEMMA Merged ==
    ASSUME NEW a \in Seq(NamedChangeSets), NEW cs \in NamedChangeSets, Distinct(a), cs.name \in NamesOf(a),
           NEW b, b = [i \in DOMAIN a |-> IF a[i].name = cs.name THEN [a[i] EXCEPT !.pairs = @ \o cs.pairs] ELSE a[i]]
    PROVE  /\ b \in Seq(NamedChangeSets) /\ b # <<>> /\ Distinct(b) /\ NamesOf(b) = NamesOf(a)
           /\ Adds(a, cs, b)
<1>. DEFINE n == Len(a)
<1>1. n \in Nat /\ DOMAIN a = 1..n /\ DOMAIN b = 1..n
  OBVIOUS
<1>2. ASSUME NEW i \in 1..n
      PROVE  /\ b[i] \in NamedChangeSets /\ b[i].name = a[i].name
             /\ b[i].pairs = IF a[i].name = cs.name THEN a[i].pairs \o cs.pairs ELSE a[i].pairs
  <2>1. b[i] = IF a[i].name = cs.name THEN [a[i] EXCEPT !.pairs = @ \o cs.pairs] ELSE a[i]
    BY <1>1, Zenon
  <2>4. a[i] \in NamedChangeSets
    OBVIOUS
  <2>2. ASSUME NEW c \in NamedChangeSets, NEW e, e = [c EXCEPT !.pairs = @ \o cs.pairs]
        PROVE  e \in NamedChangeSets /\ e.name = c.name /\ e.pairs = c.pairs \o cs.pairs
    <3>1. c.pairs \in Seq(Nat) /\ cs.pairs \in Seq(Nat)
      BY DEF NamedChangeSets
    <3>2. ASSUME NEW p \in Seq(Nat), NEW q \in Seq(Nat) PROVE p \o q \in Seq(Nat)
      OBVIOUS
    <3>3. c.pairs \o cs.pairs \in Seq(Nat)
      BY <3>1, <3>2, Zenon
    <3>. QED  BY <2>2, <3>3, Zenon DEF NamedChangeSets
  <2>5. CASE a[i].name = cs.name
    <3>1. b[i] = [a[i] EXCEPT !.pairs = @ \o cs.pairs]
      BY <2>1, <2>5, Zenon
    <3>. QED  BY <2>2, <2>4, <2>5, <3>1, Zenon
  <2>6. CASE a[i].name # cs.name
    <3>1. b[i] = a[i]
      BY <2>1, <2>6, Zenon
    <3>. QED  BY <2>4, <2>6, <3>1
  <2>. QED  BY <2>5, <2>6, Zenon
<1>3. PICK k \in 1..n : a[k].name = cs.name
  BY <1>1 DEF NamesOf
<1>4. b \in Seq(NamedChangeSets) /\ Len(b) = n
  <2>1. b \in [1..n -> NamedChangeSets]
    BY <1>1, <1>2, Zenon
  <2>. QED  BY <1>1, <2>1, FunctionSeq, Zenon
<1>5. Distinct(b) /\ NamesOf(b) = NamesOf(a) /\ b # <<>>
  <2>1. Distinct(b) /\ NamesOf(b) = NamesOf(a)
    BY <1>1, <1>2 DEF Distinct, NamesOf
  <2>2. Len(b) # 0
    BY <1>3, <1>4
  <2>. QED  BY <2>1, <2>2, Zenon
<1>6. /\ \A j \in 1..n : PairsOf(a, a[j].name) = a[j].pairs /\ PairsOf(b, b[j].name) = b[j].pairs
      /\ \A name : (\A j \in 1..n : a[j].name # name) => PairsOf(a, name) = <<>>
      /\ \A name : (\A j \in 1..n : b[j].name # name) => PairsOf(b, name) = <<>>
  <2>1. /\ \A j \in DOMAIN a : PairsOf(a, a[j].name) = a[j].pairs
        /\ \A name : (\A j \in DOMAIN a : a[j].name # name) => PairsOf(a, name) = <<>>
    BY PairsOfStore
  <2>2. /\ \A j \in DOMAIN b : PairsOf(b, b[j].name) = b[j].pairs
        /\ \A name : (\A j \in DOMAIN b : b[j].name # name) => PairsOf(b, name) = <<>>
    BY <1>4, <1>5, PairsOfStore, Zenon
  <2>. QED  BY <1>1, <2>1, <2>2, Zenon
<1>7. PairsOf(b, cs.name) = PairsOf(a, cs.name) \o cs.pairs
  BY <1>2, <1>3, <1>6, ZenonT(40)
<1>8. ASSUME NEW name, name # cs.name PROVE PairsOf(b, name) = PairsOf(a, name)
  <2>1. CASE \E j \in 1..n : a[j].name = name
    <3>1. PICK j \in 1..n : a[j].name = name
      BY <2>1
    <3>2. b[j].name = name /\ b[j].pairs = a[j].pairs
      BY <1>2, <1>8, <3>1
    <3>. QED  BY <1>6, <3>1, <3>2, ZenonT(40)
  <2>2. CASE \A j \in 1..n : a[j].name # name
    BY <1>2, <1>6, <2>2, ZenonT(40)
  <2>. QED  BY <2>1, <2>2, Zenon
<1>. QED  BY <1>4, <1>5, <1>7, <1>8, Zenon DEF Adds

(* the place insertPendingChangeSet looks for *)
SlotOf(s, cs) == SelectInSeq(s, LAMBDA c : c.name >= cs.name)

(* The place insertPendingChangeSet looks for is in the log, or is none. *)
LEMMA FirstSelected ==
    ASSUME NEW s \in Seq(NamedChangeSets), NEW cs
    PROVE  SlotOf(s, cs) \in 0..Len(s)
<1>. DEFINE I == {k \in 1..Len(s) : s[k].name >= cs.name}
<1>1. SlotOf(s, cs) = IF I # {} THEN Min(I) ELSE 0
  BY Zenon DEF SelectInSeq, SlotOf
<1>2. I \in SUBSET Nat /\ Len(s) \in Nat
  OBVIOUS
<1>3. I # {} => Min(I) \in I
  BY <1>2, LeastNat, Zenon
<1>. QED  BY <1>1, <1>2, <1>3

(* A block whose stores wrote nothing: its change sets have no pairs. *)
LEMMA NothingWritten ==
    ASSUME NEW mt \in MultiTrees, NEW css, Logged(mt, css), NEW m, m = WithPairs(mt, css),
           \A i \in DOMAIN m.trees : m.trees[i].writes = <<>>
    PROVE  \A k \in DOMAIN css : css[k].pairs = <<>>
<1>. SUFFICES ASSUME NEW k \in DOMAIN css PROVE css[k].pairs = <<>>
  BY Zenon
<1>1. css \in Seq(NamedChangeSets) /\ Distinct(css) /\ css[k].name \in TreeNames(mt)
  BY DEF Logged
<1>2. PICK p \in Seq(Nat) : p = css[k].pairs
  <2>1. css[k] \in NamedChangeSets
    BY <1>1
  <2>. QED  BY <2>1 DEF NamedChangeSets
<1>3. mt.trees \in Seq(Trees) /\ DOMAIN mt.trees = 1..Len(mt.trees)
  BY DEF MultiTrees
<1>4. PICK i \in 1..Len(mt.trees) : mt.trees[i].name = css[k].name
  BY <1>1, <1>3 DEF TreeNames
<1>5. PairsOf(css, css[k].name) = p
  BY <1>1, <1>2, PairsOfStore, SMTT(30)
<1>6. m.trees \in Seq(Trees) /\ Len(m.trees) = Len(mt.trees) /\ m.trees[i] = Apply(mt.trees[i], p)
  BY <1>1, <1>4, <1>5, WithPairsType, SMTT(30)
<1>7. PICK t \in Trees : t = mt.trees[i]
  BY <1>3
<1>8. PICK w \in Seq(Nat \X Nat) : w = t.writes
  BY DEF Trees
<1>9. w \o [j \in 1..Len(p) |-> <<t.version + 1, p[j]>>] = <<>>
  <2>1. m.trees[i].writes = <<>>
    BY <1>6
  <2>2. Apply(t, p).writes = t.writes \o [j \in 1..Len(p) |-> <<t.version + 1, p[j]>>]
    BY ApplyType, Zenon
  <2>. QED  BY <1>6, <1>7, <1>8, <2>1, <2>2, SMTT(30)
<1>10. PICK q \in Seq(Nat \X Nat) : q = [j \in 1..Len(p) |-> <<t.version + 1, p[j]>>] /\ Len(q) = Len(p)
  <2>. DEFINE q == [j \in 1..Len(p) |-> <<t.version + 1, p[j]>>]
  <2>1. t.version \in Nat
    BY DEF Trees
  <2>2. q \in Seq(Nat \X Nat) /\ Len(q) = Len(p)
    BY <2>1
  <2>. QED  BY <2>2, Zenon
<1>11. Len(w \o q) = Len(w) + Len(q)
  OBVIOUS
<1>12. Len(p) = 0
  <2>1. Len(w) + Len(p) = 0
    BY <1>9, <1>10, <1>11
  <2>. QED  BY <2>1
<1>. QED  BY <1>2, <1>12

(* SaveVersion keeps the names. *)
LEMMA SavedNames ==
    ASSUME NEW mt \in MultiTrees, NEW s, s = SaveVersion(mt, TRUE)
    PROVE  TreeNames(s) = TreeNames(mt)
<1>1. /\ s \in MultiTrees /\ Len(s.trees) = Len(mt.trees)
      /\ \A i \in 1..Len(mt.trees) : s.trees[i] = SaveTreeVersion(mt.trees[i])
  BY Saved, Zenon
<1>2. /\ mt.trees \in Seq(Trees) /\ DOMAIN mt.trees = 1..Len(mt.trees)
      /\ s.trees \in Seq(Trees) /\ DOMAIN s.trees = 1..Len(mt.trees)
  <2>1. \A m \in MultiTrees : m.trees \in Seq(Trees) /\ DOMAIN m.trees = 1..Len(m.trees)
    BY DEF MultiTrees
  <2>. QED  BY <1>1, <2>1, Zenon
<1>3. ASSUME NEW i \in 1..Len(mt.trees) PROVE s.trees[i].name = mt.trees[i].name
  <2>1. PICK t \in Trees : t = mt.trees[i]
    BY <1>2
  <2>2. SaveTreeVersion(t).name = t.name
    BY DEF SaveTreeVersion, Trees
  <2>. QED  BY <1>1, <2>1, <2>2, Zenon
<1>. QED  BY <1>2, <1>3, Zenon DEF TreeNames

(* info lists the names and the contents of the trees *)
ListsTrees(info, mt) ==
    /\ DOMAIN info.stores = 1..Len(mt.trees)
    /\ \A i \in 1..Len(mt.trees) : info.stores[i].name = mt.trees[i].name /\ info.stores[i].hash = mt.trees[i].writes

(* buildCommitInfo lists the trees. *)
LEMMA InfoStores ==
    ASSUME NEW mt \in MultiTrees, NEW v
    PROVE  ListsTrees(buildCommitInfo(mt, v), mt)
<1>1. DOMAIN mt.trees = 1..Len(mt.trees)
  BY DEF MultiTrees
<1>. QED  BY <1>1 DEF buildCommitInfo, RootHash, ListsTrees

(* An index below zero wraps around. *)
LEMMA WrappedIndex ==
    ASSUME NEW k \in Nat, 0 < k, k < WORD
    PROVE  (0 - k) % WORD = WORD - k
BY SMT DEF WORD

(* The version that a replay of n entries reaches. *)
LEMMA ReachedVersion ==
    ASSUME NEW m \in MultiTrees, NEW target \in Nat, NEW index \in Nat \ {0}, nextIndex(m) = index + 1,
           index = IF m.initialVersion > 1 THEN target - m.initialVersion + 1 ELSE target
    PROVE  Version(m) = target
<1>1. PICK v \in Nat : v = Version(m)
  BY DEF MultiTrees, CommitInfos, Version
<1>2. PICK iv \in Nat : iv = m.initialVersion
  BY DEF MultiTrees
<1>3. nextIndex(m) = IF iv > 1 THEN nextVersion(v, iv) - iv + 1 ELSE nextVersion(v, iv)
  BY <1>1, <1>2 DEF nextIndex
<1>4. index + 1 = IF iv > 1 THEN (IF v = 0 THEN iv ELSE v + 1) - iv + 1 ELSE v + 1
  BY <1>3 DEF nextVersion
<1>5. index = IF iv > 1 THEN target - iv + 1 ELSE target
  BY <1>2
<1>6. v = target
  BY <1>4, <1>5
<1>. QED  BY <1>1, <1>6

(* An element of a sequence. *)
LEMMA SeqElement ==
    ASSUME NEW S, NEW s \in Seq(S), NEW i \in DOMAIN s
    PROVE  s[i] \in S
OBVIOUS
=============================================================================
