----------------------- MODULE HistoricalDBCacheProofs -----------------------
(***************************************************************************)
(* Safety of historicalDBCache for any number of callers, DBs, versions    *)
(* and any cache size.                                                     *)
(***************************************************************************)
EXTENDS HistoricalDBCache, FiniteSetTheorems, TLAPS

Loading == {"load", "insert", "discard", "unsem"}

(* The cached entries: bounded, one per version, open and not evicted. *)
CacheInv ==
    /\ Len(entries) <= MaxSize
    /\ \A i, j \in 1..Len(entries) :
         version[entries[i]] = version[entries[j]] => i = j
    /\ \A i \in 1..Len(entries) :
         db[entries[i]] = "open" /\ ~evicted[entries[i]]

(* An entry is open as long as it is referenced; an evicted one no longer. *)
HandleOK(h) ==
    /\ db[h] # "closedTwice"
    /\ refs[h] > 0 => db[h] = "open"
    /\ evicted[h] => db[h] # "unloaded" /\ (refs[h] = 0 => db[h] = "closed")
    /\ db[h] = "open" => \/ h \in Cached
                         \/ evicted[h] /\ refs[h] > 0
                         \/ \E c \in Callers : loaded[c] = h

HandleInv == \A h \in Handles : HandleOK(h)

(* A DB its loader has not handed over is known to nobody else. *)
Private(c) ==
    /\ db[loaded[c]] = "open" /\ ~evicted[loaded[c]] /\ refs[loaded[c]] = 0
    /\ \A i \in 1..Len(entries) : entries[i] # loaded[c]
    /\ \A d \in Callers : loaded[d] = loaded[c] => d = c

LoaderInv ==
    \A c \in Callers :
        /\ loaded[c] # None <=> pc[c] \in {"insert", "discard"}
        /\ loaded[c] # None => Private(c)

(* A reference is held between borrow and release, to the wanted version. *)
BorrowInv ==
    \A c \in Callers :
        /\ got[c] # None => /\ pc[c] \in {"discard", "unsem", "using"}
                            /\ version[got[c]] = want[c]
        /\ pc[c] = "using" => got[c] # None
        /\ pc[c] \in {"queue", "load", "insert"} => want[c] \in Versions

SemInv ==
    /\ semUsed = Cardinality({c \in Callers : pc[c] \in Loading})
    /\ semUsed <= MaxSize

IndInv ==
    /\ TypeOK /\ RefsCountBorrows
    /\ CacheInv /\ HandleInv /\ LoaderInv /\ BorrowInv /\ SemInv
-----------------------------------------------------------------------------
(* Counting callers. *)

Borrowers(h) == {c \in Callers : got[c] = h}

(* Any set of callers has a cardinality: there are finitely many callers. *)
LEMMA CallerSets ==
    ASSUME NEW S, S \subseteq Callers
    PROVE  IsFiniteSet(S) /\ Cardinality(S) \in Nat
BY CacheAssumption, FS_Subset, FS_CardinalityType DEF CacheAssumption

(* One caller joins, or leaves, a set of callers. *)
LEMMA CallerJoins ==
    ASSUME NEW S, S \subseteq Callers, NEW c \in Callers, c \notin S
    PROVE  Cardinality(S \cup {c}) = Cardinality(S) + 1
BY CallerSets, FS_AddElement

LEMMA CallerLeaves ==
    ASSUME NEW S, S \subseteq Callers, NEW c \in S
    PROVE  Cardinality(S \ {c}) = Cardinality(S) - 1
BY CallerSets, FS_RemoveElement

(* refs is 0 exactly when nobody holds the entry: the test that eviction,  *)
(* release and close make before they close a DB is the right one.         *)
LEMMA RefsZero ==
    ASSUME TypeOK, RefsCountBorrows, NEW h \in Handles
    PROVE  /\ refs[h] = 0 <=> \A c \in Callers : got[c] # h
           /\ refs[h] \in Nat
<1>1. Borrowers(h) \subseteq Callers
  BY DEF Borrowers
<1>2. IsFiniteSet(Borrowers(h)) /\ Cardinality(Borrowers(h)) \in Nat
  BY <1>1, CallerSets
<1>3. Cardinality(Borrowers(h)) = 0 <=> Borrowers(h) = {}
  BY <1>2, FS_EmptySet
<1>4. refs[h] = Cardinality(Borrowers(h))
  BY DEF RefsCountBorrows, Borrowers
<1> QED
  BY <1>2, <1>3, <1>4 DEF Borrowers

(* lookup and the insert of borrow: c gains a reference to h. *)
LEMMA GainRef ==
    ASSUME TypeOK, RefsCountBorrows, NEW c \in Callers, NEW h \in Handles,
           got[c] = None,
           got' = [got EXCEPT ![c] = h], refs' = [refs EXCEPT ![h] = refs[h] + 1]
    PROVE  RefsCountBorrows'
<1> SUFFICES ASSUME NEW g \in Handles
             PROVE  refs'[g] = Cardinality({d \in Callers : got'[d] = g})
  BY DEF RefsCountBorrows
<1>0. h # None
  BY CacheAssumption DEF CacheAssumption
<1>1. refs[g] = Cardinality(Borrowers(g))
  BY DEF RefsCountBorrows, Borrowers
<1>2. CASE g = h
  <2>1. {d \in Callers : got'[d] = g} = Borrowers(h) \cup {c} /\ c \notin Borrowers(h)
    BY <1>0, <1>2 DEF TypeOK, Borrowers
  <2>2. Cardinality(Borrowers(h) \cup {c}) = Cardinality(Borrowers(h)) + 1
    BY <2>1, CallerJoins DEF Borrowers
  <2> QED
    BY <1>1, <1>2, <2>1, <2>2, Zenon DEF TypeOK
<1>3. CASE g # h
  <2>1. {d \in Callers : got'[d] = g} = Borrowers(g)
    BY <1>3, CacheAssumption DEF TypeOK, Borrowers, CacheAssumption
  <2> QED
    BY <1>1, <1>3, <2>1, Zenon DEF TypeOK
<1> QED
  BY <1>2, <1>3

(* release: c gives its reference to h back. *)
LEMMA DropRef ==
    ASSUME TypeOK, RefsCountBorrows, NEW c \in Callers, NEW h \in Handles,
           got[c] = h,
           got' = [got EXCEPT ![c] = None], refs' = [refs EXCEPT ![h] = refs[h] - 1]
    PROVE  RefsCountBorrows'
<1> SUFFICES ASSUME NEW g \in Handles
             PROVE  refs'[g] = Cardinality({d \in Callers : got'[d] = g})
  BY DEF RefsCountBorrows
<1>1. refs[g] = Cardinality(Borrowers(g))
  BY DEF RefsCountBorrows, Borrowers
<1>0. g # None
  BY CacheAssumption DEF CacheAssumption
<1>2. CASE g = h
  <2>1. {d \in Callers : got'[d] = g} = Borrowers(h) \ {c} /\ c \in Borrowers(h)
    BY <1>0, <1>2 DEF TypeOK, Borrowers
  <2>2. Cardinality(Borrowers(h) \ {c}) = Cardinality(Borrowers(h)) - 1
    BY <2>1, CallerLeaves DEF Borrowers
  <2> QED
    BY <1>1, <1>2, <2>1, <2>2, Zenon DEF TypeOK
<1>3. CASE g # h
  <2>1. {d \in Callers : got'[d] = g} = Borrowers(g)
    BY <1>0, <1>3 DEF TypeOK, Borrowers
  <2> QED
    BY <1>1, <1>3, <2>1, Zenon DEF TypeOK
<1> QED
  BY <1>2, <1>3
(* loadSem: c moves from pc[c] to x. *)
LEMMA SemMove ==
    ASSUME TypeOK, SemInv, NEW c \in Callers, NEW x, pc' = [pc EXCEPT ![c] = x],
           \/ (x \in Loading <=> pc[c] \in Loading) /\ semUsed' = semUsed
           \/ x \in Loading /\ pc[c] \notin Loading /\ semUsed < MaxSize /\ semUsed' = semUsed + 1
           \/ x \notin Loading /\ pc[c] \in Loading /\ semUsed' = semUsed - 1
    PROVE  SemInv' /\ semUsed' \in Nat
<1> DEFINE S == {d \in Callers : pc[d] \in Loading}
           T == {d \in Callers : pc'[d] \in Loading}
<1> HIDE DEF Loading
<1>1. S \subseteq Callers /\ T \subseteq Callers
  OBVIOUS
<1>2. Cardinality(S) \in Nat /\ Cardinality(T) \in Nat
  BY <1>1, CallerSets
<1>3. semUsed = Cardinality(S) /\ semUsed <= MaxSize /\ MaxSize \in Nat
  BY CacheAssumption DEF SemInv, CacheAssumption
<1>4. CASE (x \in Loading <=> pc[c] \in Loading) /\ semUsed' = semUsed
  <2>1. T = S
    BY <1>4 DEF TypeOK
  <2> QED
    BY <1>2, <1>3, <1>4, <2>1, Zenon DEF SemInv
<1>5. CASE x \in Loading /\ pc[c] \notin Loading /\ semUsed < MaxSize /\ semUsed' = semUsed + 1
  <2>1. T = S \cup {c} /\ c \notin S
    BY <1>5 DEF TypeOK
  <2>2. Cardinality(T) = Cardinality(S) + 1
    BY <1>1, <2>1, CallerJoins
  <2> QED
    BY <1>2, <1>3, <1>5, <2>2 DEF SemInv
<1>6. CASE x \notin Loading /\ pc[c] \in Loading /\ semUsed' = semUsed - 1
  <2>1. T = S \ {c} /\ c \in S
    BY <1>6 DEF TypeOK
  <2>2. Cardinality(T) = Cardinality(S) - 1
    BY <1>1, <2>1, CallerLeaves
  <2> QED
    BY <1>2, <1>3, <1>6, <2>2 DEF SemInv
<1> QED
  BY <1>4, <1>5, <1>6

-----------------------------------------------------------------------------
(* The LRU list. *)

(* Moving a hit to the front permutes the list. *)
LEMMA MoveToFrontPermutes ==
    ASSUME entries \in Seq(Handles), NEW i \in 1..Len(entries)
    PROVE  /\ MoveToFront(i) \in Seq(Handles)
           /\ Len(MoveToFront(i)) = Len(entries)
           /\ \A j \in 1..Len(entries) : MoveToFront(i)[j] =
                entries[IF j = 1 THEN i ELSE IF j <= i THEN j - 1 ELSE j]
           /\ \A k \in 1..Len(entries) : \E j \in 1..Len(entries) : MoveToFront(i)[j] = entries[k]
<1> DEFINE M == MoveToFront(i)
<1>0. Len(entries) \in Nat
  OBVIOUS
<1>1. M = [j \in 1..Len(entries) |-> entries[IF j = 1 THEN i ELSE IF j <= i THEN j - 1 ELSE j]]
  BY <1>0 DEF MoveToFront
<1>2. \A j \in 1..Len(entries) : (IF j = 1 THEN i ELSE IF j <= i THEN j - 1 ELSE j) \in 1..Len(entries)
  BY <1>0
<1>3. M \in Seq(Handles) /\ Len(M) = Len(entries)
  BY <1>0, <1>1, <1>2
<1>4. ASSUME NEW k \in 1..Len(entries)
      PROVE  \E j \in 1..Len(entries) : M[j] = entries[k]
  <2> DEFINE j == IF k = i THEN 1 ELSE IF k < i THEN k + 1 ELSE k
  <2>1. j \in 1..Len(entries) /\ (IF j = 1 THEN i ELSE IF j <= i THEN j - 1 ELSE j) = k
    BY <1>0
  <2> QED
    BY <1>1, <2>1
<1> QED
  BY <1>1, <1>3, <1>4

(* The list after an insert: the loaded DB, then all but the victim. *)
LEMMA PrependShape ==
    ASSUME entries \in Seq(Handles), Len(entries) <= MaxSize, NEW h \in Handles
    PROVE  /\ Prepend(h) \in Seq(Handles)
           /\ Len(Prepend(h)) <= MaxSize
           /\ Len(Prepend(h)) >= 1 /\ Prepend(h)[1] = h
           /\ \A j \in 2..Len(Prepend(h)) : Prepend(h)[j] = entries[j - 1] /\ j - 1 \in 1..Len(entries)
           /\ \A k \in 1..Len(entries) : entries[k] \notin Victims =>
                k + 1 \in 2..Len(Prepend(h))
           /\ \A j \in 2..Len(Prepend(h)) : Victims # {} => j - 1 < Len(entries)
           /\ Victims # {} => Len(entries) >= 1 /\ Victims = {entries[Len(entries)]}
<1> DEFINE n == IF Len(entries) >= MaxSize THEN Len(entries) ELSE Len(entries) + 1
<1>0. Len(entries) \in Nat /\ MaxSize \in Nat /\ MaxSize > 0
  BY CacheAssumption DEF CacheAssumption
<1>1. Prepend(h) = [j \in 1..n |-> IF j = 1 THEN h ELSE entries[j - 1]]
  BY DEF Prepend
<1>2. n \in Nat /\ n >= 1 /\ n <= MaxSize
  BY <1>0
<1>3. \A j \in 1..n : j # 1 => j - 1 \in 1..Len(entries)
  BY <1>0
<1>4. Prepend(h) \in Seq(Handles) /\ Len(Prepend(h)) = n
  BY <1>1, <1>2, <1>3
<1>5. \A k \in 1..Len(entries) : entries[k] \notin Victims => k + 1 \in 2..n
  BY <1>0 DEF Victims
<1>6. \A j \in 2..n : Victims # {} => j - 1 < Len(entries)
  BY <1>0 DEF Victims
<1>7. Victims # {} => Len(entries) >= 1 /\ Victims = {entries[Len(entries)]}
  BY <1>0 DEF Victims
<1>8. \A j \in 2..n : Prepend(h)[j] = entries[j - 1] /\ j - 1 \in 1..Len(entries)
  BY <1>1, <1>2, <1>3
<1>9. Prepend(h)[1] = h
  BY <1>1, <1>2
<1> QED
  BY <1>2, <1>4, <1>5, <1>6, <1>7, <1>8, <1>9
-----------------------------------------------------------------------------
(* The invariant holds initially. *)
LEMMA InitInv == Init => IndInv
<1> SUFFICES ASSUME Init PROVE IndInv
  OBVIOUS
<1> USE DEF Init
<1>1. None \notin Handles /\ MaxSize \in Nat
  BY CacheAssumption DEF CacheAssumption
<1>2. Cardinality({}) = 0
  BY FS_EmptySet
<1>3. TypeOK
  <2>1. evicted \in [Handles -> BOOLEAN] /\ closed \in BOOLEAN
    BY Zenon
  <2>2. /\ entries \in Seq(Handles) /\ semUsed \in Nat
        /\ refs \in [Handles -> Nat]
    OBVIOUS
  <2>3. /\ db \in [Handles -> {"unloaded", "open", "closed", "closedTwice"}]
        /\ version \in [Handles -> Versions \cup {None}]
        /\ pc \in [Callers -> {"idle", "queue", "load", "insert", "discard", "unsem", "using"}]
        /\ want \in [Callers -> Versions \cup {None}]
        /\ loaded \in [Callers -> Handles \cup {None}]
        /\ got \in [Callers -> Handles \cup {None}]
    OBVIOUS
  <2> QED
    BY <2>1, <2>2, <2>3, Zenon DEF TypeOK
<1>4. RefsCountBorrows
  <2> SUFFICES ASSUME NEW h \in Handles
               PROVE  refs[h] = Cardinality({c \in Callers : got[c] = h})
    BY DEF RefsCountBorrows
  <2>1. {c \in Callers : got[c] = h} = {}
    BY <1>1
  <2> QED
    BY <1>2, <2>1, Zenon
<1>5. SemInv
  <2>1. {c \in Callers : pc[c] \in Loading} = {}
    BY DEF Loading
  <2>2. Cardinality({c \in Callers : pc[c] \in Loading}) = 0
    BY <1>2, <2>1, Zenon
  <2>3. semUsed = 0 /\ semUsed <= MaxSize
    BY <1>1
  <2> QED
    BY <2>2, <2>3, Zenon DEF SemInv
<1>6. CacheInv /\ HandleInv /\ LoaderInv /\ BorrowInv
  BY <1>1 DEF CacheInv, HandleInv, HandleOK, LoaderInv, BorrowInv
<1> QED
  BY <1>3, <1>4, <1>5, <1>6 DEF IndInv

(* A step that leaves an entry alone keeps what is known about it. *)
LEMMA HandleFrame ==
    ASSUME HandleInv, NEW h \in Handles,
           db'[h] = db[h], refs'[h] = refs[h], evicted'[h] = evicted[h],
           h \in Cached => h \in Cached',
           \A c \in Callers : loaded[c] = h => loaded'[c] = h
    PROVE  HandleOK(h)'
BY Zenon DEF HandleInv, HandleOK

(* ... and a DB that is still in the hands of its loader stays private. *)
LEMMA PrivateFrame ==
    ASSUME LoaderInv, NEW c \in Callers, loaded[c] # None, loaded'[c] = loaded[c],
           db'[loaded[c]] = db[loaded[c]], refs'[loaded[c]] = refs[loaded[c]],
           evicted'[loaded[c]] = evicted[loaded[c]],
           \A k \in 1..Len(entries') : entries'[k] # loaded[c],
           \A d \in Callers : loaded'[d] = loaded[c] => loaded[d] = loaded[c]
    PROVE  Private(c)'
<1>1. Private(c)
  BY DEF LoaderInv
<1>2. db'[loaded'[c]] = "open" /\ ~evicted'[loaded'[c]]
  BY <1>1, Zenon DEF Private
<1>3. refs'[loaded'[c]] = 0
  BY <1>1 DEF Private
<1>4. \A d \in Callers : loaded'[d] = loaded'[c] => d = c
  BY <1>1, Zenon DEF Private
<1> QED
  BY <1>2, <1>3, <1>4, Zenon DEF Private

(* What LoaderInv says of a loader's DB. *)
LEMMA LoadedFacts ==
    ASSUME TypeOK, LoaderInv, NEW c \in Callers, loaded[c] # None
    PROVE  /\ loaded[c] \in Handles
           /\ db[loaded[c]] = "open" /\ ~evicted[loaded[c]] /\ refs[loaded[c]] = 0
           /\ \A k \in 1..Len(entries) : entries[k] # loaded[c]
           /\ \A d \in Callers : loaded[d] = loaded[c] => d = c
<1>1. Private(c)
  BY DEF LoaderInv
<1>2. loaded[c] \in Handles
  BY DEF TypeOK
<1> QED
  BY <1>1, <1>2, Zenon DEF Private

(* lookup by a caller that holds nothing: the hit at position i moves to   *)
(* the front and its reference passes to the caller.                       *)
LEMMA LookupInv ==
    ASSUME IndInv, NEW c \in Callers, NEW v \in Versions, NEW i \in Hit(v), got[c] = None,
           lookup(i), got' = [got EXCEPT ![c] = entries[i]],
           UNCHANGED <<db, loaded>>
    PROVE  /\ entries' \in Seq(Handles) /\ refs' \in [Handles -> Nat]
           /\ got' \in [Callers -> Handles \cup {None}]
           /\ RefsCountBorrows' /\ CacheInv' /\ HandleInv'
           /\ \A d \in Callers : loaded[d] # None => Private(d)'
           /\ entries[i] \in Handles /\ version[entries[i]] = v
<1> USE DEF IndInv
<1> DEFINE p(j) == IF j = 1 THEN i ELSE IF j <= i THEN j - 1 ELSE j
<1>0. version' = version /\ evicted' = evicted /\ db' = db /\ loaded' = loaded
  BY DEF lookup
<1>1. i \in 1..Len(entries) /\ entries \in Seq(Handles) /\ version[entries[i]] = v
  BY DEF Hit, TypeOK
<1>2. entries[i] \in Handles /\ Len(entries) \in Nat
  BY <1>1
<1>3. /\ entries' \in Seq(Handles) /\ Len(entries') = Len(entries)
      /\ \A j \in 1..Len(entries) : entries'[j] = entries[p(j)]
      /\ \A k \in 1..Len(entries) : \E j \in 1..Len(entries) : entries'[j] = entries[k]
  BY <1>1, MoveToFrontPermutes, Zenon DEF lookup
<1>4. \A j, k \in 1..Len(entries) : p(j) \in 1..Len(entries) /\ (p(j) = p(k) => j = k)
  BY <1>1, <1>2
<1>5. refs' = [refs EXCEPT ![entries[i]] = refs[entries[i]] + 1]
  BY DEF lookup
<1>6. refs' \in [Handles -> Nat] /\ got' \in [Callers -> Handles \cup {None}]
  BY <1>2, <1>5 DEF TypeOK
<1>7. RefsCountBorrows'
  BY <1>2, <1>5, GainRef, Zenon
<1> HIDE DEF p
<1>8. CacheInv'
  <2>1. ASSUME NEW j \in 1..Len(entries), NEW k \in 1..Len(entries),
               version[entries'[j]] = version[entries'[k]]
        PROVE  j = k
    <3>1. version[entries[p(j)]] = version[entries[p(k)]]
      BY <1>3, <2>1, Zenon
    <3> QED
      BY <1>4, <3>1 DEF CacheInv
  <2>2. ASSUME NEW j \in 1..Len(entries)
        PROVE  db[entries'[j]] = "open" /\ ~evicted[entries'[j]]
    <3>1. entries'[j] = entries[p(j)] /\ p(j) \in 1..Len(entries)
      BY <1>3, <1>4, Zenon
    <3> QED
      BY <3>1, Zenon DEF CacheInv
  <2> QED
    BY <1>0, <1>3, <2>1, <2>2, SMTT(30) DEF CacheInv
<1>9. Cached' = Cached
  <2>1. \A j \in 1..Len(entries') : entries'[j] \in Cached
    BY <1>3, <1>4, Zenon DEF Cached
  <2>2. \A k \in 1..Len(entries) : entries[k] \in Cached'
    BY <1>3 DEF Cached
  <2> QED
    BY <2>1, <2>2 DEF Cached
<1>10. HandleInv'
  <2> SUFFICES ASSUME NEW h \in Handles PROVE HandleOK(h)'
    BY DEF HandleInv
  <2>1. CASE h # entries[i]
    <3>1. refs'[h] = refs[h]
      BY <1>5, <2>1 DEF TypeOK
    <3> QED
      BY <1>0, <1>9, <3>1, HandleFrame
  <2>2. CASE h = entries[i]
    <3>1. refs[h] \in Nat /\ refs'[h] = refs[h] + 1
      BY <1>5, <2>2 DEF TypeOK
    <3>2. db[h] = "open" /\ h \in Cached
      BY <1>1, <2>2 DEF CacheInv, Cached
    <3> QED
      BY <1>0, <1>9, <3>1, <3>2 DEF HandleOK
  <2> QED
    BY <2>1, <2>2
<1>11. ASSUME NEW d \in Callers, loaded[d] # None
       PROVE  Private(d)'
  <2>1. loaded[d] \in Handles /\ \A k \in 1..Len(entries) : entries[k] # loaded[d]
    BY <1>11, LoadedFacts
  <2>2. \A k \in 1..Len(entries') : entries'[k] # loaded[d]
    BY <1>3, <1>4, <2>1, Zenon
  <2>3. refs'[loaded[d]] = refs[loaded[d]]
    BY <1>1, <1>5, <2>1 DEF TypeOK
  <2> QED
    BY <1>0, <1>11, <2>2, <2>3, PrivateFrame
<1> QED
  BY <1>1, <1>2, <1>3, <1>6, <1>7, <1>8, <1>10, <1>11, Zenon

-----------------------------------------------------------------------------
(* Every action preserves the invariant. *)

(* borrow that hits. *)
LEMMA BorrowHitInv ==
    ASSUME IndInv, NEW c \in Callers, NEW v \in Versions, BorrowHit(c, v)
    PROVE  IndInv'
<1> USE DEF IndInv
<1>1. PICK i \in Hit(v) : lookup(i) /\ got' = [got EXCEPT ![c] = entries[i]]
  BY Zenon DEF BorrowHit
<1>2. /\ pc[c] = "idle" /\ want' = [want EXCEPT ![c] = v]
      /\ pc' = [pc EXCEPT ![c] = "using"] /\ UNCHANGED <<semUsed, db, loaded>>
      /\ UNCHANGED <<closed, version, evicted>>
  BY <1>1 DEF BorrowHit, lookup
<1>3. got[c] = None
  BY <1>2 DEF BorrowInv
<1>4. /\ entries' \in Seq(Handles) /\ refs' \in [Handles -> Nat]
      /\ got' \in [Callers -> Handles \cup {None}]
      /\ RefsCountBorrows' /\ CacheInv' /\ HandleInv'
      /\ \A d \in Callers : loaded[d] # None => Private(d)'
      /\ entries[i] \in Handles /\ version[entries[i]] = v
  BY <1>1, <1>2, <1>3, LookupInv, Zenon
<1>5. TypeOK'
  BY <1>2, <1>4, Zenon DEF TypeOK
<1>6. SemInv'
  BY <1>2, SemMove, Zenon DEF Loading
<1>7. LoaderInv'
  <2>1. \A d \in Callers : pc'[d] \in {"insert", "discard"} <=> pc[d] \in {"insert", "discard"}
    BY <1>2 DEF TypeOK
  <2> QED
    BY <1>2, <1>4, <2>1, Zenon DEF LoaderInv
<1>8. BorrowInv'
  BY <1>1, <1>2, <1>4, CacheAssumption DEF BorrowInv, TypeOK, CacheAssumption
<1> QED
  BY <1>4, <1>5, <1>6, <1>7, <1>8

(* borrow that loses the race to insert. *)
LEMMA InsertLostInv ==
    ASSUME IndInv, NEW c \in Callers, InsertLost(c)
    PROVE  IndInv'
<1> USE DEF IndInv
<1>1. PICK i \in Hit(want[c]) : lookup(i) /\ got' = [got EXCEPT ![c] = entries[i]]
  BY Zenon DEF InsertLost
<1>2. /\ pc[c] = "insert" /\ pc' = [pc EXCEPT ![c] = "discard"]
      /\ UNCHANGED <<semUsed, db, want, loaded>>
      /\ UNCHANGED <<closed, version, evicted>>
  BY <1>1 DEF InsertLost, lookup
<1>3. got[c] = None /\ want[c] \in Versions
  BY <1>2 DEF BorrowInv
<1>4. /\ entries' \in Seq(Handles) /\ refs' \in [Handles -> Nat]
      /\ got' \in [Callers -> Handles \cup {None}]
      /\ RefsCountBorrows' /\ CacheInv' /\ HandleInv'
      /\ \A d \in Callers : loaded[d] # None => Private(d)'
      /\ entries[i] \in Handles /\ version[entries[i]] = want[c]
  BY <1>1, <1>2, <1>3, LookupInv, Zenon
<1>5. TypeOK'
  BY <1>2, <1>4, Zenon DEF TypeOK
<1>6. SemInv'
  BY <1>2, SemMove, Zenon DEF Loading
<1>7. LoaderInv'
  <2>1. \A d \in Callers : pc'[d] \in {"insert", "discard"} <=> pc[d] \in {"insert", "discard"}
    BY <1>2 DEF TypeOK
  <2> QED
    BY <1>2, <1>4, <2>1, Zenon DEF LoaderInv
<1>8. BorrowInv'
  BY <1>1, <1>2, <1>4 DEF BorrowInv, TypeOK
<1> QED
  BY <1>4, <1>5, <1>6, <1>7, <1>8
(* The steps of borrow that touch no entry: the miss, the token, a failed  *)
(* load, finding the cache closed, and the return.                         *)
LEMMA QuietInv ==
    ASSUME IndInv, NEW c \in Callers,
           \/ \E v \in Versions : BorrowMiss(c, v)
           \/ AcquireSem(c) \/ LoadFail(c) \/ InsertClosed(c) \/ ReleaseSem(c)
    PROVE  IndInv'
<1> USE DEF IndInv
<1>1. UNCHANGED <<entries, closed, version, refs, evicted, db, loaded, got>>
  BY DEF BorrowMiss, AcquireSem, LoadFail, InsertClosed, ReleaseSem, entryVars
<1>2. PICK x : pc' = [pc EXCEPT ![c] = x]
               /\ x \in {"idle", "queue", "load", "insert", "discard", "unsem", "using"}
  BY DEF BorrowMiss, AcquireSem, LoadFail, InsertClosed, ReleaseSem
<1>3. want' \in [Callers -> Versions \cup {None}]
  BY Zenon DEF BorrowMiss, AcquireSem, LoadFail, InsertClosed, ReleaseSem, TypeOK
<1>4. SemInv' /\ semUsed' \in Nat
  <2>1. CASE \E v \in Versions : BorrowMiss(c, v)
    BY <2>1, SemMove, Zenon DEF BorrowMiss, Loading
  <2>2. CASE AcquireSem(c)
    BY <2>2, SemMove, Zenon DEF AcquireSem, Loading
  <2>3. CASE LoadFail(c)
    BY <2>3, SemMove, Zenon DEF LoadFail, Loading
  <2>4. CASE InsertClosed(c)
    BY <2>4, SemMove, Zenon DEF InsertClosed, Loading
  <2>5. CASE ReleaseSem(c)
    <3> DEFINE y == IF got[c] = None THEN "idle" ELSE "using"
    <3>1. /\ pc' = [pc EXCEPT ![c] = y] /\ pc[c] \in Loading /\ y \notin Loading
          /\ semUsed' = semUsed - 1
      BY <2>5 DEF ReleaseSem, Loading
    <3> QED
      BY <3>1, SemMove, Zenon
  <2> QED
    BY <2>1, <2>2, <2>3, <2>4, <2>5
<1>5. TypeOK'
  BY <1>1, <1>2, <1>3, <1>4, Zenon DEF TypeOK
<1>6. RefsCountBorrows' /\ CacheInv'
  BY <1>1 DEF RefsCountBorrows, CacheInv
<1>7. Cached' = Cached
  BY <1>1 DEF Cached
<1>8. HandleInv'
  BY <1>1, <1>7, HandleFrame DEF HandleInv
<1>9. \A d \in Callers : pc'[d] \in {"insert", "discard"} <=> pc[d] \in {"insert", "discard"}
  BY DEF BorrowMiss, AcquireSem, LoadFail, InsertClosed, ReleaseSem, TypeOK
<1>10. LoaderInv'
  <2>1. ASSUME NEW d \in Callers, loaded[d] # None
        PROVE  Private(d)'
    BY <1>1, <2>1, LoadedFacts, PrivateFrame
  <2> QED
    BY <1>1, <1>9, <2>1, Zenon DEF LoaderInv
<1>11. BorrowInv'
  BY <1>1, SMTT(30) DEF BorrowMiss, AcquireSem, LoadFail, InsertClosed, ReleaseSem, TypeOK, BorrowInv
<1> QED
  BY <1>4, <1>5, <1>6, <1>8, <1>10, <1>11

(* load() returns a DB that no one else knows. *)
LEMMA LoadOKInv ==
    ASSUME IndInv, NEW c \in Callers, NEW h \in Handles, LoadOK(c, h)
    PROVE  IndInv'
<1> USE DEF IndInv
<1>1. /\ pc[c] = "load" /\ db[h] = "unloaded"
      /\ db' = [db EXCEPT ![h] = "open"] /\ loaded' = [loaded EXCEPT ![c] = h]
      /\ pc' = [pc EXCEPT ![c] = "insert"]
      /\ UNCHANGED <<entries, closed, version, refs, evicted, semUsed, want, got>>
  BY DEF LoadOK, entryVars
<1>2. h # None /\ loaded[c] = None /\ got[c] = None
  BY <1>1, CacheAssumption DEF CacheAssumption, LoaderInv, BorrowInv
<1>3. refs[h] = 0 /\ ~evicted[h]
  <2>1. HandleOK(h)
    BY DEF HandleInv
  <2>2. ~(refs[h] > 0) /\ ~evicted[h]
    BY <1>1, <2>1, Zenon DEF HandleOK
  <2> QED
    BY <2>2, RefsZero
<1>4. \A k \in 1..Len(entries) : entries[k] # h
  BY <1>1 DEF CacheInv
<1>5. \A d \in Callers : loaded[d] # h
  BY <1>1, <1>2, LoadedFacts
<1>6. TypeOK'
  BY <1>1 DEF TypeOK
<1>7. RefsCountBorrows'
  BY <1>1 DEF RefsCountBorrows
<1>8. CacheInv'
  BY <1>1, <1>4 DEF CacheInv, TypeOK
<1>9. HandleInv'
  <2> SUFFICES ASSUME NEW g \in Handles PROVE HandleOK(g)'
    BY DEF HandleInv
  <2>1. CASE g = h
    <3>1. db'[g] = "open" /\ loaded'[c] = g /\ refs'[g] = 0
      BY <1>1, <1>3, <2>1 DEF TypeOK
    <3>2. ~evicted'[g]
      BY <1>1, <1>3, <2>1
    <3> QED
      BY <3>1, <3>2 DEF HandleOK
  <2>2. CASE g # h
    <3>1. db'[g] = db[g] /\ Cached' = Cached
      BY <1>1, <2>2 DEF TypeOK, Cached
    <3>2. \A d \in Callers : loaded[d] = g => loaded'[d] = g
      BY <1>1, <1>2, CacheAssumption DEF TypeOK, CacheAssumption
    <3> QED
      BY <1>1, <3>1, <3>2, HandleFrame
  <2> QED
    BY <2>1, <2>2
<1>10. LoaderInv'
  <2>1. \A d \in Callers : loaded'[d] = IF d = c THEN h ELSE loaded[d]
    BY <1>1 DEF TypeOK
  <2>2. \A d \in Callers : pc'[d] = IF d = c THEN "insert" ELSE pc[d]
    BY <1>1 DEF TypeOK
  <2>3. Private(c)'
    <3>1. db'[loaded'[c]] = "open" /\ refs'[loaded'[c]] = 0 /\ loaded'[c] = h
      BY <1>1, <1>3, <2>1 DEF TypeOK
    <3>2. ~evicted'[h]
      BY <1>1, <1>3
    <3>3. \A k \in 1..Len(entries') : entries'[k] # h
      BY <1>1, <1>4
    <3>4. \A d \in Callers : loaded'[d] = h => d = c
      BY <1>5, <2>1
    <3> QED
      BY <3>1, <3>2, <3>3, <3>4 DEF Private
  <2>4. ASSUME NEW d \in Callers, d # c, loaded[d] # None
        PROVE  Private(d)'
    <3>1. /\ loaded[d] \in Handles /\ loaded[d] # h /\ loaded'[d] = loaded[d]
          /\ \A k \in 1..Len(entries') : entries'[k] # loaded[d]
      BY <1>1, <1>5, <2>1, <2>4, LoadedFacts
    <3>2. db'[loaded[d]] = db[loaded[d]]
      BY <1>1, <3>1 DEF TypeOK
    <3>3. \A e \in Callers : loaded'[e] = loaded[d] => loaded[e] = loaded[d]
      BY <2>1, <3>1
    <3> QED
      BY <1>1, <2>4, <3>1, <3>2, <3>3, PrivateFrame
  <2>5. ASSUME NEW d \in Callers
        PROVE  /\ loaded'[d] # None <=> pc'[d] \in {"insert", "discard"}
               /\ loaded'[d] # None => Private(d)'
    BY <1>2, <2>1, <2>2, <2>3, <2>4 DEF LoaderInv
  <2> QED
    BY <2>5 DEF LoaderInv
<1>11. BorrowInv'
  BY <1>1, <1>2 DEF BorrowInv, TypeOK
<1>12. SemInv'
  BY <1>1, SemMove, Zenon DEF Loading
<1> QED
  BY <1>6, <1>7, <1>8, <1>9, <1>10, <1>11, <1>12
(* A loader hands its DB over, or closes it; the other loaders keep theirs. *)
LEMMA HandOver ==
    ASSUME TypeOK, LoaderInv, NEW c \in Callers, loaded[c] # None,
           loaded' = [loaded EXCEPT ![c] = None], pc' = [pc EXCEPT ![c] = "unsem"],
           \A d \in Callers : d # c /\ loaded[d] # None =>
              /\ db'[loaded[d]] = db[loaded[d]] /\ refs'[loaded[d]] = refs[loaded[d]]
              /\ evicted'[loaded[d]] = evicted[loaded[d]]
              /\ \A k \in 1..Len(entries') : entries'[k] # loaded[d]
    PROVE  LoaderInv'
<1>1. \A d \in Callers : loaded'[d] = IF d = c THEN None ELSE loaded[d]
  BY DEF TypeOK
<1>2. \A d \in Callers : pc'[d] = IF d = c THEN "unsem" ELSE pc[d]
  BY DEF TypeOK
<1>3. ASSUME NEW d \in Callers, d # c, loaded[d] # None
      PROVE  Private(d)'
  <2>1. loaded'[d] = loaded[d]
    BY <1>1, <1>3
  <2>2. \A e \in Callers : loaded'[e] = loaded[d] => loaded[e] = loaded[d]
    BY <1>1, <1>3
  <2> QED
    BY <1>3, <2>1, <2>2, PrivateFrame
<1>4. ASSUME NEW d \in Callers
      PROVE  /\ loaded'[d] # None <=> pc'[d] \in {"insert", "discard"}
             /\ loaded'[d] # None => Private(d)'
  BY <1>1, <1>2, <1>3 DEF LoaderInv
<1> QED
  BY <1>4 DEF LoaderInv

(* The deferred close of a DB that was not inserted. *)
LEMMA DiscardInv ==
    ASSUME IndInv, NEW c \in Callers, Discard(c)
    PROVE  IndInv'
<1> USE DEF IndInv
<1> DEFINE h == loaded[c]
<1>1. /\ pc[c] = "discard" /\ db' = CloseDBs({h})
      /\ loaded' = [loaded EXCEPT ![c] = None] /\ pc' = [pc EXCEPT ![c] = "unsem"]
      /\ UNCHANGED <<entries, closed, version, refs, evicted, semUsed, want, got>>
  BY DEF Discard, entryVars
<1>2. h # None
  BY <1>1 DEF LoaderInv
<1>3. /\ h \in Handles /\ db[h] = "open" /\ refs[h] = 0 /\ ~evicted[h]
      /\ \A k \in 1..Len(entries) : entries[k] # h
      /\ \A d \in Callers : loaded[d] = h => d = c
  BY <1>2, LoadedFacts
<1>4. db' = [db EXCEPT ![h] = "closed"]
  BY <1>1, <1>3, Zenon DEF CloseDBs, TypeOK
<1>5. TypeOK'
  BY <1>1, <1>3, <1>4, Zenon DEF TypeOK
<1>6. RefsCountBorrows'
  BY <1>1 DEF RefsCountBorrows
<1> HIDE DEF h
<1>7. CacheInv'
  <2>1. \A k \in 1..Len(entries) : db'[entries[k]] = db[entries[k]]
    BY <1>3, <1>4 DEF TypeOK
  <2> QED
    BY <1>1, <2>1, Zenon DEF CacheInv
<1>8. HandleInv'
  <2> SUFFICES ASSUME NEW g \in Handles PROVE HandleOK(g)'
    BY DEF HandleInv
  <2>1. CASE g = h
    <3>1. db'[g] = "closed" /\ refs'[g] = 0
      BY <1>1, <1>3, <1>4, <2>1 DEF TypeOK
    <3> QED
      BY <3>1 DEF HandleOK
  <2>2. CASE g # h
    <3>0. Cached' = Cached
      BY <1>1 DEF Cached
    <3>1. db'[g] = db[g]
      BY <1>4, <2>2 DEF TypeOK
    <3>2. \A d \in Callers : loaded[d] = g => loaded'[d] = g
      BY <1>1, <2>2 DEF TypeOK, h
    <3> QED
      BY <1>1, <3>0, <3>1, <3>2, HandleFrame, Zenon
  <2> QED
    BY <2>1, <2>2
<1>9. LoaderInv'
  <2>1. ASSUME NEW d \in Callers, d # c, loaded[d] # None
        PROVE  /\ db'[loaded[d]] = db[loaded[d]] /\ refs'[loaded[d]] = refs[loaded[d]]
               /\ evicted'[loaded[d]] = evicted[loaded[d]]
               /\ \A k \in 1..Len(entries') : entries'[k] # loaded[d]
    <3>1. loaded[d] \in Handles /\ loaded[d] # h
      BY <1>3, <2>1, LoadedFacts, Zenon
    <3>2. \A k \in 1..Len(entries) : entries[k] # loaded[d]
      BY <2>1, LoadedFacts
    <3> QED
      BY <1>1, <1>4, <3>1, <3>2, Zenon DEF TypeOK
  <2> QED
    BY <1>1, <1>2, <2>1, HandOver, Zenon DEF h
<1>10. BorrowInv'
  BY <1>1 DEF BorrowInv, TypeOK
<1>11. SemInv'
  BY <1>1, SemMove, Zenon DEF Loading
<1> QED
  BY <1>5, <1>6, <1>7, <1>8, <1>9, <1>10, <1>11
(* release: a DB is closed by the last borrower of an evicted entry only. *)
LEMMA ReleaseInv ==
    ASSUME IndInv, NEW c \in Callers, Release(c)
    PROVE  IndInv'
<1> USE DEF IndInv
<1> DEFINE h == got[c]
<1>1. /\ pc[c] = "using" /\ refs' = [refs EXCEPT ![h] = refs[h] - 1]
      /\ db' = CloseDBs(IF LastBorrow(h) THEN {h} ELSE {})
      /\ got' = [got EXCEPT ![c] = None] /\ want' = [want EXCEPT ![c] = None]
      /\ pc' = [pc EXCEPT ![c] = "idle"]
      /\ UNCHANGED <<entries, closed, semUsed, version, evicted, loaded>>
  BY DEF Release
<1>2. h \in Handles /\ h # None
  BY <1>1 DEF BorrowInv, TypeOK
<1>3. refs[h] \in Nat /\ refs[h] # 0
  BY <1>2, RefsZero
<1>4. HandleOK(h) /\ db[h] = "open"
  <2>1. HandleOK(h)
    BY <1>2 DEF HandleInv
  <2>2. refs[h] > 0
    BY <1>3
  <2> QED
    BY <2>1, <2>2, Zenon DEF HandleOK
<1>5. db' = IF LastBorrow(h) THEN [db EXCEPT ![h] = "closed"] ELSE db
  BY <1>1, <1>2, <1>4, Zenon DEF CloseDBs, TypeOK
<1>6. RefsCountBorrows'
  BY <1>1, <1>2, DropRef, Zenon
<1> HIDE DEF h
<1>7. TypeOK'
  <2>1. db' \in [Handles -> {"unloaded", "open", "closed", "closedTwice"}]
    BY <1>2, <1>5 DEF TypeOK
  <2>2. refs' \in [Handles -> Nat]
    BY <1>1, <1>2, <1>3 DEF TypeOK
  <2>3. /\ got' \in [Callers -> Handles \cup {None}]
        /\ want' \in [Callers -> Versions \cup {None}]
        /\ pc' \in [Callers -> {"idle", "queue", "load", "insert", "discard", "unsem", "using"}]
    BY <1>1 DEF TypeOK
  <2> QED
    BY <1>1, <2>1, <2>2, <2>3, Zenon DEF TypeOK
<1>8. CacheInv'
  <2>1. ASSUME NEW k \in 1..Len(entries), LastBorrow(h) PROVE entries[k] # h
    BY <2>1, Zenon DEF CacheInv, LastBorrow
  <2>2. \A k \in 1..Len(entries) : db'[entries[k]] = db[entries[k]]
    BY <1>2, <1>5, <2>1 DEF TypeOK
  <2> QED
    BY <1>1, <2>2, Zenon DEF CacheInv
<1>9. HandleInv'
  <2> SUFFICES ASSUME NEW g \in Handles PROVE HandleOK(g)'
    BY DEF HandleInv
  <2>0. Cached' = Cached
    BY <1>1 DEF Cached
  <2>1. CASE g # h
    <3>1. db'[g] = db[g] /\ refs'[g] = refs[g]
      BY <1>1, <1>5, <2>1, Zenon DEF TypeOK
    <3> QED
      BY <1>1, <2>0, <3>1, HandleFrame
  <2>2. CASE g = h /\ LastBorrow(h)
    <3>1. db'[g] = "closed" /\ refs'[g] = 0
      BY <1>1, <1>2, <1>5, <2>2 DEF TypeOK, LastBorrow
    <3> QED
      BY <3>1 DEF HandleOK
  <2>3. CASE g = h /\ ~LastBorrow(h)
    <3>1. db'[g] = "open" /\ refs'[g] = refs[g] - 1 /\ refs[g] \in Nat /\ refs[g] # 0
      BY <1>1, <1>2, <1>3, <1>4, <1>5, <2>3 DEF TypeOK
    <3>2. evicted[g] => refs'[g] > 0
      BY <2>3, <3>1 DEF LastBorrow
    <3>3. g \in Cached \/ evicted[g] \/ \E d \in Callers : loaded[d] = g
      BY <1>4, <2>3, Zenon DEF HandleOK
    <3>4. refs'[g] = 0 => ~(refs'[g] > 0)
      BY <3>1
    <3> QED
      BY <1>1, <2>0, <3>1, <3>2, <3>3, <3>4, Zenon DEF HandleOK
  <2> QED
    BY <2>1, <2>2, <2>3
<1>10. LoaderInv'
  <2>1. \A d \in Callers : pc'[d] \in {"insert", "discard"} <=> pc[d] \in {"insert", "discard"}
    BY <1>1 DEF TypeOK
  <2>2. ASSUME NEW d \in Callers, loaded[d] # None
        PROVE  Private(d)'
    <3>1. loaded[d] \in Handles /\ loaded[d] # h
      BY <1>3, <2>2, LoadedFacts
    <3>2. db'[loaded[d]] = db[loaded[d]] /\ refs'[loaded[d]] = refs[loaded[d]]
      BY <1>1, <1>5, <3>1, Zenon DEF TypeOK
    <3> QED
      BY <1>1, <2>2, <3>2, LoadedFacts, PrivateFrame, Zenon
  <2> QED
    BY <1>1, <2>1, <2>2, Zenon DEF LoaderInv
<1>11. BorrowInv'
  BY <1>1 DEF BorrowInv, TypeOK
<1>12. SemInv'
  BY <1>1, SemMove, Zenon DEF Loading
<1> QED
  BY <1>6, <1>7, <1>8, <1>9, <1>10, <1>11, <1>12

(* close: all entries are evicted, and the ones nobody borrows closed. *)
LEMMA CloseCacheInv ==
    ASSUME IndInv, CloseCache
    PROVE  IndInv'
<1> USE DEF IndInv
<1>1. /\ closed' = TRUE /\ entries' = <<>>
      /\ evicted' = [h \in Handles |-> evicted[h] \/ h \in Cached]
      /\ db' = CloseDBs(Unborrowed(Cached))
      /\ UNCHANGED <<semUsed, version, refs, pc, want, loaded, got>>
  BY DEF CloseCache
<1>2. \A h \in Handles : h \in Cached => db[h] = "open"
  BY DEF CacheInv, Cached
<1>3. \A h \in Handles : db'[h] = IF h \in Cached /\ refs[h] = 0 THEN "closed" ELSE db[h]
  BY <1>1, <1>2 DEF CloseDBs, Unborrowed
<1>4. TypeOK'
  <2>1. db' \in [Handles -> {"unloaded", "open", "closed", "closedTwice"}]
    BY <1>1, <1>3 DEF CloseDBs, TypeOK
  <2>2. evicted' \in [Handles -> BOOLEAN]
    BY <1>1, Zenon DEF TypeOK
  <2>3. entries' \in Seq(Handles)
    BY <1>1
  <2> QED
    BY <1>1, <2>1, <2>2, <2>3 DEF TypeOK
<1>5. RefsCountBorrows'
  BY <1>1 DEF RefsCountBorrows
<1>6. CacheInv'
  BY <1>1, CacheAssumption DEF CacheInv, CacheAssumption
<1>7. HandleInv'
  <2> SUFFICES ASSUME NEW h \in Handles PROVE HandleOK(h)'
    BY DEF HandleInv
  <2>0. HandleOK(h) /\ refs[h] \in Nat /\ refs'[h] = refs[h]
    BY <1>1, RefsZero DEF HandleInv
  <2>1. CASE h \notin Cached
    <3>1. db'[h] = db[h]
      BY <1>3, <2>1
    <3>2. evicted'[h] <=> evicted[h]
      BY <1>1, <2>1, Zenon
    <3> QED
      BY <1>1, <2>0, <2>1, <3>1, <3>2, Zenon DEF HandleOK
  <2>2. CASE h \in Cached /\ refs[h] = 0
    <3>1. db'[h] = "closed" /\ refs'[h] = 0
      BY <1>3, <2>0, <2>2
    <3> QED
      BY <3>1 DEF HandleOK
  <2>3. CASE h \in Cached /\ refs[h] # 0
    <3>1. db'[h] = "open" /\ refs'[h] > 0 /\ refs'[h] # 0
      BY <1>2, <1>3, <2>0, <2>3
    <3>2. evicted'[h]
      BY <1>1, <2>3, Zenon
    <3> QED
      BY <3>1, <3>2, Zenon DEF HandleOK
  <2> QED
    BY <2>1, <2>2, <2>3
<1>8. LoaderInv'
  <2>1. ASSUME NEW d \in Callers, loaded[d] # None
        PROVE  Private(d)'
    <3>1. loaded[d] \in Handles /\ loaded[d] \notin Cached
      BY <2>1, LoadedFacts DEF Cached
    <3>2. db'[loaded[d]] = db[loaded[d]]
      BY <1>3, <3>1
    <3>3. evicted'[loaded[d]] = evicted[loaded[d]]
      BY <1>1, <3>1 DEF TypeOK
    <3>4. \A k \in 1..Len(entries') : entries'[k] # loaded[d]
      BY <1>1
    <3> QED
      BY <1>1, <2>1, <3>2, <3>3, <3>4, PrivateFrame
  <2> QED
    BY <1>1, <2>1, Zenon DEF LoaderInv
<1>9. BorrowInv' /\ SemInv'
  BY <1>1 DEF BorrowInv, SemInv
<1> QED
  BY <1>4, <1>5, <1>6, <1>7, <1>8, <1>9
(* borrow's insert: the loaded DB takes the place of the least recently    *)
(* used one, which is closed now, or later by its last borrower.           *)
LEMMA InsertNewInv ==
    ASSUME IndInv, NEW c \in Callers, InsertNew(c)
    PROVE  IndInv'
<1> USE DEF IndInv
<1> DEFINE h == loaded[c]
           v == want[c]
<1>1. /\ pc[c] = "insert" /\ ~Holds(v) /\ entries' = Prepend(h)
      /\ db' = CloseDBs(Unborrowed(Victims))
      /\ evicted' = [o \in Handles |-> evicted[o] \/ o \in Victims]
      /\ version' = [version EXCEPT ![h] = v] /\ refs' = [refs EXCEPT ![h] = 1]
      /\ got' = [got EXCEPT ![c] = h] /\ loaded' = [loaded EXCEPT ![c] = None]
      /\ pc' = [pc EXCEPT ![c] = "unsem"]
      /\ UNCHANGED <<closed, semUsed, want>>
  BY DEF InsertNew
<1>2. h # None /\ got[c] = None /\ v \in Versions
  BY <1>1 DEF LoaderInv, BorrowInv
<1>3. /\ h \in Handles /\ db[h] = "open" /\ refs[h] = 0 /\ ~evicted[h]
      /\ \A k \in 1..Len(entries) : entries[k] # h
      /\ \A d \in Callers : loaded[d] = h => d = c
  BY <1>2, LoadedFacts
<1>4. \A k \in 1..Len(entries) : version[entries[k]] # v /\ entries[k] \in Handles
  BY <1>1 DEF Holds, TypeOK
<1>5. entries \in Seq(Handles) /\ Len(entries) <= MaxSize /\ Len(entries) \in Nat
  BY DEF TypeOK, CacheInv
<1> HIDE DEF h, v
<1>6. /\ entries' \in Seq(Handles) /\ Len(entries') <= MaxSize
      /\ Len(entries') >= 1 /\ entries'[1] = h
      /\ \A j \in 2..Len(entries') : entries'[j] = entries[j - 1] /\ j - 1 \in 1..Len(entries)
      /\ \A k \in 1..Len(entries) : entries[k] \notin Victims => k + 1 \in 2..Len(entries')
      /\ \A j \in 2..Len(entries') : Victims # {} => j - 1 < Len(entries)
      /\ Victims # {} => Len(entries) >= 1 /\ Victims = {entries[Len(entries)]}
  BY <1>1, <1>3, <1>5, PrependShape, Zenon
<1>7. \A i, j \in 1..Len(entries) : entries[i] = entries[j] => i = j
  BY DEF CacheInv
<1>8. \A o \in Victims : o \in Cached /\ o # h /\ o \in Handles /\ db[o] = "open" /\ o \in DOMAIN db
  <2>1. \A o \in Victims : \E k \in 1..Len(entries) : o = entries[k]
    BY <1>5, <1>6
  <2> QED
    BY <1>3, <1>4, <2>1, SMTT(30) DEF CacheInv, Cached, TypeOK
<1>9. \A j \in 2..Len(entries') : entries'[j] \notin Victims
  <2> SUFFICES ASSUME NEW j \in 2..Len(entries'), entries'[j] \in Victims PROVE FALSE
    OBVIOUS
  <2>1. entries[j - 1] = entries[Len(entries)] /\ j - 1 < Len(entries) /\ j - 1 \in 1..Len(entries)
    BY <1>6
  <2> QED
    BY <1>5, <1>7, <2>1
<1>10. \A o \in Handles : db'[o] = IF o \in Victims /\ refs[o] = 0 THEN "closed" ELSE db[o]
  BY <1>1, <1>8 DEF CloseDBs, Unborrowed
<1>11. ASSUME NEW o \in Handles PROVE evicted'[o] <=> (evicted[o] \/ o \in Victims)
  BY <1>1, Zenon
<1>12. refs' = [refs EXCEPT ![h] = refs[h] + 1]
  BY <1>1, <1>3
<1>13. RefsCountBorrows'
  BY <1>1, <1>2, <1>3, <1>12, GainRef, Zenon
<1>14. TypeOK'
  <2>1. db' \in [Handles -> {"unloaded", "open", "closed", "closedTwice"}]
    BY <1>1, <1>10 DEF CloseDBs, TypeOK
  <2>2. evicted' \in [Handles -> BOOLEAN]
    BY <1>1, Zenon DEF TypeOK
  <2>3. version' \in [Handles -> Versions \cup {None}] /\ refs' \in [Handles -> Nat]
    BY <1>1, <1>2, <1>3, Zenon DEF TypeOK
  <2>4. /\ got' \in [Callers -> Handles \cup {None}] /\ loaded' \in [Callers -> Handles \cup {None}]
        /\ pc' \in [Callers -> {"idle", "queue", "load", "insert", "discard", "unsem", "using"}]
    BY <1>1, <1>3 DEF TypeOK
  <2> QED
    BY <1>1, <1>6, <2>1, <2>2, <2>3, <2>4 DEF TypeOK
<1>15. CacheInv'
  <2>1. version'[h] = v
    BY <1>1, <1>3 DEF TypeOK
  <2>2. \A k \in 1..Len(entries) : version'[entries[k]] = version[entries[k]]
    BY <1>1, <1>3, <1>4 DEF TypeOK
  <2>3. ASSUME NEW j \in 1..Len(entries')
        PROVE  db'[entries'[j]] = "open" /\ ~evicted'[entries'[j]]
    <3>1. CASE j = 1
      BY <1>3, <1>6, <1>8, <1>10, <1>11, <3>1, Zenon
    <3>2. CASE j # 1
      <4>1. j \in 2..Len(entries')
        BY <1>6, <3>2
      <4>2. PICK k \in 1..Len(entries) : entries'[j] = entries[k] /\ entries[k] \notin Victims
        BY <1>6, <1>9, <4>1
      <4>3. db[entries[k]] = "open" /\ ~evicted[entries[k]] /\ entries[k] \in Handles
        BY <1>4, Zenon DEF CacheInv
      <4> QED
        BY <1>10, <1>11, <4>2, <4>3, Zenon
    <3> QED
      BY <3>1, <3>2
  <2>4. ASSUME NEW i \in 1..Len(entries'), NEW j \in 1..Len(entries'),
               version'[entries'[i]] = version'[entries'[j]]
        PROVE  i = j
    <3>1. CASE i = 1 /\ j # 1
      <4>1. entries'[j] = entries[j - 1] /\ j - 1 \in 1..Len(entries)
        BY <1>6, <3>1
      <4> QED
        BY <1>4, <1>6, <2>1, <2>2, <2>4, <3>1, <4>1
    <3>2. CASE i # 1 /\ j = 1
      <4>1. entries'[i] = entries[i - 1] /\ i - 1 \in 1..Len(entries)
        BY <1>6, <3>2
      <4> QED
        BY <1>4, <1>6, <2>1, <2>2, <2>4, <3>2, <4>1
    <3>3. CASE i # 1 /\ j # 1
      <4>1. /\ entries'[i] = entries[i - 1] /\ i - 1 \in 1..Len(entries)
            /\ entries'[j] = entries[j - 1] /\ j - 1 \in 1..Len(entries)
        BY <1>6, <3>3
      <4>2. i - 1 = j - 1
        BY <2>2, <2>4, <4>1 DEF CacheInv
      <4> QED
        BY <4>2
    <3> QED
      BY <3>1, <3>2, <3>3
  <2> QED
    BY <1>6, <2>3, <2>4, CacheAssumption, Zenon DEF CacheInv
<1>16. Cached' = {h} \cup (Cached \ Victims)
  <2>1. \A o \in Cached' : o = h \/ (o \in Cached /\ o \notin Victims)
    BY <1>6, <1>9, SMTT(30) DEF Cached
  <2>2. h \in Cached'
    BY <1>6 DEF Cached
  <2>3. ASSUME NEW k \in 1..Len(entries), entries[k] \notin Victims
        PROVE  entries[k] \in Cached'
    <3>1. k + 1 \in 2..Len(entries')
      BY <1>6, <2>3
    <3>2. entries'[k + 1] = entries[k] /\ k + 1 \in 1..Len(entries')
      BY <1>6, <3>1
    <3> QED
      BY <3>2 DEF Cached
  <2> QED
    BY <2>1, <2>2, <2>3 DEF Cached
<1>17. HandleInv'
  <2> SUFFICES ASSUME NEW g \in Handles PROVE HandleOK(g)'
    BY DEF HandleInv
  <2>0. HandleOK(g) /\ refs[g] \in Nat
    BY RefsZero DEF HandleInv
  <2>1. CASE g = h
    <3>1. db'[g] = "open" /\ refs'[g] = 1 /\ refs'[g] > 0 /\ refs'[g] # 0
      BY <1>1, <1>3, <1>8, <1>10, <2>1, SMTT(60) DEF TypeOK
    <3>2. g \in Cached' /\ ~evicted'[g]
      BY <1>3, <1>8, <1>11, <1>16, <2>1, Zenon
    <3> QED
      BY <3>1, <3>2, Zenon DEF HandleOK
  <2>2. CASE g # h /\ g \notin Victims
    <3>1. db'[g] = db[g]
      BY <1>10, <2>2
    <3>2. refs'[g] = refs[g]
      BY <1>1, <2>2 DEF TypeOK
    <3>3. evicted'[g] = evicted[g]
      BY <1>1, <2>2 DEF TypeOK
    <3>4. g \in Cached => g \in Cached'
      BY <1>16, <2>2
    <3>5. \A d \in Callers : loaded[d] = g => loaded'[d] = g
      BY <1>1, <2>2, SMTT(30) DEF TypeOK, h
    <3> QED
      BY <3>1, <3>2, <3>3, <3>4, <3>5, HandleFrame
  <2>3. CASE g \in Victims /\ refs[g] = 0
    <3>1. db'[g] = "closed" /\ refs'[g] = 0
      BY <1>1, <1>8, <1>10, <2>3 DEF TypeOK
    <3> QED
      BY <3>1 DEF HandleOK
  <2>4. CASE g \in Victims /\ refs[g] # 0
    <3>1. db'[g] = "open" /\ refs'[g] > 0 /\ refs'[g] # 0
      BY <1>1, <1>8, <1>10, <2>0, <2>4, SMTT(60) DEF TypeOK
    <3>2. evicted'[g]
      BY <1>11, <2>4, Zenon
    <3> QED
      BY <3>1, <3>2, Zenon DEF HandleOK
  <2> QED
    BY <2>1, <2>2, <2>3, <2>4
<1>18. LoaderInv'
  <2>1. ASSUME NEW d \in Callers, d # c, loaded[d] # None
        PROVE  /\ db'[loaded[d]] = db[loaded[d]] /\ refs'[loaded[d]] = refs[loaded[d]]
               /\ evicted'[loaded[d]] = evicted[loaded[d]]
               /\ \A k \in 1..Len(entries') : entries'[k] # loaded[d]
    <3>1. loaded[d] \in Handles /\ loaded[d] # h /\ loaded[d] \notin Cached
      BY <1>3, <2>1, LoadedFacts DEF Cached
    <3>2. loaded[d] \notin Victims /\ loaded[d] \notin Cached'
      BY <1>8, <1>16, <3>1
    <3>3. db'[loaded[d]] = db[loaded[d]]
      BY <1>10, <3>1, <3>2
    <3>4. refs'[loaded[d]] = refs[loaded[d]]
      BY <1>1, <3>1 DEF TypeOK
    <3>5. evicted'[loaded[d]] = evicted[loaded[d]]
      BY <1>1, <3>1, <3>2 DEF TypeOK
    <3> QED
      BY <3>2, <3>3, <3>4, <3>5, Zenon DEF Cached
  <2> QED
    BY <1>1, <1>2, <2>1, HandOver, Zenon DEF h
<1>19. BorrowInv'
  <2>1. \A d \in Callers : got[d] # h
    BY <1>3, RefsZero
  <2>2. version'[h] = v
    BY <1>1, <1>3 DEF TypeOK
  <2>3. ASSUME NEW d \in Callers, d # c
        PROVE  got'[d] # None => version'[got'[d]] = version[got[d]]
    BY <1>1, <2>1, <2>3 DEF TypeOK
  <2>4. got'[c] = h /\ pc'[c] = "unsem"
    BY <1>1 DEF TypeOK
  <2>5. \A d \in Callers : d # c => got'[d] = got[d] /\ pc'[d] = pc[d]
    BY <1>1 DEF TypeOK
  <2> QED
    BY <1>1, <1>2, <2>2, <2>3, <2>4, <2>5, ZenonT(40) DEF BorrowInv, v
<1>20. SemInv'
  BY <1>1, SemMove, Zenon DEF Loading
<1> QED
  BY <1>13, <1>14, <1>15, <1>17, <1>18, <1>19, <1>20
-----------------------------------------------------------------------------
(* A step that changes nothing keeps the invariant. *)
LEMMA StutterInv ==
    ASSUME IndInv, UNCHANGED vars
    PROVE  IndInv'
<1> USE DEF IndInv, vars
<1>1. TypeOK' /\ RefsCountBorrows' /\ BorrowInv' /\ SemInv'
  BY Zenon DEF TypeOK, RefsCountBorrows, BorrowInv, SemInv
<1>2. CacheInv'
  BY Zenon DEF CacheInv
<1>3. HandleInv'
  <2>1. Cached' = Cached
    BY DEF Cached
  <2>2. ASSUME NEW h \in Handles PROVE HandleOK(h)'
    BY <2>1, HandleFrame
  <2> QED
    BY <2>2 DEF HandleInv
<1>4. LoaderInv'
  <2>1. ASSUME NEW c \in Callers, loaded[c] # None PROVE Private(c)'
    BY <2>1, LoadedFacts, PrivateFrame
  <2> QED
    BY <2>1, Zenon DEF LoaderInv
<1> QED
  BY <1>1, <1>2, <1>3, <1>4

(* Every critical section of borrow, release and close, and every step     *)
(* between them, preserves the invariant.                                  *)
LEMMA StepInv ==
    ASSUME IndInv, [Next]_vars
    PROVE  IndInv'
<1>1. CASE CloseCache
  BY <1>1, CloseCacheInv
<1>2. CASE UNCHANGED vars
  BY <1>2, StutterInv
<1>3. ASSUME NEW c \in Callers,
             \/ \E v \in Versions : BorrowHit(c, v) \/ BorrowMiss(c, v)
             \/ AcquireSem(c)
             \/ \E h \in Handles : LoadOK(c, h)
             \/ LoadFail(c)
             \/ InsertClosed(c)
             \/ InsertLost(c)
             \/ InsertNew(c)
             \/ Discard(c)
             \/ ReleaseSem(c)
             \/ Release(c)
      PROVE  IndInv'
  <2>1. CASE \E v \in Versions : BorrowHit(c, v)
    BY <2>1, BorrowHitInv
  <2>2. CASE \/ \E v \in Versions : BorrowMiss(c, v)
             \/ AcquireSem(c) \/ LoadFail(c) \/ InsertClosed(c) \/ ReleaseSem(c)
    BY <2>2, QuietInv
  <2>3. CASE \E h \in Handles : LoadOK(c, h)
    BY <2>3, LoadOKInv
  <2>4. CASE InsertLost(c)
    BY <2>4, InsertLostInv
  <2>5. CASE InsertNew(c)
    BY <2>5, InsertNewInv
  <2>6. CASE Discard(c)
    BY <2>6, DiscardInv
  <2>7. CASE Release(c)
    BY <2>7, ReleaseInv
  <2> QED
    BY <1>3, <2>1, <2>2, <2>3, <2>4, <2>5, <2>6, <2>7
<1> QED
  BY <1>1, <1>2, <1>3 DEF Next

(* The inductive invariant holds in every state of the cache. *)
THEOREM Invariance == Spec => []IndInv
<1>1. Init => IndInv
  BY InitInv
<1>2. IndInv /\ [Next]_vars => IndInv'
  BY StepInv
<1> QED
  BY <1>1, <1>2, PTL DEF Spec

(* Every variable of historicalDBCache keeps its type. *)
THEOREM TypeCorrect == Spec => []TypeOK
<1>1. IndInv => TypeOK
  BY DEF IndInv
<1> QED
  BY <1>1, Invariance, PTL

(* Between borrow() and release() a DB is open and of the wanted version,  *)
(* whatever the evictions, closes and releases of the other goroutines.    *)
THEOREM BorrowedIsOpen == Spec => []NoUseAfterClose
<1>1. ASSUME IndInv PROVE NoUseAfterClose
  <2> SUFFICES ASSUME NEW c \in Callers, pc[c] = "using"
               PROVE  db[got[c]] = "open" /\ version[got[c]] = want[c]
    BY DEF NoUseAfterClose
  <2>1. got[c] # None /\ version[got[c]] = want[c]
    BY <1>1 DEF IndInv, BorrowInv
  <2>2. got[c] \in Handles
    BY <1>1, <2>1 DEF IndInv, TypeOK
  <2>3. refs[got[c]] > 0
    BY <1>1, <2>2, RefsZero DEF IndInv
  <2>4. HandleOK(got[c])
    BY <1>1, <2>2 DEF IndInv, HandleInv
  <2>5. db[got[c]] = "open"
    BY <2>3, <2>4, Zenon DEF HandleOK
  <2> QED
    BY <2>1, <2>5
<1> QED
  BY <1>1, Invariance, PTL

(* Eviction, release(), close() and borrow()'s deferred close never close  *)
(* the same DB twice.                                                      *)
THEOREM ClosedOnce == Spec => []NoDoubleClose
<1>1. IndInv => NoDoubleClose
  BY DEF IndInv, HandleInv, HandleOK, NoDoubleClose
<1> QED
  BY <1>1, Invariance, PTL

(* An open DB is cached, borrowed, or in the hands of its loader. *)
THEOREM NothingLeaks == Spec => []NoLeak
<1>1. ASSUME IndInv PROVE NoLeak
  <2> SUFFICES ASSUME NEW h \in Handles, db[h] = "open"
               PROVE  h \in Cached \/ \E c \in Callers : got[c] = h \/ loaded[c] = h
    BY DEF NoLeak
  <2>1. \/ h \in Cached
        \/ evicted[h] /\ refs[h] > 0
        \/ \E c \in Callers : loaded[c] = h
    BY <1>1, Zenon DEF IndInv, HandleInv, HandleOK
  <2>2. refs[h] > 0 => \E c \in Callers : got[c] = h
    BY <1>1, RefsZero DEF IndInv
  <2> QED
    BY <2>1, <2>2, Zenon
<1> QED
  BY <1>1, Invariance, PTL

(* refs is the number of outstanding borrows: release()'s panic on         *)
(* refs <= 0 is unreachable.                                               *)
THEOREM RefsExact == Spec => []RefsCountBorrows
<1>1. IndInv => RefsCountBorrows
  BY DEF IndInv
<1> QED
  BY <1>1, Invariance, PTL

(* The cache holds at most maxSize DBs, and one per version. *)
THEOREM OnePerVersion == Spec => []OneEntryPerVersion
<1>1. IndInv => OneEntryPerVersion
  BY DEF IndInv, CacheInv, OneEntryPerVersion
<1> QED
  BY <1>1, Invariance, PTL

(* At most maxSize loaded DBs wait to be handed over: loadSem bounds them. *)
THEOREM LoadsAreBounded == Spec => []LoadsBounded
<1>1. ASSUME IndInv PROVE LoadsBounded
  <2> DEFINE L == {c \in Callers : loaded[c] # None}
             S == {c \in Callers : pc[c] \in Loading}
  <2>1. L \subseteq S
    BY <1>1 DEF IndInv, LoaderInv, Loading
  <2>2. IsFiniteSet(S) /\ Cardinality(S) \in Nat /\ Cardinality(L) \in Nat
    BY CallerSets
  <2>3. Cardinality(L) <= Cardinality(S)
    BY <2>1, <2>2, FS_Subset
  <2>4. Cardinality(S) <= MaxSize /\ MaxSize \in Nat
    BY <1>1, CacheAssumption DEF IndInv, SemInv, CacheAssumption
  <2>5. Cardinality(L) <= MaxSize
    BY <2>2, <2>3, <2>4
  <2> QED
    BY <2>5 DEF LoadsBounded
<1> QED
  BY <1>1, Invariance, PTL
=============================================================================
