-------------------------- MODULE HistoricalDBCache --------------------------
(***************************************************************************)
(* The bounded LRU cache of read-only memiavl DBs that serves historical   *)
(* queries (store/rootmulti/store.go, historicalDBCache).  Every Query at  *)
(* an old height borrows an entry, reads from it without holding the lock  *)
(* and releases it.  Closing a DB unmaps its snapshot, so a close while a  *)
(* borrow is outstanding is a use after free, and a DB nobody closes leaks *)
(* its file descriptors and mappings.                                      *)
(*                                                                         *)
(* A caller is one goroutine inside Query.  A handle stands for one        *)
(* *memiavl.DB together with the historicalDBEntry that owns it: the two   *)
(* are created one to one and the entry's db field never changes.          *)
(***************************************************************************)
EXTENDS Integers, Sequences, FiniteSets

CONSTANTS Callers,   \* goroutines that query
          Handles,   \* DBs that load() may return (bounds the number of loads)
          Versions,  \* historical heights that are queried
          MaxSize,   \* historicalDBCache.maxSize, also the capacity of loadSem
          None       \* no handle, no version

ASSUME CacheAssumption == /\ MaxSize \in Nat \ {0}
                          /\ IsFiniteSet(Callers)
                          /\ None \notin Handles
                          /\ None \notin Versions

VARIABLES entries,  \* handles in LRU order, index 1 is the most recently used
          closed,   \* historicalDBCache.closed
          semUsed,  \* number of tokens in loadSem
          db,       \* handle -> state of the DB behind it
          version,  \* handle -> historicalDBEntry.version
          refs,     \* handle -> historicalDBEntry.refs
          evicted,  \* handle -> historicalDBEntry.evicted
          pc,       \* caller -> where the goroutine is
          want,     \* caller -> version it asked for
          loaded,   \* caller -> DB its own load() returned and did not yet hand over
          got       \* caller -> entry borrow() returns, or is about to return

entryVars == <<entries, closed, version, refs, evicted>>
vars == <<entries, closed, semUsed, db, version, refs, evicted, pc, want, loaded, got>>

Init == /\ entries = <<>>
        /\ closed = FALSE
        /\ semUsed = 0
        /\ db = [h \in Handles |-> "unloaded"]
        /\ version = [h \in Handles |-> None]
        /\ refs = [h \in Handles |-> 0]
        /\ evicted = [h \in Handles |-> FALSE]
        /\ pc = [c \in Callers |-> "idle"]
        /\ want = [c \in Callers |-> None]
        /\ loaded = [c \in Callers |-> None]
        /\ got = [c \in Callers |-> None]

-----------------------------------------------------------------------------
(* An operator whose name starts with Bug is a defect the properties must  *)
(* notice; no action uses it.                                              *)

(* memiavl.DB.Close on a set of handles; closing twice is remembered. *)
CloseDBs(S) == [h \in Handles |-> IF h \notin S THEN db[h]
                                  ELSE IF db[h] = "open" THEN "closed" ELSE "closedTwice"]

BugUnborrowed(S) == S

(* An evicted entry is closed at once unless it is borrowed. *)
Unborrowed(S) == {h \in S : refs[h] = 0}

Cached == {entries[i] : i \in 1..Len(entries)}

(* lookup finds v, and where: the first position that has it. *)
Holds(v) == \E i \in 1..Len(entries) : version[entries[i]] = v

Hit(v) == {i \in 1..Len(entries) : /\ version[entries[i]] = v
                                   /\ \A j \in 1..(i - 1) : version[entries[j]] # v}

(* The entries with the one at position i moved to the front. *)
MoveToFront(i) == [j \in 1..Len(entries) |-> IF j = 1 THEN entries[i]
                                              ELSE IF j <= i THEN entries[j - 1]
                                              ELSE entries[j]]

BuglookupNoRef(i) == entries' = MoveToFront(i) /\ UNCHANGED <<closed, version, refs, evicted>>

(* lookup: the hit at position i becomes the MRU and gains a reference. *)
lookup(i) == /\ entries' = MoveToFront(i)
             /\ refs' = [refs EXCEPT ![entries[i]] = @ + 1]
             /\ UNCHANGED <<closed, version, evicted>>

(* borrow, first critical section: the cache is open and holds the version. *)
BorrowHit(c, v) ==
    /\ pc[c] = "idle"
    /\ ~closed
    /\ \E i \in Hit(v) :
         /\ lookup(i)
         /\ got' = [got EXCEPT ![c] = entries[i]]
    /\ want' = [want EXCEPT ![c] = v]
    /\ pc' = [pc EXCEPT ![c] = "using"]
    /\ UNCHANGED <<semUsed, db, loaded>>

(* borrow, first critical section: a miss goes on to queue for loadSem. *)
BorrowMiss(c, v) ==
    /\ pc[c] = "idle"
    /\ ~closed
    /\ ~Holds(v)
    /\ want' = [want EXCEPT ![c] = v]
    /\ pc' = [pc EXCEPT ![c] = "queue"]
    /\ UNCHANGED <<entryVars, semUsed, db, loaded, got>>

BugAcquireSemUnbounded(c) ==
    /\ pc[c] = "queue"
    /\ semUsed' = semUsed + 1
    /\ pc' = [pc EXCEPT ![c] = "load"]
    /\ UNCHANGED <<entryVars, db, want, loaded, got>>

(* borrow: the send on loadSem succeeds when the channel has room. *)
AcquireSem(c) ==
    /\ pc[c] = "queue"
    /\ semUsed < MaxSize
    /\ semUsed' = semUsed + 1
    /\ pc' = [pc EXCEPT ![c] = "load"]
    /\ UNCHANGED <<entryVars, db, want, loaded, got>>

(* load() outside the lock returns a freshly opened DB ... *)
LoadOK(c, h) ==
    /\ pc[c] = "load"
    /\ db[h] = "unloaded"
    /\ db' = [db EXCEPT ![h] = "open"]
    /\ loaded' = [loaded EXCEPT ![c] = h]
    /\ pc' = [pc EXCEPT ![c] = "insert"]
    /\ UNCHANGED <<entryVars, semUsed, want, got>>

BugLoadFailKeepsToken(c) ==
    /\ pc[c] = "load"
    /\ pc' = [pc EXCEPT ![c] = "idle"]
    /\ want' = [want EXCEPT ![c] = None]
    /\ UNCHANGED <<entryVars, semUsed, db, loaded, got>>

(* ... or an error, and borrow returns it. *)
LoadFail(c) ==
    /\ pc[c] = "load"
    /\ pc' = [pc EXCEPT ![c] = "unsem"]
    /\ UNCHANGED <<entryVars, semUsed, db, want, loaded, got>>

BugInsertClosedForgetsDB(c) ==
    /\ pc[c] = "insert"
    /\ closed
    /\ pc' = [pc EXCEPT ![c] = "unsem"]
    /\ loaded' = [loaded EXCEPT ![c] = None]
    /\ UNCHANGED <<entryVars, semUsed, db, want, got>>

(* borrow, second critical section: close() ran during the load. *)
InsertClosed(c) ==
    /\ pc[c] = "insert"
    /\ closed
    /\ pc' = [pc EXCEPT ![c] = "discard"]
    /\ UNCHANGED <<entryVars, semUsed, db, want, loaded, got>>

(* borrow, second critical section: another goroutine cached the version. *)
InsertLost(c) ==
    /\ pc[c] = "insert"
    /\ ~closed
    /\ \E i \in Hit(want[c]) :
         /\ lookup(i)
         /\ got' = [got EXCEPT ![c] = entries[i]]
    /\ pc' = [pc EXCEPT ![c] = "discard"]
    /\ UNCHANGED <<semUsed, db, want, loaded>>

(* The least recently used entry leaves when the cache is full ... *)
Victims == IF Len(entries) >= MaxSize THEN {entries[Len(entries)]} ELSE {}

BugPrependOverfull(h) ==
    [j \in 1..(IF Len(entries) > MaxSize THEN Len(entries) ELSE Len(entries) + 1)
       |-> IF j = 1 THEN h ELSE entries[j - 1]]

(* ... and the new one is prepended to the rest. *)
Prepend(h) == [j \in 1..(IF Len(entries) >= MaxSize THEN Len(entries) ELSE Len(entries) + 1)
                 |-> IF j = 1 THEN h ELSE entries[j - 1]]

(* borrow, second critical section: evict, and prepend the loaded DB.  A   *)
(* victim that is still borrowed stays open for release() to close.        *)
InsertNew(c) ==
    /\ pc[c] = "insert"
    /\ ~closed
    /\ ~Holds(want[c])
    /\ LET h == loaded[c] IN
         /\ entries' = Prepend(h)
         /\ db' = CloseDBs(Unborrowed(Victims))
         /\ evicted' = [o \in Handles |-> evicted[o] \/ o \in Victims]
         /\ version' = [version EXCEPT ![h] = want[c]]
         /\ refs' = [refs EXCEPT ![h] = 1]
         /\ got' = [got EXCEPT ![c] = h]
    /\ loaded' = [loaded EXCEPT ![c] = None]
    /\ pc' = [pc EXCEPT ![c] = "unsem"]
    /\ UNCHANGED <<closed, semUsed, want>>

(* borrow, deferred: the DB that was not inserted is closed, outside the lock. *)
Discard(c) ==
    /\ pc[c] = "discard"
    /\ db' = CloseDBs({loaded[c]})
    /\ loaded' = [loaded EXCEPT ![c] = None]
    /\ pc' = [pc EXCEPT ![c] = "unsem"]
    /\ UNCHANGED <<entryVars, semUsed, want, got>>

(* borrow, deferred last: the token goes back and borrow returns. *)
ReleaseSem(c) ==
    /\ pc[c] = "unsem"
    /\ semUsed' = semUsed - 1
    /\ pc' = [pc EXCEPT ![c] = IF got[c] = None THEN "idle" ELSE "using"]
    /\ want' = [want EXCEPT ![c] = IF got[c] = None THEN None ELSE @]
    /\ UNCHANGED <<entryVars, db, loaded, got>>

BugLastBorrow(h) == evicted[h]

(* The release that drops the last reference to an evicted entry. *)
LastBorrow(h) == refs[h] = 1 /\ evicted[h]

(* release: the last borrower of an evicted entry closes its DB. *)
Release(c) ==
    /\ pc[c] = "using"
    /\ LET h == got[c] IN
         /\ refs' = [refs EXCEPT ![h] = @ - 1]
         /\ db' = CloseDBs(IF LastBorrow(h) THEN {h} ELSE {})
    /\ got' = [got EXCEPT ![c] = None]
    /\ want' = [want EXCEPT ![c] = None]
    /\ pc' = [pc EXCEPT ![c] = "idle"]
    /\ UNCHANGED <<entries, closed, semUsed, version, evicted, loaded>>

BugCloseCacheKeepsBorrowed ==
    /\ closed' = TRUE
    /\ db' = CloseDBs(Unborrowed(Cached))
    /\ entries' = <<>>
    /\ UNCHANGED <<semUsed, version, refs, evicted, pc, want, loaded, got>>

(* close: every entry is evicted, the ones nobody borrows are closed here. *)
CloseCache ==
    /\ closed' = TRUE
    /\ evicted' = [h \in Handles |-> evicted[h] \/ h \in Cached]
    /\ db' = CloseDBs(Unborrowed(Cached))
    /\ entries' = <<>>
    /\ UNCHANGED <<semUsed, version, refs, pc, want, loaded, got>>

Next == \/ \E c \in Callers :
             \/ \E v \in Versions : BorrowHit(c, v) \/ BorrowMiss(c, v)
             \/ AcquireSem(c)
             \/ \E h \in Handles : LoadOK(c, h)
             \/ LoadFail(c)
             \/ InsertClosed(c)
             \/ InsertLost(c)
             \/ InsertNew(c)
             \/ Discard(c)
             \/ ReleaseSem(c)
             \/ Release(c)
        \/ CloseCache

Spec == Init /\ [][Next]_vars

(* Goroutines are scheduled and load() returns, with a DB or an error.     *)
(* Blocked senders on a Go channel are served first in, first out, so a    *)
(* goroutine queued on loadSem is not overtaken forever (SF).  Whoever     *)
(* borrows releases: Query defers release.                                 *)
Fairness ==
    \A c \in Callers :
      /\ SF_vars(AcquireSem(c))
      /\ WF_vars(LoadFail(c) \/ \E h \in Handles : LoadOK(c, h))
      /\ WF_vars(InsertClosed(c) \/ InsertLost(c) \/ InsertNew(c))
      /\ WF_vars(Discard(c))
      /\ WF_vars(ReleaseSem(c))
      /\ WF_vars(Release(c))

FairSpec == Spec /\ Fairness

-----------------------------------------------------------------------------
(* Every variable has its type. *)
TypeOK ==
    /\ entries \in Seq(Handles)
    /\ closed \in BOOLEAN
    /\ semUsed \in Nat
    /\ db \in [Handles -> {"unloaded", "open", "closed", "closedTwice"}]
    /\ version \in [Handles -> Versions \cup {None}]
    /\ refs \in [Handles -> Nat]
    /\ evicted \in [Handles -> BOOLEAN]
    /\ pc \in [Callers -> {"idle", "queue", "load", "insert", "discard", "unsem", "using"}]
    /\ want \in [Callers -> Versions \cup {None}]
    /\ loaded \in [Callers -> Handles \cup {None}]
    /\ got \in [Callers -> Handles \cup {None}]

(* A borrower always reads from an open DB of the version it asked for:    *)
(* eviction, close() and other callers' releases never close a DB between  *)
(* borrow() and the matching release().                                    *)
NoUseAfterClose ==
    \A c \in Callers : pc[c] = "using" =>
        db[got[c]] = "open" /\ version[got[c]] = want[c]

(* No DB is closed twice, whichever of eviction, release(), close() and    *)
(* borrow()'s deferred close gets to it first.                             *)
NoDoubleClose == \A h \in Handles : db[h] # "closedTwice"

(* No DB leaks: an open DB is in the cache, borrowed, or still in the      *)
(* hands of the goroutine that loaded it.                                  *)
NoLeak ==
    \A h \in Handles : db[h] = "open" =>
        h \in Cached \/ \E c \in Callers : got[c] = h \/ loaded[c] = h

(* refs counts the outstanding borrows exactly, so release() never meets   *)
(* an entry with refs <= 0 (its panic) and evicts no borrower's DB.        *)
RefsCountBorrows ==
    \A h \in Handles : refs[h] = Cardinality({c \in Callers : got[c] = h})

(* The cache holds at most maxSize DBs and each version once, although     *)
(* several goroutines may have loaded the same version at the same time.   *)
OneEntryPerVersion ==
    /\ Len(entries) <= MaxSize
    /\ \A i, j \in 1..Len(entries) :
         version[entries[i]] = version[entries[j]] => i = j

(* loadSem: DBs loaded but not yet handed over or closed never exceed      *)
(* maxSize ("a burst of distinct-version queries can't fan out unbounded   *)
(* fd/mmap usage").                                                        *)
LoadsBounded == Cardinality({c \in Callers : loaded[c] # None}) <= MaxSize

(* A borrow that missed comes back, with an entry or an error. *)
BorrowReturns ==
    \A c \in Callers : pc[c] = "queue" ~> pc[c] \in {"using", "idle"}

(* Once close() has run, every DB is eventually closed, the ones being     *)
(* loaded or borrowed at that moment included.                             *)
CloseDrains == closed ~> (\A h \in Handles : db[h] # "open")
=============================================================================
