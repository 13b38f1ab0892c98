------------------------------ MODULE WALFiles ------------------------------
(***************************************************************************)
(* The files of the write ahead log (memiavl/wal.go): a directory of       *)
(* segments that one process writes through tidwall/wal while others open  *)
(* it read-only.  A truncation takes several file operations, and the      *)
(* writer may crash between any two of them; a reader interprets what it   *)
(* finds and never repairs it.                                             *)
(*                                                                         *)
(* A file name is <<index, suffix>>, which orders names as os.ReadDir      *)
(* does.  A file is its complete entries and whether trailing bytes that   *)
(* form no entry follow.  An entry is its index and the number of times    *)
(* the log had been truncated at the back when it was written, so that an  *)
(* index written again after a rollback holds another entry.               *)
(***************************************************************************)
EXTENDS Integers, Sequences, SequencesExt, FiniteSetsExt, Functions

CONSTANTS
    SegmentSize,    \* entries after which the writer starts a new segment
    MaxEntries,     \* bound: entries in the log
    MaxTruncations, \* bound: truncations per behaviour
    MaxCrashes      \* bound: crashes of the writer per behaviour

VARIABLES
    dir,     \* the directory: a function from file names to files
    writer,  \* the process that owns the log
    history, \* every entry appended and not truncated at the back, from index 1
    first,   \* the first index that was not truncated away
    epoch,   \* truncations at the back so far
    used,    \* truncations and crashes so far
    reader   \* one readOnlyWAL, from the start of its opening to its Close

logVars == <<history, first, epoch>>
vars == <<dir, writer, logVars, used, reader>>

Plain == 0   \* no suffix
END == 1     \* walEndSuffix
START == 2   \* walStartSuffix
readOnlyWALOpenAttempts == 3

Before(a, b) == a[1] < b[1] \/ (a[1] = b[1] /\ a[2] < b[2])
ReadDir(d) == SetToSortSeq(DOMAIN d, Before)
Segments(d, suffix) == {n \in DOMAIN d : n[2] = suffix}

-----------------------------------------------------------------------------
(* Reading a directory.  acc: the segments so far, and which suffixes were seen *)
BugwalkSegment(acc, name) ==
    CASE name[2] = Plain -> IF acc.hasEnd THEN acc ELSE [acc EXCEPT !.segments = Append(@, name)]
      [] name[2] = START -> [acc EXCEPT !.hasStart = TRUE, !.segments = Append(@, name)]
      [] OTHER -> IF acc.hasEnd THEN acc ELSE [acc EXCEPT !.hasEnd = TRUE, !.segments = Append(@, name)]

walkSegment(acc, name) ==
    LET n == Len(acc.segments)
        same == n > 0 /\ acc.segments[n][1] = name[1]
    IN CASE name[2] = Plain -> IF acc.hasEnd THEN acc ELSE [acc EXCEPT !.segments = Append(@, name)]
         [] name[2] = START -> [acc EXCEPT !.hasStart = TRUE, !.segments = <<name>>]
         [] OTHER -> IF acc.hasEnd THEN acc
                     ELSE [acc EXCEPT !.hasEnd = TRUE, !.segments = Append(IF same THEN Front(@) ELSE @, name)]

listWALSegments(d) ==
    LET walk == FoldLeft(walkSegment, [segments |-> <<>>, hasStart |-> FALSE, hasEnd |-> FALSE], ReadDir(d))
    IN [segments |-> walk.segments, corrupt |-> walk.hasStart /\ walk.hasEnd]

(* the file a path names: a .START that was renamed is read under its final name *)
BugResolve(d, path) == path

Resolve(d, path) == IF path \notin DOMAIN d /\ path[2] = START THEN <<path[1], Plain>> ELSE path

(* complete entries, torn *)
readWALEntries(file) == file

truncateCorruptedTail(file) == [file EXCEPT !.torn = FALSE]

-----------------------------------------------------------------------------
(* The writer.  todo: files still to be removed, then from is renamed.     *)
Idle == [pc |-> "idle", todo |-> <<>>, from |-> <<>>]
Down == [pc |-> "down", todo |-> <<>>, from |-> <<>>]
NoReader == [pc |-> "closed", attempts |-> 0, segments |-> <<>>, lastIndex |-> 0, tail |-> <<>>,
             cached |-> 0, entries |-> <<>>, committed |-> 0, epoch |-> 0, races |-> 0]

Init ==
    /\ dir = [n \in {} |-> [entries |-> <<>>, torn |-> FALSE]]
    /\ writer = Down
    /\ history = <<>> /\ first = 1 /\ epoch = 0
    /\ used = [truncations |-> 0, crashes |-> 0]
    /\ reader = NoReader

EmptyFile == [entries |-> <<>>, torn |-> FALSE]
TailName == Last(ReadDir(dir))   \* of the writer, when no truncation is going on
LastIndex == Len(history)
Entry == <<LastIndex + 1, epoch>>
SegmentOf(i) == Max({n[1] : n \in {m \in Segments(dir, Plain) : m[1] <= i}})

(* the first bytes of an entry reach the file, then the rest *)
WriteStart ==
    /\ writer.pc = "idle" /\ LastIndex < MaxEntries
    /\ Len(dir[TailName].entries) < SegmentSize
    /\ dir' = [dir EXCEPT ![TailName].torn = TRUE]
    /\ writer' = [writer EXCEPT !.pc = "writing"]
    /\ UNCHANGED <<logVars, used, reader>>

WriteEnd ==
    /\ writer.pc = "writing"
    /\ dir' = [dir EXCEPT ![TailName] = [entries |-> Append(@.entries, Entry), torn |-> FALSE]]
    /\ history' = Append(history, Entry)
    /\ writer' = Idle
    /\ UNCHANGED <<first, epoch, used, reader>>

(* a full segment is closed and an empty one created *)
Cycle ==
    /\ writer.pc = "idle" /\ Len(dir[TailName].entries) >= SegmentSize
    /\ dir' = (<<LastIndex + 1, Plain>> :> EmptyFile) @@ dir
    /\ UNCHANGED <<writer, logVars, used, reader>>

Opening == reader.pc \in {"list", "tail"}

Truncates(cost) ==
    /\ writer.pc = "idle" /\ used.truncations < MaxTruncations
    /\ used' = [used EXCEPT !.truncations = @ + 1]
    /\ reader' = IF Opening THEN [reader EXCEPT !.races = @ + cost] ELSE reader

(* TruncateFront: entry i on in a .START file, earlier segments removed, the file renamed *)
TruncateFront(i) ==
    LET s == SegmentOf(i)
        start == <<i, START>>
        old == dir[<<s, Plain>>].entries
        kept == [entries |-> SubSeq(old, i - s + 1, Len(old)), torn |-> FALSE]
    IN /\ first < i
       /\ Truncates(1)
       /\ dir' = (start :> kept) @@ dir
       /\ first' = i
       /\ writer' = [pc |-> "removing", from |-> start,
                     todo |-> SelectSeq(ReadDir(dir), LAMBDA n : n[1] <= s)]
       /\ UNCHANGED <<history, epoch>>

(* TruncateBack: the entries up to i in an .END file, later segments removed, the file renamed *)
TruncateBack(i) ==
    LET s == SegmentOf(i)
        end == <<s, END>>
        kept == [entries |-> SubSeq(dir[<<s, Plain>>].entries, 1, i - s + 1), torn |-> FALSE]
    IN /\ first <= i /\ i < LastIndex
       /\ Truncates(2)
       /\ dir' = (end :> kept) @@ dir
       /\ history' = SubSeq(history, 1, i)
       /\ epoch' = epoch + 1
       /\ writer' = [pc |-> "removing", from |-> end,
                     todo |-> SelectSeq(ReadDir(dir), LAMBDA n : n[1] >= s)]
       /\ UNCHANGED first

RemoveSegment ==
    /\ writer.pc = "removing" /\ writer.todo # <<>>
    /\ dir' = Restrict(dir, DOMAIN dir \ {Head(writer.todo)})
    /\ writer' = [writer EXCEPT !.todo = Tail(@)]
    /\ UNCHANGED <<logVars, used, reader>>

RenameSegment ==
    /\ writer.pc = "removing" /\ writer.todo = <<>>
    /\ dir' = (<<writer.from[1], Plain>> :> dir[writer.from]) @@ Restrict(dir, DOMAIN dir \ {writer.from})
    /\ writer' = Idle
    /\ UNCHANGED <<logVars, used, reader>>

Crash ==
    /\ writer.pc # "down" /\ used.crashes < MaxCrashes
    /\ used' = [used EXCEPT !.crashes = @ + 1]
    /\ writer' = Down
    /\ UNCHANGED <<dir, logVars, reader>>

(* what wal.Open removes before it renames a .START or an .END file *)
RecoveryTodo(d, n) ==
    IF n[2] = START THEN SelectSeq(ReadDir(d), LAMBDA m : Before(m, n))
    ELSE Reverse(SelectSeq(ReadDir(d), LAMBDA m : Before(n, m) \/ m = <<n[1], Plain>>))

(* wal.Open on an existing log finishes a truncation; a torn tail is cut off and it opens again *)
OpenWAL ==
    LET pending == Segments(dir, START) \union Segments(dir, END)
        segments == listWALSegments(dir).segments
    IN /\ writer.pc = "down"
       /\ IF DOMAIN dir = {}
          THEN dir' = (<<1, Plain>> :> EmptyFile) /\ writer' = Idle
          ELSE IF pending # {}
          THEN LET n == CHOOSE m \in pending : TRUE
               IN writer' = [pc |-> "removing", from |-> n, todo |-> RecoveryTodo(dir, n)] /\ UNCHANGED dir
          ELSE dir' = [dir EXCEPT ![Last(segments)] = truncateCorruptedTail(@)] /\ writer' = Idle
       /\ UNCHANGED <<logVars, used, reader>>

-----------------------------------------------------------------------------
(* The reader: openReadOnlyWAL lists the directory, then reads the tail.   *)
openReadOnlyWAL ==
    /\ reader.pc = "closed"
    /\ reader' = [NoReader EXCEPT !.pc = "list", !.races = IF Segments(dir, END) # {} THEN 1 ELSE 0]
    /\ UNCHANGED <<dir, writer, logVars, used>>

tryOpenList ==
    LET found == listWALSegments(dir)
    IN /\ reader.pc = "list"
       /\ reader' = IF found.corrupt THEN [reader EXCEPT !.pc = "failed"]
                    ELSE [reader EXCEPT !.pc = IF found.segments = <<>> THEN "open" ELSE "tail",
                                        !.segments = found.segments, !.attempts = @ + 1,
                                        !.committed = LastIndex, !.epoch = epoch]
       /\ UNCHANGED <<dir, writer, logVars, used>>

(* no retry but after ErrNotExist *)
tryOpenTail ==
    LET tail == Last(reader.segments)
        path == Resolve(dir, tail)
    IN /\ reader.pc = "tail"
       /\ reader' = IF path \in DOMAIN dir
                    THEN LET entries == readWALEntries(dir[path]).entries
                         IN [reader EXCEPT !.pc = "open", !.tail = entries,
                                           !.lastIndex = tail[1] + Len(entries) - 1]
                    ELSE [reader EXCEPT !.pc = IF reader.attempts < readOnlyWALOpenAttempts THEN "list" ELSE "failed"]
       /\ UNCHANGED <<dir, writer, logVars, used>>

BugRead(k) ==
    LET path == Resolve(dir, reader.segments[k])
    IN /\ reader.pc = "open" /\ k < Len(reader.segments) /\ reader.cached # k
       /\ path \in DOMAIN dir /\ ~readWALEntries(dir[path]).torn
       /\ reader' = [reader EXCEPT !.cached = k,
                                   !.entries = IF @ = <<>> THEN readWALEntries(dir[path]).entries ELSE @]
       /\ UNCHANGED <<dir, writer, logVars, used>>

(* Read of an entry of segment k, not the tail, that is not the one cached: *)
(* a missing or a torn file is an error and leaves the reader as it was.    *)
Read(k) ==
    LET path == Resolve(dir, reader.segments[k])
    IN /\ reader.pc = "open" /\ k < Len(reader.segments) /\ reader.cached # k
       /\ path \in DOMAIN dir /\ ~readWALEntries(dir[path]).torn
       /\ reader' = [reader EXCEPT !.cached = k, !.entries = readWALEntries(dir[path]).entries]
       /\ UNCHANGED <<dir, writer, logVars, used>>

Close ==
    /\ reader.pc \in {"open", "failed"}
    /\ reader' = NoReader
    /\ UNCHANGED <<dir, writer, logVars, used>>

Next ==
    \/ WriteStart \/ WriteEnd \/ Cycle
    \/ \E i \in 1 .. LastIndex : TruncateFront(i) \/ TruncateBack(i)
    \/ RemoveSegment \/ RenameSegment
    \/ Crash \/ OpenWAL
    \/ openReadOnlyWAL \/ tryOpenList \/ tryOpenTail
    \/ \E k \in DOMAIN reader.segments : Read(k)
    \/ Close

Spec == Init /\ [][Next]_vars

-----------------------------------------------------------------------------
(* What wal.Open would make of a directory. *)
Recovered(d) ==
    LET pending == Segments(d, START) \union Segments(d, END)
    IN IF pending = {} THEN d
       ELSE LET n == CHOOSE m \in pending : TRUE
            IN (<<n[1], Plain>> :> d[n]) @@ Restrict(d, (DOMAIN d \ ToSet(RecoveryTodo(d, n))) \ {n})

(* At every moment of a write, a truncation, a crash and a recovery,       *)
(* listWALSegments finds the segments wal.Open would keep, and their       *)
(* complete entries are the log without gap or overlap: from the first     *)
(* index the last TruncateFront asked for to the last entry not truncated. *)
ListedLogExact ==
    LET found == listWALSegments(dir)
        names == found.segments
        entries(i) == readWALEntries(dir[names[i]]).entries
        recovered == Recovered(dir)
    IN /\ ~found.corrupt
       /\ {n[1] : n \in ToSet(names)} = {n[1] : n \in DOMAIN recovered}
       /\ \A i \in DOMAIN names : dir[names[i]] = recovered[<<names[i][1], Plain>>]
       /\ names # <<>> =>
            /\ names[1][1] = first
            /\ \A i \in 1 .. Len(names) - 1 : names[i + 1][1] = names[i][1] + Len(entries(i))
            /\ FlattenSeq([i \in DOMAIN names |-> entries(i)]) = SubSeq(history, first, LastIndex)

(* A log opened by openReadOnlyWAL, as long as it was not rolled back      *)
(* since, ends no earlier than the entries complete when it was listed,    *)
(* and every Read that succeeds, from the tail or from a segment loaded    *)
(* long after the open, returns the entry the writer put at that index;    *)
(* a segment that loads holds every index the reader looks for in it.      *)
ReadsExact ==
    reader.pc = "open" /\ reader.epoch = epoch =>
        LET segments == reader.segments
            holds(k, entries) ==
                entries = SubSeq(history, segments[k][1], segments[k][1] + Len(entries) - 1)
        IN /\ reader.committed <= reader.lastIndex /\ reader.lastIndex <= LastIndex
           /\ segments # <<>> => holds(Len(segments), reader.tail)
           /\ reader.cached # 0 =>
                /\ holds(reader.cached, reader.entries)
                /\ segments[reader.cached + 1][1] <= segments[reader.cached][1] + Len(reader.entries)

(* openReadOnlyWAL gives up after three attempts that lost the tail file   *)
(* between listing and reading it.  A TruncateFront can cost it one        *)
(* attempt and a TruncateBack two, so a single truncation, even one that   *)
(* is interrupted by a crash and recovered, never makes an open fail.      *)
FailedOpenWasRaced == reader.pc = "failed" => reader.races >= readOnlyWALOpenAttempts
=============================================================================
