------------------------------- MODULE ExtSort -------------------------------
(***************************************************************************)
(* External sorting (versiondb/extsort): items are cut into chunks, each   *)
(* chunk is sorted and saved by a goroutine of its own, delta encoded, and *)
(* the chunk files are merged. An item is the sequence of its bytes.       *)
(***************************************************************************)
EXTENDS Integers, Sequences, SequencesExt, FiniteSetsExt

CONSTANTS LesserFunc(_, _),  \* Options.LesserFunc
          MaxChunkSize       \* Options.MaxChunkSize

(* the length of the common prefix *)
diffOffset(a, b) ==
    Max({0} \cup {n \in 1 .. Min({Len(a), Len(b)}) : SubSeq(a, 1, n) = SubSeq(b, 1, n)})

(* what is written for an item depends on the item before it *)
EncoderWrite(acc, item) ==
    LET shared == diffOffset(acc.last, item)
    IN [last |-> item, file |-> Append(acc.file, [shared |-> shared, rest |-> SubSeq(item, shared + 1, Len(item))])]

Encode(items) == FoldLeft(EncoderWrite, [last |-> <<>>, file |-> <<>>], items).file

DecoderRead(acc, record) ==
    LET item == SubSeq(acc.last, 1, record.shared) \o record.rest
    IN [last |-> item, items |-> Append(acc.items, item)]

Decode(file) == FoldLeft(DecoderRead, [last |-> <<>>, items |-> <<>>], file).items

-----------------------------------------------------------------------------
NewSorter == [currentChunk |-> <<>>, currentChunkSize |-> 0, chunks |-> <<>>]

sortChunkAndRotate(s) ==
    [currentChunk |-> <<>>, currentChunkSize |-> 0, chunks |-> Append(s.chunks, s.currentChunk)]

Feed(s, item) ==
    LET fed == [s EXCEPT !.currentChunk = Append(@, item), !.currentChunkSize = @ + Len(item) + 4]
    IN IF fed.currentChunkSize >= MaxChunkSize THEN sortChunkAndRotate(fed) ELSE fed

(* Finalize handles the chunk that is not full *)
Pending(s) == IF s.currentChunkSize > 0 THEN sortChunkAndRotate(s).chunks ELSE s.chunks

sortAndSaveChunk(chunk) == Encode(SortSeq(chunk, LesserFunc))

(* the chunk files, before the goroutines finish in some order *)
ChunkFiles(items) ==
    LET chunks == Pending(FoldLeft(Feed, NewSorter, items))
    IN [i \in DOMAIN chunks |-> sortAndSaveChunk(chunks[i])]

(* MultiWayMerge.Next: the smallest head; an exhausted stream leaves the heap *)
RECURSIVE MultiWayMerge(_)
MultiWayMerge(streams) ==
    LET live == SelectSeq(streams, LAMBDA s : s # <<>>)
        min == CHOOSE i \in DOMAIN live : \A j \in DOMAIN live : ~LesserFunc(live[j][1], live[i][1])
    IN IF live = <<>> THEN <<>>
       ELSE <<live[min][1]>> \o MultiWayMerge([live EXCEPT ![min] = Tail(@)])

(* chunkFiles in the order the goroutines appended them *)
Finalize(chunkFiles) == MultiWayMerge([i \in DOMAIN chunkFiles |-> Decode(chunkFiles[i])])
=============================================================================
