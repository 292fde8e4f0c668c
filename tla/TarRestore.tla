----------------------------- MODULE TarRestore -----------------------------
(***************************************************************************)
(* The round trip of the tar-aware chunker: once all backups are cut, each *)
(* is written back by dataWrite::restoreHeaderFile, which reads the header *)
(* chunks one block at a time, parses each block again with its own        *)
(* CutPointTarFast, and takes data chunks from the other recipe where the  *)
(* header announces data.  Chunks come back from the store as they went in *)
(* (ChunkStore).                                                           *)
(***************************************************************************)
EXTENDS TarChunker

VARIABLES
    restore,   \* where the restorer is
    restored,  \* the backup it writes
    HeaderP,   \* next entry of the header recipe
    DataP,     \* next entry of the data recipe
    headers,   \* MultiHeaderBuffer, as far as it is filled
    offset,    \* MultiHeaderOffset, in half blocks
    bigLeft,   \* what a big file still lacks
    outFile    \* what is written

restoreVars == <<restore, restored, HeaderP, DataP, headers, offset, bigLeft,
                 outFile>>
vars == <<chunkerVars, restoreVars>>

\* in half blocks: a block that is not whole counts as one
HeaderSize == 2
Bytes(blocks) ==
    HeaderSize * Len(blocks) - Cardinality({i \in DOMAIN blocks : ~blocks[i].whole})

MultiHeaderChunkSize == Bytes(headers)
HeaderEnd == HeaderP > Len(recipeH[restored])
DataEnd == DataP > Len(recipeD[restored])

\* a header block is always written whole
Written(b) == [b EXCEPT !.whole = TRUE]

\* The restorer's own view of a header: its limit is CONTAINER_MAX_SIZE, and
\* an AREGTYPE entry keeps the size its digits stand for.
Announces(b) ==
    CASE b.kind = "other" -> FILE_HEADER
      [] b.kind = "LONGNAME" -> FILE_CHUNK
      [] OTHER -> IF b.size <= CONTAINER_MAX_SIZE THEN FILE_CHUNK ELSE BIG_CHUNK

\* the loop's condition (datawrite.cc:283)
Unfinished == ~HeaderEnd \/ ~DataEnd \/ MultiHeaderChunkSize # offset

-----------------------------------------------------------------------------
StartRestore ==
    /\ restore = "idle" /\ chunker = "closed" /\ backup = backupNum
    /\ restored < backupNum
    /\ restored' = restored + 1
    /\ restore' = "loop"
    /\ HeaderP' = 1 /\ DataP' = 1 /\ outFile' = <<>>
    /\ UNCHANGED <<chunkerVars, headers, offset, bigLeft>>

\* nothing left, or a used-up header buffer that is not refilled: there is no
\* header, or the last file left the offset past its end
EndRestore ==
    /\ restore = "loop"
    /\ \/ ~Unfinished
       \/ offset >= MultiHeaderChunkSize
          /\ ~(offset = MultiHeaderChunkSize /\ ~HeaderEnd)
    /\ restore' = "idle"
    /\ UNCHANGED <<chunkerVars, restored, HeaderP, DataP, headers, offset,
                   bigLeft, outFile>>

Refill ==
    /\ restore = "loop" /\ ~HeaderEnd
    /\ MultiHeaderChunkSize = offset
    /\ headers' = recipeH[restored][HeaderP].data
    /\ offset' = 0
    /\ HeaderP' = HeaderP + 1
    /\ UNCHANGED <<chunkerVars, restore, restored, DataP, bigLeft, outFile>>

\* one header, and the data chunk of its file if it has one
\* (mutant: an empty file takes a chunk too)
RestoreHeader_EmptyToo ==
    /\ restore = "loop" /\ offset < MultiHeaderChunkSize
    /\ LET b == headers[offset \div HeaderSize + 1]
           announced == IF DataEnd THEN FILE_HEADER ELSE Announces(b)
       IN  /\ outFile' = outFile \o <<Written(b)>> \o
                             (IF announced = FILE_CHUNK
                              THEN recipeD[restored][DataP].data ELSE <<>>)
           /\ DataP' = IF announced = FILE_CHUNK THEN DataP + 1 ELSE DataP
           /\ restore' = IF announced = BIG_CHUNK THEN "big" ELSE "loop"
           /\ bigLeft' = IF announced = BIG_CHUNK THEN b.size ELSE bigLeft
    /\ offset' = offset + HeaderSize
    /\ UNCHANGED <<chunkerVars, restored, HeaderP, headers>>

RestoreHeader ==
    /\ restore = "loop" /\ offset < MultiHeaderChunkSize
    /\ LET b == headers[offset \div HeaderSize + 1]
           announced == IF b.size = 0 \/ DataEnd THEN FILE_HEADER ELSE Announces(b)
       IN  /\ outFile' = outFile \o <<Written(b)>> \o
                             (IF announced = FILE_CHUNK
                              THEN recipeD[restored][DataP].data ELSE <<>>)
           /\ DataP' = IF announced = FILE_CHUNK THEN DataP + 1 ELSE DataP
           /\ restore' = IF announced = BIG_CHUNK THEN "big" ELSE "loop"
           /\ bigLeft' = IF announced = BIG_CHUNK THEN b.size ELSE bigLeft
    /\ offset' = offset + HeaderSize
    /\ UNCHANGED <<chunkerVars, restored, HeaderP, headers>>

\* the subtraction is unsigned: a chunk too long leaves a huge rest, which
\* stays different from 0 as a negative number does here
RestoreBig ==
    /\ restore = "big" /\ bigLeft # 0 /\ ~DataEnd
    /\ LET c == recipeD[restored][DataP]
       IN  /\ outFile' = outFile \o c.data
           /\ bigLeft' = bigLeft - Len(c.data)
    /\ DataP' = DataP + 1
    /\ UNCHANGED <<chunkerVars, restore, restored, HeaderP, headers, offset>>

EndBigFile ==
    /\ restore = "big" /\ bigLeft = 0
    /\ restore' = "loop"
    /\ UNCHANGED <<chunkerVars, restored, HeaderP, DataP, headers, offset,
                   bigLeft, outFile>>

\* the loop over a big file does not look where the recipe ends: what it
\* reads there is undefined
ReadPastRecipe ==
    /\ restore = "big" /\ bigLeft # 0 /\ DataEnd
    /\ restore' = "undefined"
    /\ UNCHANGED <<chunkerVars, restored, HeaderP, DataP, headers, offset,
                   bigLeft, outFile>>

Init ==
    /\ ChunkerInit
    /\ restore = "idle" /\ restored = 0
    /\ HeaderP = 1 /\ DataP = 1
    /\ headers = <<>> /\ offset = 0 /\ bigLeft = 0
    /\ outFile = <<>>

RestoreNext ==
    \/ StartRestore \/ Refill \/ RestoreHeader \/ RestoreBig \/ EndBigFile
    \/ EndRestore \/ ReadPastRecipe

Next == (ChunkerNext /\ UNCHANGED restoreVars) \/ RestoreNext

Spec == Init /\ [][Next]_vars
FairSpec == Spec /\ WF_vars(Next)

-----------------------------------------------------------------------------
(* Properties *)

AfterRestore == restore = "idle" /\ restored > 0

\* The file written back is the file that was cut: "a pair of segments can be
\* restored" (chunker.cc:417), wherever windows and segments ended.
RoundTrip == /\ restore # "undefined"
             /\ AfterRestore => outFile = files[restored]

\* The restore ends where its loop says it ends (datawrite.cc:283): both
\* recipes read to their ends and the header buffer used up.
EndsWhenConsumed == AfterRestore => ~Unfinished

\* The loop over a big file takes that file's chunks and no others, so it
\* never reads past the recipe.
BigFileExact == restore # "undefined" /\ bigLeft >= 0

\* what both parsers read alike: an AREGTYPE entry keeps its size in the
\* restorer only, and of a block that is not whole the restorer writes a whole
\* one; a name longer than a container could reach the end of its window
ReadAlike(b) ==
    /\ b.whole
    /\ b.kind = "AREGTYPE" => b.size = 0
    /\ b.kind = "LONGNAME" => b.size <= CONTAINER_MAX_SIZE
HeadersAgree(f) == \A b \in Blocks(recipeH[f]) : ReadAlike(b)

\* Whatever windows and segments do, and even where data was cut as headers,
\* the restorer follows the chunker: as long as both read alike what was cut as
\* a header, each backup is written back as it was, both recipes are used up,
\* and the loop over a big file ends at its last chunk.
RoundTripFollowed ==
    (\A f \in 1 .. backupNum : HeadersAgree(f))
        => RoundTrip /\ EndsWhenConsumed /\ BigFileExact

\* Every backup is cut and its restore comes to an end, unless what is read is
\* undefined: no read, cut or refill leaves a loop where it was.
AllRestored == <>(\/ "undefined" \in {chunker, restore}
                  \/ AfterRestore /\ restored = backupNum)
=============================================================================
