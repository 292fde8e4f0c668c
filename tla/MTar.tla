------------------------------- MODULE MTar -------------------------------
(***************************************************************************)
(* The rearrangement of -c 5 and its inverse.  Before the first backup is  *)
(* chunked, Chunker::MTar reads every file twice and writes it again, all  *)
(* data first and all headers behind it (file.m, which FastCDC then cuts); *)
(* after a restore, dataWrite::MTar2Tar merges the two parts.  Both passes *)
(* find out again, with windows of their own, what is a header; the merge  *)
(* finds it out a third time, from the headers alone.                      *)
(*                                                                         *)
(* Blocks, headers and CutPointTarFast are those of TarChunker; the names  *)
(* it notes are used by nobody here and left alone.                        *)
(***************************************************************************)
EXTENDS TarChunker

VARIABLES
    pass,    \* "data", "headers", then "restore" and "done"
    outFile, \* what the current file's passes have written
    mfiles,  \* file -> file.m: its first word dataSize, and its blocks
    tars     \* file -> what MTar2Tar made of file.m

mtarVars == <<chunkerVars, pass, outFile, mfiles, tars>>
unused   == <<files, cpSum, headerBuffer, naming, recipes>>

\* the data pass reads less at a time
BufferSize == IF pass = "data" THEN READ_FILE_SIZE ELSE Window

-----------------------------------------------------------------------------
(* Chunker::MTar *)

Read ==
    /\ chunker = "read" /\ pass \in {"data", "headers"}
    /\ LET left == Len(File) - window.totalOffset
       IN  /\ window' = [window EXCEPT !.len = MinOf(BufferSize, left),
                                       !.end = left < BufferSize]
           /\ chunker' = IF left = 0 THEN "closed" ELSE "cut"
           /\ localOffset' = IF left = 0 THEN localOffset ELSE 0
    /\ UNCHANGED <<unused, backup, next, localType, pass, outFile, mfiles, tars>>

\* (mutant: a short rest is cut before the next window is read)
InBuffer_NoReserve == SegLen > 0

\* the subtraction is unsigned: past the buffer's end it is huge
InBuffer ==
    \/ localOffset > window.len
    \/ SegLen >= CONTAINER_MAX_SIZE
    \/ window.end /\ SegLen > 0

CutPointTarFast ==
    CASE next.type = FILE_HEADER -> {[cp |-> 1, next |-> ParseHeader(Src(1)[1])]}
      [] next.type = FILE_CHUNK  -> {CutFile}
      [] next.type = BIG_CHUNK   -> CutsBig

\* one pass keeps what the other leaves out; an empty file gives nothing
Rewrite ==
    /\ chunker = "cut" /\ InBuffer
    /\ localType' = next.type
    /\ \E c \in CutPointTarFast :
          /\ next' = c.next
          /\ localOffset' = localOffset + c.cp
          /\ outFile' = IF (next.type = FILE_HEADER) = (pass = "headers")
                        THEN [outFile EXCEPT ![pass] = @ \o Src(c.cp)]
                        ELSE outFile
    /\ UNCHANGED <<unused, backup, chunker, window, pass, mfiles, tars>>

NextWindow ==
    /\ chunker = "cut" /\ ~InBuffer
    /\ window' = [window EXCEPT !.totalOffset = @ + localOffset]
    /\ chunker' = IF window.end THEN "closed" ELSE "read"
    /\ UNCHANGED <<unused, backup, localOffset, next, localType, pass, outFile,
                   mfiles, tars>>

StartPass ==
    /\ window' = [totalOffset |-> 0, len |-> 0, end |-> FALSE]
    /\ next' = [next EXCEPT !.type = FILE_HEADER]
    /\ localType' = FILE_HEADER
    /\ chunker' = "read"

HeaderPass ==
    /\ chunker = "closed" /\ pass = "data"
    /\ StartPass
    /\ pass' = "headers"
    /\ UNCHANGED <<unused, backup, localOffset, outFile, mfiles, tars>>

\* dataSize is what the data pass has written
CloseMTar ==
    /\ chunker = "closed" /\ pass = "headers"
    /\ StartPass
    /\ mfiles' = [mfiles EXCEPT ![backup] =
                      [dataSize |-> Len(outFile.data),
                       blocks   |-> outFile.data \o outFile.headers]]
    /\ outFile' = [data |-> <<>>, headers |-> <<>>]
    /\ IF backup < backupNum THEN backup' = backup + 1 /\ pass' = "data"
                             ELSE backup' = 1 /\ pass' = "restore"
    /\ UNCHANGED <<unused, localOffset, tars>>

-----------------------------------------------------------------------------
(* dataWrite::MTar2Tar *)

\* the data of one header: a long name only if it is shorter than a block, and
\* of the files only those marked '0'
DataOf(b) ==
    CASE b.kind = "LONGNAME" -> IF b.size = 1 THEN 1 ELSE 0
      [] b.kind = "REGTYPE"  -> b.size
      [] OTHER               -> 0

\* (mutant: the data of a long name is written and not counted)
Merge_LongNameStays(m, s, b) ==
    IF ~s.good \/ ~b.whole THEN [s EXCEPT !.good = FALSE]
    ELSE [tar    |-> s.tar \o <<b>>
                     \o SubSeq(m.blocks, s.offset + 1,
                               MinOf(s.offset + DataOf(b), Len(m.blocks))),
          offset |-> IF b.kind = "LONGNAME" THEN s.offset ELSE s.offset + DataOf(b),
          good   |-> s.offset + DataOf(b) <= Len(m.blocks)]

\* A header that is cut off ends the merge, and so does data that the file
\* does not have; data beyond the data part is taken from the headers.
Merge(m, s, b) ==
    IF ~s.good \/ ~b.whole THEN [s EXCEPT !.good = FALSE]
    ELSE [tar    |-> s.tar \o <<b>>
                     \o SubSeq(m.blocks, s.offset + 1,
                               MinOf(s.offset + DataOf(b), Len(m.blocks))),
          offset |-> s.offset + DataOf(b),
          good   |-> s.offset + DataOf(b) <= Len(m.blocks)]

MTar2Tar(m) ==
    FoldLeft(LAMBDA s, b : Merge(m, s, b),
             [tar |-> <<>>, offset |-> 0, good |-> TRUE],
             SubSeq(m.blocks, m.dataSize + 1, Len(m.blocks))).tar

\* main restores file.m, as it was stored, and merges it
Restore ==
    /\ pass = "restore"
    /\ tars' = [tars EXCEPT ![backup] = MTar2Tar(mfiles[backup])]
    /\ IF backup < backupNum THEN backup' = backup + 1 /\ pass' = pass
                             ELSE backup' = backup /\ pass' = "done"
    /\ UNCHANGED <<unused, chunker, window, localOffset, next, localType,
                   outFile, mfiles>>

-----------------------------------------------------------------------------
MTarInit ==
    /\ ChunkerInit
    /\ pass = "data"
    /\ outFile = [data |-> <<>>, headers |-> <<>>]
    /\ mfiles = [b \in 1 .. backupNum |-> [dataSize |-> 0, blocks |-> <<>>]]
    /\ tars = [b \in 1 .. backupNum |-> <<>>]

MTarNext == Read \/ Rewrite \/ NextWindow \/ HeaderPass \/ CloseMTar \/ Restore

MTarSpec == MTarInit /\ [][MTarNext]_mtarVars

-----------------------------------------------------------------------------
(* Properties *)

\* Wherever their windows and their cuts of a big file fell, the two passes
\* agree on what a header is: each block of the file is in exactly one part
\* of file.m, in its order.
PartOf(blocks, file) ==
    /\ \A i \in DOMAIN blocks : blocks[i] = file[blocks[i].id]
    /\ \A i, j \in DOMAIN blocks : i < j => blocks[i].id < blocks[j].id
PassesAgree ==
    \A b \in 1 .. backupNum : pass \in {"restore", "done"} \/ b < backup =>
        LET m == mfiles[b]
            data == SubSeq(m.blocks, 1, m.dataSize)
            headers == SubSeq(m.blocks, m.dataSize + 1, Len(m.blocks))
        IN  /\ PartOf(data, files[b]) /\ PartOf(headers, files[b])
            /\ \A i \in DOMAIN data, j \in DOMAIN headers : data[i].id # headers[j].id
            /\ {m.blocks[i].id : i \in DOMAIN m.blocks} = DOMAIN files[b]
=============================================================================
