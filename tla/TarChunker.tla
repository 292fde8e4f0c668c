----------------------------- MODULE TarChunker -----------------------------
(***************************************************************************)
(* The tar-aware chunker (-c 4): Chunker::Chunking reads a backup in       *)
(* windows and CutPointTarHeader cuts each window into segments, following *)
(* the headers with CutPointTarFast.  A segment gives one data chunk per   *)
(* file and then one chunk holding its headers; a file larger than         *)
(* BigChunkSize is cut by content instead.  Which chunk goes to which      *)
(* recipe is the method's choice (BiSearch): here headers go to recipeH    *)
(* and the rest to recipeD.                                                *)
(*                                                                         *)
(* The unit of length is the 512-byte block, also where a big file is cut, *)
(* whose cuts the code makes at any byte.  A block is known by its id and  *)
(* by what it says when it is read as a header, for data is read as a      *)
(* header too: after a type the chunker does not know, or where a window   *)
(* ended inside a file.                                                    *)
(***************************************************************************)
EXTENDS Integers, Sequences, SequencesExt, FiniteSets

CONSTANTS
    Archives,             \* the files a backup may consist of
    backupNum,            \* option -n
    READ_FILE_SIZE,       \* a window is this and the reserve below
    CONTAINER_MAX_SIZE,
    MULTI_HEADER_CHUNK,   \* option -H: headers of a segment
    DefaultHeaders,       \* its value while the buffers are allocated
    BigChunkSize,         \* option -B: files above it are cut by content
    MAX_CHUNK_SIZE        \* the longest chunk cut by content

Reserve == MULTI_HEADER_CHUNK * CONTAINER_MAX_SIZE
Window == READ_FILE_SIZE + Reserve

FILE_HEADER == "FILE_HEADER"
FILE_CHUNK == "FILE_CHUNK"
BIG_CHUNK == "BIG_CHUNK"

\* the type byte at 156, by the cases the code tells apart; size is what the
\* digits at 124 stand for, whole is FALSE of a file's last, shorter block
Kind == {"REGTYPE", "AREGTYPE", "LONGNAME", "other"}
Path == Seq(STRING)
Block == [id: Nat, kind: Kind, size: Nat, whole: BOOLEAN,
          name: Path \ {<<>>}, owner: Path]

ASSUME TarChunkerAssumption ==
    /\ backupNum \in Nat \ {0}
    /\ READ_FILE_SIZE \in Nat \ {0}
    /\ MULTI_HEADER_CHUNK \in Nat \ {0}
    /\ DefaultHeaders \in Nat \ {0}
    /\ MAX_CHUNK_SIZE \in Nat \ {0}
    /\ CONTAINER_MAX_SIZE \in Nat /\ CONTAINER_MAX_SIZE > MAX_CHUNK_SIZE
    /\ BigChunkSize \in Nat /\ BigChunkSize >= MAX_CHUNK_SIZE
    /\ Archives \subseteq Seq(Block)
    /\ \A a \in Archives : \A i \in DOMAIN a : a[i].id = i

VARIABLES
    files,        \* the backups
    backup,       \* the one being cut
    chunker,      \* where the chunker is
    window,       \* [totalOffset, len, end]: the window in readFileBuffer
    localOffset,  \* where the current segment starts in the window
    cpSum,        \* how much of it is cut
    next,         \* what comes next: type, size, and progress in a big file
    localType,    \* the type of what was cut last
    headerBuffer, \* the headers of the segment
    naming,       \* name, LongName, path and the two long-name flags
    recipeH,      \* backup -> its header chunks
    recipeD       \* backup -> its data chunks

chunkerVars == <<files, backup, chunker, window, localOffset, cpSum, next,
                 localType, headerBuffer, naming, recipeH, recipeD>>
recipes == <<recipeH, recipeD>>

MinOf(a, b) == IF a < b THEN a ELSE b

File == files[backup]
\* the rest of the window, as CutPointTarHeader gets it
SegLen == window.len - localOffset
\* n blocks from where the chunker stands; past the window lies nothing known
Src(n) ==
    LET first == window.totalOffset + localOffset + cpSum
    IN  SubSeq(File, first + 1, MinOf(first + n, Len(File)))

-----------------------------------------------------------------------------
(* Names: a name is the sequence of the parts of a path, and of the NULs *)
(* behind it where it is text in a buffer                                *)

NUL == "NUL"
\* hashNameToUint64 reads up to the first NUL
CString(text) ==
    SubSeq(text, 1,
           Cardinality({i \in DOMAIN text : \A j \in 1 .. i : text[j] # NUL}))
\* std::copy leaves what stands behind the copy
CopyOver(text, old) == text \o SubSeq(old, Len(text) + 1, Len(old))

\* the data's name drops the first directory
FindName(full) == IF Len(full) > 1 THEN Tail(full) ELSE full

\* the headers' name drops the first directory and the last part, or the
\* last two; without a directory the old path stays
ExtractPath(full, old) ==
    LET remainder == Tail(full)
    IN  IF Len(full) = 1 THEN old
        ELSE SubSeq(remainder, 1,
                    Len(remainder) - (IF Len(remainder) > 3 THEN 2 ELSE 1))

-----------------------------------------------------------------------------
(* CutPointTarFast: what is cut next, and what comes after it *)

\* the size decides between one chunk and content-defined ones; an AREGTYPE
\* entry is taken to have no data; other types leave the type alone
ParseHeader(b) ==
    LET size == IF b.kind = "AREGTYPE" THEN 0 ELSE b.size
        big == b.kind = "REGTYPE" /\ b.size > BigChunkSize
    IN  [next EXCEPT
            !.type = CASE big -> BIG_CHUNK [] b.kind = "other" -> @
                       [] OTHER -> FILE_CHUNK,
            !.size = size,
            !.bigSize = IF big THEN size ELSE @,
            !.bigOffset = IF big THEN 0 ELSE @]

\* a long-name entry is remembered; big files and other types have no name
ParseNames(b) ==
    IF b.kind = "other" \/ (b.kind = "REGTYPE" /\ b.size > BigChunkSize)
    THEN naming
    ELSE [naming EXCEPT !.name = FindName(b.name),
                        !.path = ExtractPath(b.name, @),
                        !.long1 = @ \/ b.kind = "LONGNAME"]

\* a file's data ends with the window at the latest; then comes a header
CutFile == [cp |-> MinOf(next.size, SegLen - cpSum),
            next |-> [next EXCEPT !.type = FILE_HEADER, !.size = 1]]

\* where CutPointFastCDC cuts depends on the content
CutsBig ==
    LET left == next.bigSize - next.bigOffset
    IN  IF left > MAX_CHUNK_SIZE
        THEN {[cp |-> c, next |-> [next EXCEPT !.bigOffset = @ + c]] :
                  c \in 1 .. MAX_CHUNK_SIZE}
        ELSE {[cp |-> left, next |-> [next EXCEPT !.type = FILE_HEADER]]}

\* a long name with nothing in it, or without a directory: the test for the
\* slash that was not found is always true, and a length of -1 is copied
NoSlash == next.size = 0 \/ Len(Src(1)[1].name) = 1

\* LongName, after the name in a long-name entry's data was copied to it; of
\* a length of -1 nothing is copied, if the copy returns (CopyNegative)
FindLongName == IF naming.long1 /\ ~NoSlash
                THEN CopyOver(Tail(Src(1)[1].name), naming.LongName)
                ELSE naming.LongName

-----------------------------------------------------------------------------
(* CutPointTarHeader, the segments that start at a header *)

\* a header that is followed by data does not end the segment, big data does
\* (mutant: one header more)
MultiGoesOn_OneMore ==
    /\ next.type # BIG_CHUNK
    /\ \/ Len(headerBuffer) <= MULTI_HEADER_CHUNK
       \/ localType = FILE_HEADER /\ next.type = FILE_CHUNK

MultiGoesOn ==
    /\ next.type # BIG_CHUNK
    /\ \/ Len(headerBuffer) < MULTI_HEADER_CHUNK
       \/ localType = FILE_HEADER /\ next.type = FILE_CHUNK

\* the window's end ends the segment, and a header is expected after it
\* (mutant: what comes next is left as it is)
AfterCut_NoReset(c) ==
    /\ cpSum' = cpSum + c.cp
    /\ localType' = next.type
    /\ next' = c.next
    /\ chunker' = IF c.cp > 0 /\ cpSum + c.cp = SegLen THEN "flush" ELSE chunker

AfterCut(c) ==
    /\ cpSum' = cpSum + c.cp
    /\ localType' = next.type
    /\ IF c.cp > 0 /\ cpSum + c.cp = SegLen
       THEN next' = [c.next EXCEPT !.type = FILE_HEADER] /\ chunker' = "flush"
       ELSE next' = c.next /\ chunker' = chunker

CutHeader ==
    /\ chunker = "multi" /\ MultiGoesOn /\ next.type = FILE_HEADER
    /\ LET b == Src(1)[1]
       IN  /\ AfterCut([cp |-> 1, next |-> ParseHeader(b)])
           /\ naming' = ParseNames(b)
           /\ headerBuffer' = Append(headerBuffer, b)
    /\ UNCHANGED <<files, backup, window, localOffset, recipes>>

\* a C++ library that hands the length of -1 to memmove ends the process here
CopyNegative ==
    /\ chunker = "multi" /\ MultiGoesOn /\ next.type = FILE_CHUNK
    /\ naming.long1 /\ NoSlash
    /\ chunker' = "undefined"
    /\ UNCHANGED <<files, backup, window, localOffset, cpSum, next, localType,
                   headerBuffer, naming, recipes>>

\* an empty file gives no chunk, and leaves the long-name flags
CutEmpty ==
    /\ chunker = "multi" /\ MultiGoesOn /\ next.type = FILE_CHUNK
    /\ next.size = 0
    /\ AfterCut(CutFile)
    /\ UNCHANGED <<files, backup, window, localOffset, headerBuffer, naming,
                   recipes>>

\* (mutant: the long name is kept for all data that follows)
CutData_KeepsLong2 ==
    /\ chunker = "multi" /\ MultiGoesOn /\ next.type = FILE_CHUNK
    /\ next.size > 0
    /\ AfterCut(CutFile)
    /\ naming' = [naming EXCEPT !.LongName = FindLongName,
                                !.long1 = FALSE, !.long2 = @ \/ naming.long1]
    /\ recipeD' = [recipeD EXCEPT ![backup] = Append(@,
            [data |-> Src(CutFile.cp), CDCFlag |-> FALSE,
             name |-> CString(IF naming.long1 \/ naming.long2
                              THEN FindLongName ELSE naming.name),
             offset |-> IF naming.long1 THEN 1 ELSE 0])]
    /\ UNCHANGED <<files, backup, window, localOffset, headerBuffer, recipeH>>

\* the data of a long-name entry gets a name next to the long one, and the
\* data after it the long name
CutData ==
    /\ chunker = "multi" /\ MultiGoesOn /\ next.type = FILE_CHUNK
    /\ next.size > 0
    /\ AfterCut(CutFile)
    /\ naming' = [naming EXCEPT !.LongName = FindLongName,
                                !.long1 = FALSE, !.long2 = naming.long1]
    /\ recipeD' = [recipeD EXCEPT ![backup] = Append(@,
            [data |-> Src(CutFile.cp), CDCFlag |-> FALSE,
             name |-> CString(IF naming.long1 \/ naming.long2
                              THEN FindLongName ELSE naming.name),
             offset |-> IF naming.long1 THEN 1 ELSE 0])]
    /\ UNCHANGED <<files, backup, window, localOffset, headerBuffer, recipeH>>

PushHeaders ==
    /\ chunker = "flush" \/ (chunker = "multi" /\ ~MultiGoesOn)
    /\ recipeH' = [recipeH EXCEPT ![backup] =
                       Append(@, [data |-> headerBuffer, name |-> naming.path])]
    /\ headerBuffer' = <<>>
    /\ localOffset' = localOffset + cpSum
    /\ chunker' = "cut"
    /\ UNCHANGED <<files, backup, window, cpSum, next, localType, naming,
                   recipeD>>

-----------------------------------------------------------------------------
(* CutPointTarHeader, the segments inside a big file *)

BigGoesOn == /\ next.type # FILE_HEADER
             /\ cpSum < CONTAINER_MAX_SIZE - MAX_CHUNK_SIZE

CutBig ==
    /\ chunker = "big" /\ BigGoesOn
    /\ \E c \in CutsBig :
          /\ cpSum' = cpSum + c.cp
          /\ next' = c.next
          /\ chunker' = IF cpSum + c.cp = SegLen THEN "bigend" ELSE "big"
          /\ recipeD' = [recipeD EXCEPT ![backup] = Append(@,
                            [data |-> Src(c.cp), CDCFlag |-> TRUE,
                             name |-> <<>>, offset |-> 0])]
    /\ localType' = next.type
    /\ UNCHANGED <<files, backup, window, localOffset, headerBuffer, naming,
                   recipeH>>

EndBig ==
    /\ chunker = "bigend" \/ (chunker = "big" /\ ~BigGoesOn)
    /\ naming' = [naming EXCEPT !.long1 = FALSE, !.long2 = FALSE]
    /\ localOffset' = localOffset + cpSum
    /\ chunker' = "cut"
    /\ UNCHANGED <<files, backup, window, cpSum, next, localType,
                   headerBuffer, recipes>>

-----------------------------------------------------------------------------
(* Chunking: the windows of a file, and main's loop over the files *)

\* the subtraction is unsigned: past the window's end it is huge
InWindow ==
    \/ localOffset > window.len
    \/ SegLen >= Reserve
    \/ window.end /\ localOffset < window.len

\* the end shows when a read comes back short
\* (mutant: only when it comes back empty)
ReadWindow_EndWhenEmpty ==
    /\ chunker = "read"
    /\ LET left == Len(File) - window.totalOffset
       IN  /\ window' = [window EXCEPT !.len = MinOf(Window, left),
                                       !.end = left = 0]
           /\ chunker' = IF left = 0 THEN "closed" ELSE "cut"
           /\ localOffset' = IF left = 0 THEN localOffset ELSE 0
    /\ UNCHANGED <<files, backup, cpSum, next, localType, headerBuffer,
                   naming, recipes>>

ReadWindow ==
    /\ chunker = "read"
    /\ LET left == Len(File) - window.totalOffset
       IN  /\ window' = [window EXCEPT !.len = MinOf(Window, left),
                                       !.end = left < Window]
           /\ chunker' = IF left = 0 THEN "closed" ELSE "cut"
           /\ localOffset' = IF left = 0 THEN localOffset ELSE 0
    /\ UNCHANGED <<files, backup, cpSum, next, localType, headerBuffer,
                   naming, recipes>>

StartSegment ==
    /\ chunker = "cut" /\ InWindow
    /\ cpSum' = 0
    /\ chunker' = IF next.type = FILE_HEADER THEN "multi" ELSE "big"
    /\ UNCHANGED <<files, backup, window, localOffset, next, localType,
                   headerBuffer, naming, recipes>>

\* (mutant: the next window starts where this one ended)
EndWindow_SkipsRest ==
    /\ chunker = "cut" /\ ~InWindow
    /\ window' = [window EXCEPT !.totalOffset = @ + window.len]
    /\ chunker' = IF window.end THEN "closed" ELSE "read"
    /\ UNCHANGED <<files, backup, localOffset, cpSum, next, localType,
                   headerBuffer, naming, recipes>>

EndWindow ==
    /\ chunker = "cut" /\ ~InWindow
    /\ window' = [window EXCEPT !.totalOffset = @ + localOffset]
    /\ chunker' = IF window.end THEN "closed" ELSE "read"
    /\ UNCHANGED <<files, backup, localOffset, cpSum, next, localType,
                   headerBuffer, naming, recipes>>

\* the chunker's members live on from file to file
LoadChunkFile ==
    /\ chunker = "closed" /\ backup < backupNum
    /\ backup' = backup + 1
    /\ window' = [totalOffset |-> 0, len |-> 0, end |-> FALSE]
    /\ chunker' = "read"
    /\ UNCHANGED <<files, localOffset, cpSum, next, localType, headerBuffer,
                   naming, recipes>>

ChunkerInit ==
    /\ files \in [1 .. backupNum -> Archives]
    /\ backup = 1
    /\ chunker = "read"
    /\ window = [totalOffset |-> 0, len |-> 0, end |-> FALSE]
    /\ localOffset = 0 /\ cpSum = 0
    /\ next = [type |-> FILE_HEADER, size |-> 0, bigSize |-> 0, bigOffset |-> 0]
    /\ localType = FILE_HEADER
    /\ headerBuffer = <<>>
    /\ naming = [name |-> <<>>, LongName |-> <<>>, path |-> <<>>,
                 long1 |-> FALSE, long2 |-> FALSE]
    /\ recipeH = [f \in 1 .. backupNum |-> <<>>]
    /\ recipeD = [f \in 1 .. backupNum |-> <<>>]

Cut == \/ CutHeader \/ CopyNegative \/ CutEmpty \/ CutData \/ PushHeaders
       \/ CutBig \/ EndBig

ChunkerNext ==
    ReadWindow \/ StartSegment \/ Cut \/ EndWindow \/ LoadChunkFile

-----------------------------------------------------------------------------
(* Properties *)

\* No segment reaches past its window: the subtraction in the window loop
\* (chunker.cc:126) never wraps, and no chunk copies what was not read.
CutsInsideWindow ==
    /\ chunker = "cut" => localOffset <= window.len
    /\ chunker \in {"multi", "flush", "big", "bigend"} => cpSum <= SegLen

\* The headers of a segment fit into headerBuffer here and MultiHeaderBuffer
\* in the restorer (datawrite.cc:6), allocated before option -H ("Multi-header
\* chunk count", README.md:79) is stored.
HeaderBufferFits == Len(headerBuffer) <= DefaultHeaders

\* A segment stays inside both buffers, the window it is cut from and the one
\* that collects its headers.
InsideBuffers == CutsInsideWindow /\ HeaderBufferFits

Blocks(chunks) == UNION {Range(chunks[i].data) : i \in DOMAIN chunks}
\* no block comes twice in chunks
EachOnce(chunks) ==
    \A m, n \in DOMAIN chunks :
        \A j \in DOMAIN chunks[m].data, k \in DOMAIN chunks[n].data :
            chunks[m].data[j] = chunks[n].data[k] => m = n /\ j = k

\* What is cut is what was read: each block of a closed file is in one chunk
\* of one recipe, so none was skipped or cut twice where two windows meet.
NothingLost ==
    chunker = "closed" =>
        LET h == recipeH[backup]
            d == recipeD[backup]
        IN  /\ Blocks(h) \cup Blocks(d) = Range(File)
            /\ Blocks(h) \cap Blocks(d) = {}
            /\ EachOnce(h) /\ EachOnce(d)

\* A file's data is to be named after its file, long name or not: the name in a
\* header is "For next data blocks" (chunker.cc:765), and the base BiSearch
\* tries first is an older version of the same file.  What is taken for the
\* text of a long name (offset 1) names nothing.
Misnamed(c) ==
    c.offset = 0 /\ c.data[1].owner # <<>> /\ c.name # FindName(c.data[1].owner)

NamedAfterItsFile ==
    \A i \in DOMAIN recipeD[backup] :
        ~recipeD[backup][i].CDCFlag => ~Misnamed(recipeD[backup][i])

\* The archives that use long names as the chunker takes them: the name has a
\* directory and ends in a NUL, its file comes right behind it and has data,
\* and no window ended between the entry and the name.
LongNamesUsed(f) ==
    /\ \A i \in DOMAIN files[f] :
          files[f][i].kind = "LONGNAME" =>
              /\ i + 2 \in DOMAIN files[f] /\ files[f][i].size = 1
              /\ Len(files[f][i + 1].name) > 2
              /\ Last(files[f][i + 1].name) = NUL
              /\ files[f][i + 2].kind = "REGTYPE" /\ files[f][i + 2].size > 0
    /\ \A s \in DOMAIN recipeH[f] : Last(recipeH[f][s].data).kind # "LONGNAME"

\* In any archive a long name that is not used so (of a directory, of an empty
\* file, without a slash, at the end of a window or of a backup) gives a wrong
\* name to one chunk at most, the next that has a name.
LongNamesConfined ==
    LET named == SelectSeq(FlattenSeq(SubSeq(recipeD, 1, backup)),
                           LAMBDA c : ~c.CDCFlag)
    IN  \A i \in DOMAIN named :
            Misnamed(named[i]) => i > 1 /\ named[i - 1].offset = 1

\* As long as all archives so far do, each file's data has its file's name,
\* though the flags and the buffer of the long name are shared by all entries
\* and all backups: no name is kept for a later file, none is mixed with an
\* earlier, longer one.  In the others the damage is confined.
LongNamesFollowed ==
    /\ (\A f \in 1 .. backup : LongNamesUsed(f)) => NamedAfterItsFile
    /\ LongNamesConfined
=============================================================================
