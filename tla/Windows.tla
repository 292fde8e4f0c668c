------------------------------ MODULE Windows ------------------------------
(***************************************************************************)
(* Chunker::Chunking for the modes that cut a file without looking at its  *)
(* format: fixed-size, FastCDC and Gear (-c 0, 1, 2, and what -c 5 to 8    *)
(* become).  A file is read in overlapping windows: cutting stops where    *)
(* less than Reserve is left, unless the window ends the file, and the     *)
(* next window starts there.                                               *)
(*                                                                         *)
(* The mode, the file's length and its bytes are chosen at the start.  What *)
(* the rolling hash finds at a byte is data: marks says whether it    *)
(* hits no mask, the loose mask maskL, or the strict mask maskS too (which *)
(* has all the bits of maskL).                                             *)
(***************************************************************************)
EXTENDS Integers, Sequences

CONSTANTS
    FileLengths,      \* mode -> the lengths a file may have
    READ_FILE_SIZE,
    Reserve,          \* MULTI_HEADER_CHUNK * CONTAINER_MAX_SIZE
    minChunkSize, avgChunkSize, maxChunkSize,
    SizeRange         \* 2^64, the range of size_t

ChunkType == {"FIXED_SIZE", "FASTCDC", "GEARCDC"}

ASSUME WindowsAssumption ==
    /\ FileLengths \in [ChunkType -> SUBSET Nat]
    /\ READ_FILE_SIZE \in Nat \ {0}
    /\ minChunkSize \in Nat \ {0} /\ avgChunkSize \in Nat /\ maxChunkSize \in Nat
    /\ minChunkSize <= avgChunkSize /\ avgChunkSize <= maxChunkSize
    /\ Reserve \in Nat /\ maxChunkSize <= Reserve
    /\ SizeRange \in Nat /\ SizeRange > 2 * (READ_FILE_SIZE + Reserve)

VARIABLES
    chunkType,    \* option -c
    fileLen,      \* the file's length
    marks,        \* byte -> 0, 1 (maskL) or 2 (maskS)
    chunker,      \* "read", "cut", "closed", "undefined"
    totalOffset,  \* where the window starts in the file
    len, end,     \* what the window holds, and whether the file ends in it
    localOffset,  \* how much of the window is cut
    chunks        \* the bytes of the file that each chunk was copied from

input == <<chunkType, fileLen, marks>>
vars == <<input, chunker, totalOffset, len, end, localOffset, chunks>>

Window == READ_FILE_SIZE + Reserve
MinOf(a, b) == IF a < b THEN a ELSE b
MaxOf(a, b) == IF a > b THEN a ELSE b
\* subtraction of two size_t
Minus(a, b) == (a - b) % SizeRange

-----------------------------------------------------------------------------
(* Cut points: src is where the chunk starts, l what is left of the window *)

DivCeil(a, b) == IF a % b = 0 THEN a \div b ELSE a \div b + 1
CalNormalSize(min, av, max) ==
    LET off == MinOf(min + DivCeil(min, 2), av)
    IN  MinOf(av - off, max)
normalSize == CalNormalSize(minChunkSize, avgChunkSize, maxChunkSize)

\* the first byte of from .. to - 1 that hits the mask, or to
FirstHit(src, from, to, mask) ==
    LET hits == {i \in from .. to - 1 : marks[src + i + 1] >= mask}
    IN  IF hits = {} THEN to ELSE CHOOSE i \in hits : \A j \in hits : i <= j

\* the strict mask up to the normal size, the loose one up to the maximum
CutPointFastCDC(src, l) ==
    LET i == MinOf(l, minChunkSize)
        n == MaxOf(i, MinOf(normalSize, l))
        m == MaxOf(n, MinOf(maxChunkSize, l))
        s == FirstHit(src, i, n, 2)
        h == FirstHit(src, n, m, 1)
    IN  CASE s < n -> s + 1 [] s = n /\ h < m -> h + 1 [] OTHER -> m

\* (mutant: without a hit one byte more is taken)
CutPointGear_OneMore(src, l) == FirstHit(src, 0, l, 1) + 1

\* one mask and no limits but the window's end
CutPointGear(src, l) == MinOf(FirstHit(src, 0, l, 1) + 1, l)

CutPoint(src, l) ==
    CASE chunkType = "FIXED_SIZE" -> avgChunkSize
      [] chunkType = "FASTCDC" -> CutPointFastCDC(src, l)
      [] chunkType = "GEARCDC" -> CutPointGear(src, l)

-----------------------------------------------------------------------------
Init ==
    /\ chunkType \in ChunkType
    /\ fileLen \in FileLengths[chunkType]
    /\ marks \in IF chunkType = "FIXED_SIZE" THEN {[i \in 1 .. fileLen |-> 0]}
                 ELSE [1 .. fileLen -> 0 .. (IF chunkType = "FASTCDC" THEN 2 ELSE 1)]
    /\ chunker = "read"
    /\ totalOffset = 0 /\ len = 0 /\ end = FALSE /\ localOffset = 0
    /\ chunks = <<>>

\* the file's end shows when a read comes back short
\* (mutant: a short read is taken for a full one)
Read_NoEnd ==
    /\ chunker = "read"
    /\ len' = MinOf(Window, fileLen - totalOffset)
    /\ end' = FALSE
    /\ localOffset' = IF len' = 0 THEN localOffset ELSE 0
    /\ chunker' = IF len' = 0 THEN "closed" ELSE "cut"
    /\ UNCHANGED <<input, totalOffset, chunks>>

Read ==
    /\ chunker = "read"
    /\ len' = MinOf(Window, fileLen - totalOffset)
    /\ end' = (fileLen - totalOffset < Window)
    /\ localOffset' = IF len' = 0 THEN localOffset ELSE 0
    /\ chunker' = IF len' = 0 THEN "closed" ELSE "cut"
    /\ UNCHANGED <<input, totalOffset, chunks>>

\* the condition of the cutting loop
\* (mutant: cutting goes on to the window's end)
InWindow_NoReserve == Minus(len, localOffset) > 0 \/ (end /\ localOffset < len)

InWindow ==
    Minus(len, localOffset) >= Reserve \/ (end /\ localOffset < len)

Cut ==
    /\ chunker = "cut" /\ InWindow
    /\ localOffset <= len
    /\ LET src == totalOffset + localOffset
           cp  == CutPoint(src, Minus(len, localOffset))
       IN  /\ localOffset' = localOffset + cp
           /\ chunks' = Append(chunks, [at |-> src, size |-> cp])
    /\ UNCHANGED <<input, chunker, totalOffset, len, end>>

\* past the window's data there is nothing to cut: zeros first, then memory
\* that is not the buffer's
CutPastEnd ==
    /\ chunker = "cut" /\ InWindow
    /\ localOffset > len
    /\ chunker' = "undefined"
    /\ UNCHANGED <<input, totalOffset, len, end, localOffset, chunks>>

\* (mutant: what the window still held is skipped)
NextWindow_SkipsRest ==
    /\ chunker = "cut" /\ ~InWindow
    /\ totalOffset' = totalOffset + len
    /\ chunker' = IF end THEN "closed" ELSE "read"
    /\ UNCHANGED <<input, len, end, localOffset, chunks>>

NextWindow ==
    /\ chunker = "cut" /\ ~InWindow
    /\ totalOffset' = totalOffset + localOffset
    /\ chunker' = IF end THEN "closed" ELSE "read"
    /\ UNCHANGED <<input, len, end, localOffset, chunks>>

Next == Read \/ Cut \/ CutPastEnd \/ NextWindow

Spec == Init /\ [][Next]_vars
FairSpec == Spec /\ WF_vars(Next)

-----------------------------------------------------------------------------
(* Properties *)

\* pieces are the file's first bytes, in order and each byte once
CutUp(pieces, bytes) ==
    /\ \A i \in DOMAIN pieces :
           pieces[i].at = IF i = 1 THEN 0 ELSE pieces[i - 1].at + pieces[i - 1].size
    /\ bytes = IF pieces = <<>> THEN 0
               ELSE pieces[Len(pieces)].at + pieces[Len(pieces)].size

\* "Fixed-size chunking", "FastCDC chunking", "Gear-based CDC chunking" of a
\* file (README.md:56-58): no chunk reaches past the file.
CutsInsideFile ==
    /\ chunker # "undefined"
    /\ chunker = "cut" => /\ localOffset <= len
                          /\ totalOffset + localOffset <= fileLen

\* The content-defined modes keep to that for every content of the file, so
\* the unsigned subtractions of the loop (chunker.cc:126) never wrap.
ContentCutsInsideFile == chunkType # "FIXED_SIZE" => CutsInsideFile

\* A closed file is cut up whole: every byte is in one chunk, in order.
\* Windows overlap and the next one starts where cutting stopped.
CutUpWhole == chunker = "closed" => CutUp(chunks, fileLen)

\* Where FastCDC cuts a file depends on the file alone, not on where the
\* windows fell: two versions that differ in a window's alignment still
\* deduplicate.  The reference cuts the file as one window.
WindowIndependent ==
    chunkType = "FASTCDC" => \A i \in DOMAIN chunks :
        chunks[i].size = CutPoint(chunks[i].at, fileLen - chunks[i].at)

\* Every file is closed in the end, or left by a fixed-size cut: each window
\* takes the chunker further.
FileCloses ==
    <>(chunker = "closed" \/ (chunkType = "FIXED_SIZE" /\ chunker = "undefined"))
=============================================================================
