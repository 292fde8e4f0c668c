-------------------------- MODULE TarChunkerProofs --------------------------
(***************************************************************************)
(* What MCTarRestore checks of the chunker on small archives, for any      *)
(* archives, window sizes and options.  The invariant ties together how    *)
(* much of the file is cut, what comes next, and where the blocks cut so   *)
(* far are: in a recipe or in the header buffer.                           *)
(***************************************************************************)
EXTENDS TarRestore, FiniteSetTheorems, TLAPS

-----------------------------------------------------------------------------
(* The invariant *)

Type == {FILE_HEADER, FILE_CHUNK, BIG_CHUNK}
NextSet == [type: Type, size: Nat, bigSize: Nat, bigOffset: Nat]
NamingSet == [name: Path, LongName: Path, path: Path,
              long1: BOOLEAN, long2: BOOLEAN]
HeaderChunk == [data: Seq(Block), name: Path]
DataChunk == [data: Seq(Block), CDCFlag: BOOLEAN, name: Path, offset: Nat]

TypeOK ==
    /\ files \in [1 .. backupNum -> Archives]
    /\ backup \in 1 .. backupNum
    /\ chunker \in {"read", "cut", "multi", "flush", "big", "bigend", "undefined",
                   "closed"}
    /\ window \in [totalOffset: Nat, len: Nat, end: BOOLEAN]
    /\ localOffset \in Nat /\ cpSum \in Nat
    /\ next \in NextSet
    /\ localType \in Type
    /\ headerBuffer \in Seq(Block)
    /\ naming \in NamingSet
    /\ recipeH \in [1 .. backupNum -> Seq(HeaderChunk)]
    /\ recipeD \in [1 .. backupNum -> Seq(DataChunk)]

InSegment == chunker \in {"multi", "flush", "big", "bigend", "undefined"}

\* how much of the file is cut
Done == window.totalOffset
        + (IF InSegment THEN localOffset + cpSum
           ELSE IF chunker = "cut" THEN localOffset ELSE 0)

WindowOK ==
    /\ window.totalOffset + window.len <= Len(File)
    /\ window.end => window.totalOffset + window.len = Len(File)
    /\ localOffset <= window.len

SegmentOK ==
    /\ SegLen >= Reserve \/ window.end
    /\ cpSum <= SegLen
    /\ chunker \in {"multi", "big"} => cpSum < SegLen

PositionOK ==
    /\ window.totalOffset <= Len(File)
    /\ chunker = "closed" => window.totalOffset = Len(File)
    /\ chunker = "cut" \/ InSegment => WindowOK
    /\ InSegment => SegmentOK

\* data follows its header in the same segment, or not as data
NextOK ==
    next.type = FILE_CHUNK =>
        chunker \in {"multi", "undefined"} /\ localType = FILE_HEADER

HeadersOK ==
    /\ Len(headerBuffer) <= MULTI_HEADER_CHUNK
    /\ chunker \notin {"multi", "flush", "undefined"} => headerBuffer = << >>

\* what is left of a big file is in the archive
BigLeft == next.bigSize - next.bigOffset
BigOK == next.type = BIG_CHUNK => BigLeft > 0 /\ Done + BigLeft <= Len(File)

ChunkerInv == TypeOK /\ PositionOK /\ NextOK /\ HeadersOK /\ BigOK

\* The hypothesis: where the chunker reads the header of a big file, that
\* file is in the archive, which was not cut off inside it.
BigFilesWhole ==
    chunker = "multi" /\ MultiGoesOn /\ next.type = FILE_HEADER
        => LET b == File[Done + 1]
           IN  b.kind = "REGTYPE" /\ b.size > BigChunkSize
                   => Done + 1 + b.size <= Len(File)

-----------------------------------------------------------------------------
(* Sequences *)

LEMMA SubSeqFacts ==
    ASSUME NEW S, NEW s \in Seq(S), NEW n \in Nat, NEW m \in Nat, n + m <= Len(s)
    PROVE  /\ SubSeq(s, n + 1, n + m) \in Seq(S)
           /\ Len(SubSeq(s, n + 1, n + m)) = m
           /\ \A k \in 1 .. m : SubSeq(s, n + 1, n + m)[k] = s[n + k]
BY SMT

LEMMA SeqFacts ==
    ASSUME NEW S, NEW s \in Seq(S)
    PROVE  /\ Len(s) \in Nat
           /\ DOMAIN s = 1 .. Len(s)
           /\ \A i \in 1 .. Len(s) : s[i] \in S
BY SMT

LEMMA AppendFacts ==
    ASSUME NEW S, NEW s \in Seq(S), NEW e \in S
    PROVE  /\ Append(s, e) \in Seq(S)
           /\ Len(Append(s, e)) = Len(s) + 1
           /\ \A i \in 1 .. Len(s) : Append(s, e)[i] = s[i]
           /\ Append(s, e)[Len(s) + 1] = e
BY SMT

\* Of a path that has a directory, its first, and its last part or two, can
\* be dropped.
LEMMA NameFacts ==
    ASSUME NEW full \in Path \ {<< >>}, NEW old \in Path
    PROVE  FindName(full) \in Path /\ ExtractPath(full, old) \in Path
<1>1. full \in Seq(STRING) /\ full # << >> /\ Len(full) \in Nat /\ Len(full) > 0
  BY DEF Path
<1>2. Tail(full) \in Seq(STRING) /\ Len(Tail(full)) = Len(full) - 1
  BY <1>1
<1>3. FindName(full) \in Path
  BY <1>1, <1>2 DEF FindName, Path
<1>4. CASE Len(full) = 1
  BY <1>3, <1>4 DEF ExtractPath
<1>5. CASE Len(full) # 1
  <2> DEFINE r == Tail(full)
             n == Len(r) - (IF Len(r) > 3 THEN 2 ELSE 1)
  <2>1. r \in Seq(STRING) /\ n \in Nat /\ n <= Len(r)
    BY <1>1, <1>2, <1>5
  <2> HIDE DEF r, n
  <2>2. SubSeq(r, 1, n) \in Seq(STRING)
    BY <2>1, SubSeqFacts
  <2> QED BY <1>3, <1>5, <2>2 DEF ExtractPath, Path, r, n
<1> QED BY <1>4, <1>5

-----------------------------------------------------------------------------
(* What the invariant says of the chunker's expressions *)

\* The constants, as numbers.
LEMMA ConstantFacts ==
    /\ backupNum \in Nat \ {0} /\ MULTI_HEADER_CHUNK \in Nat \ {0}
    /\ Reserve \in Nat \ {0} /\ Window \in Nat \ {0} /\ Reserve < Window
    /\ MAX_CHUNK_SIZE \in Nat \ {0}
    /\ CONTAINER_MAX_SIZE \in Nat /\ CONTAINER_MAX_SIZE <= Reserve
    /\ BigChunkSize \in Nat
<1>1. PICK m \in Nat \ {0} : m = MULTI_HEADER_CHUNK
  BY TarChunkerAssumption
<1>2. PICK c \in Nat : c = CONTAINER_MAX_SIZE /\ c > 0
  BY TarChunkerAssumption
<1>3. m * c \in Nat /\ m * c >= c
  <2>1. PICK k \in Nat : m = k + 1
    BY <1>1
  <2>2. m * c = k * c + c /\ k * c \in Nat
    BY <2>1, <1>2
  <2> QED BY <2>2, <1>2
<1>4. Reserve = m * c
  BY <1>1, <1>2 DEF Reserve
<1> QED BY <1>1, <1>2, <1>3, <1>4, TarChunkerAssumption DEF Window

\* The file being cut is a sequence of blocks.
LEMMA FileFacts ==
    ASSUME TypeOK
    PROVE  /\ File \in Seq(Block) /\ Len(File) \in Nat
           /\ \A i \in 1 .. Len(File) : File[i] \in Block /\ File[i].id = i
<1>1. File \in Archives
  BY DEF TypeOK, File
<1>2. File \in Seq(Block) /\ \A i \in DOMAIN File : File[i].id = i
  BY <1>1, TarChunkerAssumption
<1> QED BY <1>2, SeqFacts

LEMMA FileLength == TypeOK => Len(File) \in Nat
BY FileFacts

\* Where the chunker stands in a segment, and that it stands in the window.
LEMMA SegmentFacts ==
    ASSUME TypeOK, PositionOK, InSegment
    PROVE  /\ Done = window.totalOffset + localOffset + cpSum
           /\ Done \in Nat /\ SegLen \in Nat /\ SegLen = window.len - localOffset
           /\ Done + (SegLen - cpSum) = window.totalOffset + window.len
           /\ Done + (SegLen - cpSum) <= Len(File)
           /\ Done <= Len(File)
<1>1. /\ window.totalOffset \in Nat /\ window.len \in Nat
      /\ localOffset \in Nat /\ cpSum \in Nat /\ Len(File) \in Nat
  BY FileFacts DEF TypeOK
<1>2. WindowOK /\ SegmentOK
  BY DEF PositionOK
<1> QED BY <1>1, <1>2 DEF Done, SegLen, WindowOK, SegmentOK

\* n blocks from where the chunker stands.
LEMMA SrcFacts ==
    ASSUME TypeOK, PositionOK, InSegment,
           NEW n \in Nat, n <= SegLen - cpSum
    PROVE  /\ Src(n) = SubSeq(File, Done + 1, Done + n)
           /\ Done + n <= Len(File)
           /\ Src(n) \in Seq(Block)
           /\ Len(Src(n)) = n
           /\ \A k \in 1 .. n : Src(n)[k] = File[Done + k]
<1>1. /\ Done \in Nat /\ Done + n <= Len(File)
      /\ Done = window.totalOffset + localOffset + cpSum
      /\ Len(File) \in Nat /\ File \in Seq(Block)
  <2>1. SegLen \in Nat /\ cpSum \in Nat
    BY SegmentFacts DEF TypeOK
  <2> QED BY <2>1, SegmentFacts, FileFacts
<1>2. PICK d \in Nat : d = Done
  BY <1>1
<1>3. MinOf(d + n, Len(File)) = d + n
  BY <1>1, <1>2 DEF MinOf
<1>4. Src(n) = SubSeq(File, d + 1, d + n)
  BY <1>1, <1>2, <1>3 DEF Src
<1>5. /\ SubSeq(File, d + 1, d + n) \in Seq(Block)
      /\ Len(SubSeq(File, d + 1, d + n)) = n
      /\ \A k \in 1 .. n : SubSeq(File, d + 1, d + n)[k] = File[d + k]
  <2>1. PICK s \in Seq(Block) : s = File
    BY <1>1
  <2>2. d + n <= Len(s)
    BY <1>1, <1>2, <2>1
  <2>3. /\ SubSeq(s, d + 1, d + n) \in Seq(Block)
        /\ Len(SubSeq(s, d + 1, d + n)) = n
        /\ \A k \in 1 .. n : SubSeq(s, d + 1, d + n)[k] = s[d + k]
    BY <2>2, SubSeqFacts
  <2> QED BY <2>1, <2>3
<1> QED BY <1>1, <1>2, <1>4, <1>5

\* The header the chunker reads.
LEMMA HeaderFacts ==
    ASSUME TypeOK, PositionOK, chunker = "multi"
    PROVE  /\ Src(1)[1] = File[Done + 1] /\ Src(1)[1] \in Block
           /\ Done + 1 \in 1 .. Len(File)
<1>1. InSegment /\ cpSum < SegLen
  BY DEF InSegment, PositionOK, SegmentOK
<1>2. SegLen \in Nat /\ cpSum \in Nat
  BY <1>1, SegmentFacts DEF TypeOK
<1>3. 1 <= SegLen - cpSum
  BY <1>1, <1>2
<1>4. Src(1)[1] = File[Done + 1] /\ Done + 1 <= Len(File) /\ Done \in Nat
  BY <1>1, <1>3, SrcFacts, SegmentFacts
<1> QED BY <1>4, FileFacts

\* Setting a field of what comes next leaves the others as they are.
LEMMA HeaderNext ==
    ASSUME NEW r \in NextSet
    PROVE  /\ [r EXCEPT !.type = FILE_HEADER] \in NextSet
           /\ [r EXCEPT !.type = FILE_HEADER].type = FILE_HEADER
BY DEF NextSet, Type

LEMMA HeaderNextSize ==
    ASSUME NEW r \in NextSet
    PROVE  /\ [r EXCEPT !.type = FILE_HEADER, !.size = 1] \in NextSet
           /\ [r EXCEPT !.type = FILE_HEADER, !.size = 1].type = FILE_HEADER
<1>1. FILE_HEADER \in Type
  BY DEF Type
<1>2. PICK n \in Nat : n = 1
  OBVIOUS
<1>3. /\ [r EXCEPT !.type = FILE_HEADER, !.size = n] \in NextSet
      /\ [r EXCEPT !.type = FILE_HEADER, !.size = n].type = FILE_HEADER
  BY <1>1 DEF NextSet
<1> QED BY <1>2, <1>3

LEMMA OffsetNext ==
    ASSUME NEW r \in NextSet, NEW n \in Nat
    PROVE  /\ [r EXCEPT !.bigOffset = n] \in NextSet
           /\ [r EXCEPT !.bigOffset = n].type = r.type
           /\ [r EXCEPT !.bigOffset = n].bigOffset = n
           /\ [r EXCEPT !.bigOffset = n].bigSize = r.bigSize
BY DEF NextSet

\* What is cut of a file's data is inside the window.
LEMMA CutFileFacts ==
    ASSUME TypeOK, PositionOK, chunker = "multi"
    PROVE  /\ CutFile.cp \in Nat /\ CutFile.cp <= SegLen - cpSum
           /\ CutFile.next \in NextSet
           /\ CutFile.next.type = FILE_HEADER
           /\ next.size > 0 => CutFile.cp > 0
<1>1. SegLen \in Nat /\ cpSum \in Nat /\ cpSum < SegLen /\ next.size \in Nat
  <2>1. InSegment
    BY DEF InSegment
  <2>2. SegLen \in Nat /\ cpSum < SegLen
    BY <2>1, SegmentFacts DEF PositionOK, SegmentOK
  <2>3. cpSum \in Nat /\ next.size \in Nat
    BY DEF TypeOK, NextSet
  <2> QED BY <2>2, <2>3
<1>2. CutFile.cp = MinOf(next.size, SegLen - cpSum)
      /\ CutFile.next = [next EXCEPT !.type = FILE_HEADER, !.size = 1]
  BY DEF CutFile
<1>3. CutFile.cp \in Nat /\ CutFile.cp <= SegLen - cpSum
      /\ (next.size > 0 => CutFile.cp > 0)
  BY <1>1, <1>2 DEF MinOf
<1>4. /\ CutFile.next \in NextSet
      /\ CutFile.next.type = FILE_HEADER
  <2>1. next \in NextSet
    BY DEF TypeOK
  <2> QED BY <1>2, <2>1, HeaderNextSize
<1> QED BY <1>3, <1>4

\* What a header announces.
LEMMA ParseHeaderFacts ==
    ASSUME TypeOK, NEW b \in Block, next.type = FILE_HEADER
    PROVE  LET n == ParseHeader(b)
           IN  /\ n \in NextSet
               /\ n.type = BIG_CHUNK =>
                      /\ b.kind = "REGTYPE" /\ b.size > BigChunkSize
                      /\ n.bigSize = b.size /\ n.bigOffset = 0
<1> DEFINE big == b.kind = "REGTYPE" /\ b.size > BigChunkSize
           size == IF b.kind = "AREGTYPE" THEN 0 ELSE b.size
           n == ParseHeader(b)
<1>1. next \in NextSet /\ b.size \in Nat /\ size \in Nat
  BY DEF TypeOK, Block
<1> HIDE DEF size
<1>2. CASE big
  <2>1. n = [next EXCEPT !.type = BIG_CHUNK, !.size = size,
                         !.bigSize = size, !.bigOffset = 0]
    BY <1>2 DEF ParseHeader, size
  <2>2. size = b.size
    BY <1>2 DEF size
  <2> HIDE DEF n
  <2>3. n \in NextSet /\ n.bigSize = size /\ n.bigOffset = 0
    BY <1>1, <2>1 DEF NextSet, Type
  <2> QED BY <1>2, <2>2, <2>3 DEF n
<1>3. CASE ~big
  <2> DEFINE t == IF b.kind = "other" THEN FILE_HEADER ELSE FILE_CHUNK
  <2>1. n = [next EXCEPT !.type = t, !.size = size,
                         !.bigSize = next.bigSize, !.bigOffset = next.bigOffset]
    BY <1>3 DEF ParseHeader, size
  <2>2. t \in Type /\ t # BIG_CHUNK
    BY DEF Type, FILE_HEADER, FILE_CHUNK, BIG_CHUNK
  <2> HIDE DEF t
  <2>3. n \in NextSet /\ n.type = t
    BY <1>1, <2>1, <2>2 DEF NextSet
  <2> QED BY <2>2, <2>3
<1> QED BY <1>2, <1>3

LEMMA ParseNamesFacts ==
    ASSUME TypeOK, NEW b \in Block
    PROVE  ParseNames(b) \in NamingSet
<1>1. naming \in NamingSet /\ naming.path \in Path /\ naming.long1 \in BOOLEAN
      /\ b.name \in Path \ {<< >>}
  BY DEF TypeOK, NamingSet, Block
<1>2. FindName(b.name) \in Path /\ ExtractPath(b.name, naming.path) \in Path
  BY <1>1, NameFacts
<1>3. PICK n \in Path : n = FindName(b.name)
  BY <1>2
<1>4. PICK p \in Path : p = ExtractPath(b.name, naming.path)
  BY <1>2
<1>5. PICK l \in BOOLEAN : l = (naming.long1 \/ b.kind = "LONGNAME")
  BY Zenon
<1>6. [naming EXCEPT !.name = n, !.path = p, !.long1 = l] \in NamingSet
  BY <1>1 DEF NamingSet
<1> QED BY <1>1, <1>3, <1>4, <1>5, <1>6 DEF ParseNames

\* A cut inside the window takes the chunker further, and ends the segment
\* where the window ends.
LEMMA AfterCutFacts ==
    ASSUME ChunkerInv, chunker = "multi", NEW c,
           c.cp \in Nat, c.cp <= SegLen - cpSum, c.next \in NextSet,
           AfterCut(c), UNCHANGED <<files, backup, window, localOffset>>
    PROVE  /\ cpSum' \in Nat /\ next' \in NextSet
           /\ chunker' \in {"multi", "flush"}
           /\ PositionOK'
           /\ Done' = Done + c.cp /\ Done' \in Nat
           /\ chunker' = "multi" => next' = c.next
           /\ chunker' = "flush" => next'.type = FILE_HEADER
           /\ localType' = next.type
<1>1. TypeOK /\ PositionOK /\ InSegment
  BY DEF ChunkerInv, InSegment
<1>2. /\ SegLen \in Nat /\ Done \in Nat /\ cpSum \in Nat /\ localOffset \in Nat
      /\ window.totalOffset \in Nat /\ cpSum < SegLen
      /\ Done = window.totalOffset + localOffset + cpSum
      /\ WindowOK /\ SegmentOK
  <2>1. cpSum < SegLen /\ WindowOK /\ SegmentOK
    BY <1>1 DEF PositionOK, SegmentOK
  <2>2. window.totalOffset \in Nat /\ localOffset \in Nat /\ cpSum \in Nat
    BY <1>1 DEF TypeOK
  <2> QED BY <1>1, <2>1, <2>2, SegmentFacts
<1>3. cpSum' = cpSum + c.cp /\ localType' = next.type
  BY DEF AfterCut
<1>4. SegLen' = SegLen /\ File' = File
  BY DEF SegLen, File
<1>5. \/ chunker' = "flush" /\ next' = [c.next EXCEPT !.type = FILE_HEADER]
      \/ chunker' = "multi" /\ next' = c.next /\ cpSum' < SegLen'
  <2>1. CASE c.cp > 0 /\ cpSum + c.cp = SegLen
    BY <2>1 DEF AfterCut
  <2>2. CASE ~(c.cp > 0 /\ cpSum + c.cp = SegLen)
    <3>1. chunker' = "multi" /\ next' = c.next
      BY <2>2 DEF AfterCut
    <3>2. cpSum + c.cp < SegLen
      BY <1>2, <2>2
    <3> QED BY <1>3, <1>4, <3>1, <3>2
  <2> QED BY <2>1, <2>2
<1>7. next' \in NextSet /\ (chunker' = "flush" => next'.type = FILE_HEADER)
  <2>1. PICK r \in NextSet : r = c.next
    OBVIOUS
  <2> QED BY <1>5, <2>1, HeaderNext
<1>8. InSegment'
  BY <1>5 DEF InSegment
<1>9. Done' = Done + c.cp
  BY <1>2, <1>3, <1>8 DEF Done
<1>10. cpSum' <= SegLen'
  BY <1>2, <1>3, <1>4
<1>11. SegmentOK'
  BY <1>2, <1>4, <1>5, <1>10 DEF SegmentOK
<1>12. WindowOK'
  BY <1>2, <1>4 DEF WindowOK
<1>13. PositionOK'
  BY <1>1, <1>4, <1>5, <1>8, <1>11, <1>12 DEF PositionOK
<1> QED BY <1>2, <1>3, <1>5, <1>7, <1>9, <1>13

-----------------------------------------------------------------------------
(* Each action keeps the invariant *)

LEMMA CutHeaderStep ==
    ASSUME ChunkerInv, BigFilesWhole, CutHeader
    PROVE  ChunkerInv' /\ Done' = Done + 1
<1> DEFINE b == Src(1)[1]
           c == [cp |-> 1, next |-> ParseHeader(b)]
<1>1. /\ TypeOK /\ PositionOK /\ chunker = "multi" /\ MultiGoesOn
      /\ next.type = FILE_HEADER /\ InSegment
  BY DEF ChunkerInv, CutHeader, InSegment
<1>2. b \in Block /\ b = File[Done + 1]
  BY <1>1, HeaderFacts
<1>3. AfterCut(c) /\ naming' = ParseNames(b) /\ headerBuffer' = Append(headerBuffer, b)
      /\ UNCHANGED <<files, backup, window, localOffset, recipes>>
  BY DEF CutHeader
<1>4. /\ ParseHeader(b) \in NextSet
      /\ ParseHeader(b).type = BIG_CHUNK =>
             /\ b.kind = "REGTYPE" /\ b.size > BigChunkSize
             /\ ParseHeader(b).bigSize = b.size /\ ParseHeader(b).bigOffset = 0
  BY <1>1, <1>2, ParseHeaderFacts
<1> HIDE DEF b
<1>5. c.cp = 1 /\ c.next = ParseHeader(b)
  OBVIOUS
<1>6. c.cp \in Nat /\ c.cp <= SegLen - cpSum
  <2>1. SegLen \in Nat /\ cpSum \in Nat /\ cpSum < SegLen
    <3>1. cpSum < SegLen
      BY <1>1 DEF PositionOK, SegmentOK
    <3> QED BY <1>1, <3>1, SegmentFacts DEF TypeOK
  <2> QED BY <1>5, <2>1
<1> HIDE DEF c
<1>7. /\ cpSum' \in Nat /\ next' \in NextSet
      /\ chunker' \in {"multi", "flush"} /\ PositionOK'
      /\ Done' = Done + 1 /\ Done' \in Nat
      /\ chunker' = "multi" => next' = c.next
      /\ chunker' = "flush" => next'.type = FILE_HEADER
      /\ localType' = FILE_HEADER
  BY <1>1, <1>3, <1>4, <1>5, <1>6, AfterCutFacts
<1>8. /\ headerBuffer' \in Seq(Block) /\ Len(headerBuffer') = Len(headerBuffer) + 1
      /\ Len(headerBuffer) \in Nat
  <2>1. headerBuffer \in Seq(Block)
    BY <1>1 DEF TypeOK
  <2> QED BY <1>2, <1>3, <2>1, AppendFacts, SeqFacts
<1>9. TypeOK'
  <2>1. naming' \in NamingSet
    BY <1>1, <1>2, <1>3, ParseNamesFacts
  <2>2. localType' \in Type
    BY <1>7 DEF Type
  <2> QED BY <1>1, <1>3, <1>7, <1>8, <2>1, <2>2 DEF TypeOK, recipes
<1>10. NextOK'
  BY <1>7 DEF NextOK, FILE_HEADER, FILE_CHUNK
<1>11. HeadersOK'
  <2>1. Len(headerBuffer) < MULTI_HEADER_CHUNK
    BY <1>1 DEF MultiGoesOn, FILE_HEADER, FILE_CHUNK
  <2>2. Len(headerBuffer') <= MULTI_HEADER_CHUNK
    BY <1>8, <2>1, ConstantFacts
  <2> QED BY <1>7, <2>2 DEF HeadersOK
<1>12. BigOK'
  <2> SUFFICES ASSUME next'.type = BIG_CHUNK
               PROVE  BigLeft' > 0 /\ Done' + BigLeft' <= Len(File)'
    BY DEF BigOK
  <2>1. next' = ParseHeader(b)
    BY <1>5, <1>7 DEF FILE_HEADER, BIG_CHUNK
  <2>2. /\ b.kind = "REGTYPE" /\ b.size > BigChunkSize
        /\ next'.bigSize = b.size /\ next'.bigOffset = 0 /\ b.size \in Nat
    BY <1>2, <1>4, <2>1 DEF Block
  <2>3. Done + 1 + b.size <= Len(File)
    BY <1>1, <1>2, <2>2 DEF BigFilesWhole
  <2>4. File' = File
    BY <1>3 DEF File
  <2>5. BigLeft' = b.size
    BY <2>2 DEF BigLeft
  <2> QED BY <1>7, <2>2, <2>3, <2>4, <2>5, ConstantFacts
<1> QED BY <1>7, <1>9, <1>10, <1>11, <1>12 DEF ChunkerInv

\* The data of a file, or none of it, after its header.
LEMMA FileStep ==
    ASSUME ChunkerInv, chunker = "multi", next.type = FILE_CHUNK, AfterCut(CutFile),
           UNCHANGED <<files, backup, window, localOffset, headerBuffer, recipeH>>,
           naming' \in NamingSet,
           recipeD' \in [1 .. backupNum -> Seq(DataChunk)]
    PROVE  ChunkerInv' /\ Done' = Done + CutFile.cp
<1>1. TypeOK /\ PositionOK /\ HeadersOK
  BY DEF ChunkerInv
<1>2. /\ CutFile.cp \in Nat /\ CutFile.cp <= SegLen - cpSum
      /\ CutFile.next \in NextSet /\ CutFile.next.type = FILE_HEADER
  BY <1>1, CutFileFacts
<1>3. PICK c : c = CutFile
  OBVIOUS
<1>4. /\ cpSum' \in Nat /\ next' \in NextSet
      /\ chunker' \in {"multi", "flush"} /\ PositionOK'
      /\ Done' = Done + c.cp /\ Done' \in Nat
      /\ chunker' = "multi" => next' = c.next
      /\ chunker' = "flush" => next'.type = FILE_HEADER
      /\ localType' = next.type
  BY <1>1, <1>2, <1>3, AfterCutFacts
<1>5. next'.type = FILE_HEADER
  BY <1>2, <1>3, <1>4
<1>6. TypeOK'
  BY <1>1, <1>4 DEF TypeOK, Type
<1>7. NextOK' /\ BigOK'
  BY <1>5 DEF NextOK, BigOK, FILE_HEADER, FILE_CHUNK, BIG_CHUNK
<1>8. HeadersOK'
  BY <1>1, <1>4 DEF HeadersOK
<1> QED BY <1>3, <1>4, <1>6, <1>7, <1>8 DEF ChunkerInv

LEMMA CutEmptyStep ==
    ASSUME ChunkerInv, CutEmpty
    PROVE  ChunkerInv' /\ Done' = Done
<1>1. /\ TypeOK /\ PositionOK /\ chunker = "multi" /\ next.type = FILE_CHUNK
      /\ next.size = 0 /\ AfterCut(CutFile)
      /\ UNCHANGED <<files, backup, window, localOffset, headerBuffer, naming,
                     recipeH, recipeD>>
  BY DEF ChunkerInv, CutEmpty, recipes
<1>2. naming' \in NamingSet /\ recipeD' \in [1 .. backupNum -> Seq(DataChunk)]
  BY <1>1 DEF TypeOK
<1>3. ChunkerInv' /\ Done' = Done + CutFile.cp
  BY <1>1, <1>2, FileStep
<1>4. CutFile.cp = 0
  <2>1. CutFile.cp = MinOf(0, SegLen - cpSum)
    BY <1>1 DEF CutFile
  <2>2. CutFile.cp \in Nat
    BY <1>1, CutFileFacts
  <2> QED BY <2>1, <2>2 DEF MinOf
<1>5. Done \in Nat
  BY <1>1, SegmentFacts DEF InSegment
<1> QED BY <1>3, <1>4, <1>5

\* The process ends in a copy of a negative length with nothing changed.
LEMMA CopyNegativeStep ==
    ASSUME ChunkerInv, CopyNegative
    PROVE  ChunkerInv' /\ Done' = Done
<1>1. /\ TypeOK /\ PositionOK /\ NextOK /\ HeadersOK /\ BigOK
      /\ chunker = "multi" /\ chunker' = "undefined"
      /\ UNCHANGED <<files, backup, window, localOffset, cpSum, next, localType,
                     headerBuffer, naming, recipeH, recipeD>>
  BY DEF ChunkerInv, CopyNegative, recipes
<1>2. Done' = Done
  BY <1>1 DEF Done, InSegment
<1>3. TypeOK'
  BY <1>1 DEF TypeOK
<1>4. PositionOK'
  BY <1>1 DEF PositionOK, InSegment, WindowOK, SegmentOK, SegLen, File
<1>5. NextOK' /\ HeadersOK' /\ BigOK'
  BY <1>1, <1>2 DEF NextOK, HeadersOK, BigOK, BigLeft, File
<1> QED BY <1>2, <1>3, <1>4, <1>5 DEF ChunkerInv

\* The names that data gets.
LEMMA TextFacts ==
    ASSUME NEW text \in Path, NEW old \in Path
    PROVE  CString(text) \in Path /\ CopyOver(text, old) \in Path
<1>1. /\ text \in Seq(STRING) /\ old \in Seq(STRING)
      /\ Len(text) \in Nat /\ Len(old) \in Nat
  BY DEF Path
<1>2. SubSeq(old, Len(text) + 1, Len(old)) \in Seq(STRING)
  BY <1>1
<1>3. CopyOver(text, old) \in Path
  BY <1>1, <1>2 DEF CopyOver, Path
<1> DEFINE D == {i \in DOMAIN text : \A j \in 1 .. i : text[j] # NUL}
<1>4. IsFiniteSet(D) /\ Cardinality(D) \in Nat /\ Cardinality(D) <= Len(text)
  <2>1. D \subseteq 1 .. Len(text)
    BY <1>1
  <2>2. IsFiniteSet(1 .. Len(text)) /\ Cardinality(1 .. Len(text)) = Len(text)
    <3>1. 1 \in Int /\ Len(text) \in Int
      BY <1>1
    <3>2. /\ IsFiniteSet(1 .. Len(text))
          /\ Cardinality(1 .. Len(text))
                 = IF 1 > Len(text) THEN 0 ELSE Len(text) - 1 + 1
      BY <3>1, FS_Interval
    <3> QED BY <1>1, <3>2
  <2> HIDE DEF D
  <2>3. IsFiniteSet(D) /\ Cardinality(D) <= Cardinality(1 .. Len(text))
    BY <2>1, <2>2, FS_Subset
  <2>4. Cardinality(D) \in Nat
    BY <2>3, FS_CardinalityType
  <2> QED BY <2>2, <2>3, <2>4
<1> HIDE DEF D
<1>5. SubSeq(text, 1, Cardinality(D)) \in Seq(STRING)
  BY <1>1, <1>4
<1> QED BY <1>3, <1>5 DEF CString, Path, D

LEMMA LongNameFacts ==
    ASSUME TypeOK, PositionOK, chunker = "multi"
    PROVE  FindLongName \in Path
<1>1. Src(1)[1] \in Block
  BY HeaderFacts
<1>2. PICK text \in Path \ {<< >>} : text = Src(1)[1].name
  BY <1>1 DEF Block
<1>3. naming.LongName \in Path
  BY DEF TypeOK, NamingSet
<1>4. Tail(text) \in Path
  <2>1. text \in Seq(STRING) /\ text # << >> /\ Len(text) \in Nat /\ Len(text) > 0
    BY DEF Path
  <2>2. Tail(text) \in Seq(STRING)
    BY <2>1
  <2> QED BY <2>2 DEF Path
<1>5. CopyOver(Tail(text), naming.LongName) \in Path
  BY <1>3, <1>4, TextFacts
<1> QED BY <1>2, <1>3, <1>5 DEF FindLongName

LEMMA CutDataStep ==
    ASSUME ChunkerInv, CutData
    PROVE  /\ ChunkerInv' /\ Done' = Done + CutFile.cp
           /\ \E c \in DataChunk :
                 /\ c.data = Src(CutFile.cp)
                 /\ recipeD' = [recipeD EXCEPT ![backup] = Append(@, c)]
<1> DEFINE c == [data |-> Src(CutFile.cp), CDCFlag |-> FALSE,
                 name |-> CString(IF naming.long1 \/ naming.long2
                                  THEN FindLongName ELSE naming.name),
                 offset |-> IF naming.long1 THEN 1 ELSE 0]
<1>1. /\ TypeOK /\ PositionOK /\ chunker = "multi" /\ next.type = FILE_CHUNK
      /\ AfterCut(CutFile) /\ InSegment
      /\ UNCHANGED <<files, backup, window, localOffset, headerBuffer, recipeH>>
      /\ naming' = [naming EXCEPT !.LongName = FindLongName,
                                  !.long1 = FALSE, !.long2 = naming.long1]
      /\ recipeD' = [recipeD EXCEPT ![backup] = Append(@, c)]
  BY DEF ChunkerInv, CutData, InSegment
<1>2. FindLongName \in Path /\ naming \in NamingSet
      /\ naming.name \in Path /\ naming.long1 \in BOOLEAN
  BY <1>1, LongNameFacts DEF TypeOK, NamingSet
<1>3. naming' \in NamingSet
  BY <1>1, <1>2 DEF NamingSet
<1>4. c \in DataChunk /\ c.data = Src(CutFile.cp)
  <2>1. CutFile.cp \in Nat /\ CutFile.cp <= SegLen - cpSum
    BY <1>1, CutFileFacts
  <2>2. Src(CutFile.cp) \in Seq(Block)
    BY <1>1, <2>1, SrcFacts
  <2>3. PICK s \in Seq(Block) : s = Src(CutFile.cp)
    BY <2>2
  <2>4. PICK n \in Path : n = CString(IF naming.long1 \/ naming.long2
                                      THEN FindLongName ELSE naming.name)
    BY <1>2, TextFacts
  <2>5. PICK o \in Nat : o = IF naming.long1 THEN 1 ELSE 0
    OBVIOUS
  <2>6. [data |-> s, CDCFlag |-> FALSE, name |-> n, offset |-> o] \in DataChunk
    BY DEF DataChunk
  <2> QED BY <2>3, <2>4, <2>5, <2>6
<1> HIDE DEF c
<1>5. recipeD' \in [1 .. backupNum -> Seq(DataChunk)]
  <2>1. recipeD \in [1 .. backupNum -> Seq(DataChunk)] /\ backup \in 1 .. backupNum
    BY <1>1 DEF TypeOK
  <2>2. Append(recipeD[backup], c) \in Seq(DataChunk)
    BY <1>4, <2>1, AppendFacts
  <2> QED BY <1>1, <2>1, <2>2
<1>6. ChunkerInv' /\ Done' = Done + CutFile.cp
  BY <1>1, <1>3, <1>5, FileStep
<1> QED BY <1>1, <1>4, <1>6

LEMMA PushHeadersStep ==
    ASSUME ChunkerInv, PushHeaders
    PROVE  /\ ChunkerInv' /\ Done' = Done
           /\ \E c \in HeaderChunk :
                 /\ c.data = headerBuffer
                 /\ recipeH' = [recipeH EXCEPT ![backup] = Append(@, c)]
<1> DEFINE c == [data |-> headerBuffer, name |-> naming.path]
<1>1. /\ TypeOK /\ PositionOK /\ NextOK /\ BigOK /\ InSegment
      /\ chunker = "flush" \/ (chunker = "multi" /\ ~MultiGoesOn)
      /\ recipeH' = [recipeH EXCEPT ![backup] = Append(@, c)]
      /\ headerBuffer' = << >> /\ localOffset' = localOffset + cpSum
      /\ chunker' = "cut"
      /\ UNCHANGED <<files, backup, window, cpSum, next, localType, naming, recipeD>>
  BY DEF ChunkerInv, PushHeaders, InSegment
<1>2. c \in HeaderChunk /\ c.data = headerBuffer
  BY <1>1 DEF TypeOK, NamingSet, HeaderChunk
<1> HIDE DEF c
<1>3. recipeH' \in [1 .. backupNum -> Seq(HeaderChunk)]
  <2>1. recipeH \in [1 .. backupNum -> Seq(HeaderChunk)] /\ backup \in 1 .. backupNum
    BY <1>1 DEF TypeOK
  <2>2. Append(recipeH[backup], c) \in Seq(HeaderChunk)
    BY <1>2, <2>1, AppendFacts
  <2> QED BY <1>1, <2>1, <2>2
<1>4. /\ localOffset \in Nat /\ cpSum \in Nat /\ window.totalOffset \in Nat
      /\ localOffset' \in Nat
  BY <1>1 DEF TypeOK
<1>5. Done' = Done
  <2>1. Done' = window.totalOffset + (localOffset + cpSum)
    BY <1>1 DEF Done, InSegment
  <2> QED BY <1>1, <1>4, <2>1, SegmentFacts
<1>6. TypeOK'
  BY <1>1, <1>3, <1>4 DEF TypeOK
<1>7. PositionOK'
  <2>1. WindowOK /\ cpSum <= SegLen /\ window.len \in Nat
    BY <1>1 DEF PositionOK, SegmentOK, TypeOK
  <2>2. localOffset' <= window.len
    BY <1>1, <1>4, <2>1 DEF SegLen
  <2>3. WindowOK'
    BY <1>1, <2>1, <2>2 DEF WindowOK, File
  <2> QED BY <1>1, <2>3 DEF PositionOK, InSegment, File
<1>8. next.type # FILE_CHUNK
  <2>1. CASE chunker = "flush"
    BY <1>1, <2>1 DEF NextOK
  <2>2. CASE chunker = "multi" /\ ~MultiGoesOn
    BY <1>1, <2>2 DEF NextOK, MultiGoesOn, FILE_CHUNK, BIG_CHUNK
  <2> QED BY <1>1, <2>1, <2>2
<1>9. NextOK' /\ BigOK'
  BY <1>1, <1>5, <1>8 DEF NextOK, BigOK, BigLeft, File
<1>10. HeadersOK'
  BY <1>1, ConstantFacts DEF HeadersOK
<1> QED BY <1>1, <1>2, <1>5, <1>6, <1>7, <1>9, <1>10 DEF ChunkerInv

\* The next cut of a big file is inside it and, since a segment of a big file
\* stops short of CONTAINER_MAX_SIZE, inside the window.
LEMMA CutsBigFacts ==
    ASSUME ChunkerInv, chunker = "big", BigGoesOn, NEW c \in CutsBig
    PROVE  /\ c.cp \in Nat \ {0} /\ c.cp <= SegLen - cpSum /\ c.cp <= BigLeft
           /\ BigLeft \in Nat
           /\ c.next \in NextSet
           /\ \/ c.next.type = FILE_HEADER
              \/ /\ c.next.type = BIG_CHUNK /\ c.cp < BigLeft
                 /\ c.next.bigSize - c.next.bigOffset = BigLeft - c.cp
<1>1. /\ TypeOK /\ PositionOK /\ NextOK /\ BigOK /\ InSegment
      /\ next \in NextSet /\ next.type = BIG_CHUNK
      /\ cpSum < CONTAINER_MAX_SIZE - MAX_CHUNK_SIZE
  <2>1. next.type \in Type /\ next.type # FILE_HEADER /\ next.type # FILE_CHUNK
        /\ next \in NextSet
    BY DEF ChunkerInv, TypeOK, NextSet, NextOK, BigGoesOn
  <2> QED BY <2>1 DEF ChunkerInv, InSegment, Type, BigGoesOn
<1>2. /\ BigLeft > 0 /\ Done + BigLeft <= Len(File)
      /\ next.bigSize \in Nat /\ next.bigOffset \in Nat
      /\ BigLeft = next.bigSize - next.bigOffset /\ BigLeft \in Nat
  <2>1. next.bigSize \in Nat /\ next.bigOffset \in Nat
    BY <1>1 DEF NextSet
  <2>2. BigLeft > 0 /\ Done + BigLeft <= Len(File)
    BY <1>1 DEF BigOK
  <2> QED BY <2>1, <2>2 DEF BigLeft
<1>3. /\ c.cp \in Nat \ {0} /\ c.cp <= MAX_CHUNK_SIZE /\ c.cp <= BigLeft
      /\ c.next \in NextSet
      /\ \/ c.next.type = FILE_HEADER
         \/ /\ c.next.type = BIG_CHUNK /\ c.cp < BigLeft
            /\ c.next.bigSize - c.next.bigOffset = BigLeft - c.cp
  <2>1. CASE BigLeft > MAX_CHUNK_SIZE
    <3>1. PICK n \in 1 .. MAX_CHUNK_SIZE :
              c = [cp |-> n, next |-> [next EXCEPT !.bigOffset = @ + n]]
      BY <1>2, <2>1 DEF CutsBig, BigLeft
    <3>2. c.cp = n /\ c.next = [next EXCEPT !.bigOffset = next.bigOffset + n]
      BY <3>1
    <3>3. PICK o \in Nat : o = next.bigOffset + n
      BY <1>2, ConstantFacts
    <3>4. /\ c.next \in NextSet /\ c.next.type = BIG_CHUNK
          /\ c.next.bigOffset = o /\ c.next.bigSize = next.bigSize
      BY <1>1, <3>2, <3>3, OffsetNext
    <3>5. n \in Nat \ {0} /\ n <= MAX_CHUNK_SIZE /\ n < BigLeft
      BY <1>2, <2>1, ConstantFacts
    <3>6. c.next.bigSize - c.next.bigOffset = BigLeft - n
      BY <1>2, <3>3, <3>4, <3>5
    <3>7. n <= BigLeft
      BY <1>2, <3>5
    <3> QED BY <3>2, <3>4, <3>5, <3>6, <3>7
  <2>2. CASE ~(BigLeft > MAX_CHUNK_SIZE)
    <3>1. c = [cp |-> BigLeft, next |-> [next EXCEPT !.type = FILE_HEADER]]
      BY <1>2, <2>2 DEF CutsBig, BigLeft
    <3>2. c.cp = BigLeft /\ c.next = [next EXCEPT !.type = FILE_HEADER]
      BY <3>1
    <3>3. c.next \in NextSet /\ c.next.type = FILE_HEADER
      BY <1>1, <3>2, HeaderNext
    <3> QED BY <1>2, <2>2, <3>2, <3>3, ConstantFacts
  <2> QED BY <2>1, <2>2
<1>4. c.cp <= SegLen - cpSum
  <2>1. /\ SegLen \in Nat /\ cpSum \in Nat /\ Done \in Nat
        /\ Done + (SegLen - cpSum) = window.totalOffset + window.len
    BY <1>1, SegmentFacts DEF TypeOK
  <2>2. CASE SegLen >= Reserve
    BY <1>1, <1>3, <2>1, <2>2, ConstantFacts
  <2>3. CASE window.end
    <3>1. window.totalOffset + window.len = Len(File) /\ Len(File) \in Nat
      BY <1>1, <2>3, FileFacts DEF PositionOK, WindowOK
    <3>2. BigLeft <= SegLen - cpSum
      BY <1>2, <2>1, <3>1
    <3> QED BY <1>2, <1>3, <2>1, <3>2
  <2> QED BY <1>1, <2>2, <2>3 DEF PositionOK, SegmentOK
<1> QED BY <1>2, <1>3, <1>4

LEMMA CutBigStep ==
    ASSUME ChunkerInv, CutBig
    PROVE  /\ ChunkerInv'
           /\ \E n \in Nat, c \in DataChunk :
                 /\ n <= SegLen - cpSum /\ Done' = Done + n
                 /\ c.data = Src(n)
                 /\ recipeD' = [recipeD EXCEPT ![backup] = Append(@, c)]
<1> DEFINE d(c) == [data |-> Src(c.cp), CDCFlag |-> TRUE,
                    name |-> << >>, offset |-> 0]
<1>1. /\ TypeOK /\ PositionOK /\ NextOK /\ BigOK /\ HeadersOK /\ InSegment
      /\ chunker = "big" /\ BigGoesOn /\ localType' = next.type
      /\ UNCHANGED <<files, backup, window, localOffset, headerBuffer, naming,
                     recipeH>>
  BY DEF ChunkerInv, CutBig, InSegment
<1>2. PICK c \in CutsBig :
         /\ cpSum' = cpSum + c.cp /\ next' = c.next
         /\ chunker' = IF cpSum + c.cp = SegLen THEN "bigend" ELSE "big"
         /\ recipeD' = [recipeD EXCEPT ![backup] = Append(@, d(c))]
  BY DEF CutBig
<1>3. /\ c.cp \in Nat \ {0} /\ c.cp <= SegLen - cpSum /\ c.cp <= BigLeft
      /\ BigLeft \in Nat /\ c.next \in NextSet
      /\ \/ c.next.type = FILE_HEADER
         \/ /\ c.next.type = BIG_CHUNK /\ c.cp < BigLeft
            /\ c.next.bigSize - c.next.bigOffset = BigLeft - c.cp
  BY <1>1, CutsBigFacts
<1>4. d(c) \in DataChunk /\ d(c).data = Src(c.cp)
  <2>1. c.cp \in Nat
    BY <1>3
  <2>2. Src(c.cp) \in Seq(Block)
    BY <1>1, <1>3, <2>1, SrcFacts
  <2>3. << >> \in Path
    BY DEF Path
  <2> QED BY <2>2, <2>3 DEF DataChunk
<1>5. recipeD' \in [1 .. backupNum -> Seq(DataChunk)]
  <2>1. recipeD \in [1 .. backupNum -> Seq(DataChunk)] /\ backup \in 1 .. backupNum
    BY <1>1 DEF TypeOK
  <2>2. PICK e \in DataChunk : e = d(c)
    BY <1>4
  <2>3. Append(recipeD[backup], e) \in Seq(DataChunk)
    BY <2>1, AppendFacts
  <2> QED BY <1>2, <2>1, <2>2, <2>3
<1> HIDE DEF d
<1>6. /\ SegLen \in Nat /\ cpSum \in Nat /\ Done \in Nat /\ localOffset \in Nat
      /\ window.totalOffset \in Nat
      /\ Done = window.totalOffset + localOffset + cpSum
  BY <1>1, SegmentFacts DEF TypeOK
<1>7. /\ cpSum' \in Nat /\ chunker' \in {"big", "bigend"} /\ InSegment'
      /\ cpSum' <= SegLen /\ (chunker' = "big" => cpSum' < SegLen)
  <2>1. cpSum' = cpSum + c.cp
    BY <1>2
  <2>2. cpSum' \in Nat /\ cpSum' <= SegLen
    BY <1>3, <1>6, <2>1
  <2>3. CASE cpSum + c.cp = SegLen
    BY <1>2, <2>2, <2>3 DEF InSegment
  <2>4. CASE cpSum + c.cp # SegLen
    BY <1>2, <1>6, <2>1, <2>2, <2>4 DEF InSegment
  <2> QED BY <2>3, <2>4
<1>8. Done' = Done + c.cp
  <2>1. PICK n \in Nat : n = c.cp
    BY <1>3
  <2>2. Done' = window.totalOffset + localOffset + cpSum'
    BY <1>1, <1>6, <1>7 DEF Done
  <2>3. cpSum' = cpSum + n
    BY <1>2, <2>1
  <2> QED BY <1>6, <2>1, <2>2, <2>3
<1>9. SegLen' = SegLen /\ File' = File
  BY <1>1 DEF SegLen, File
<1>10. PositionOK'
  <2>1. WindowOK' /\ SegmentOK'
    BY <1>1, <1>7, <1>9 DEF PositionOK, WindowOK, SegmentOK
  <2> QED BY <1>1, <1>7, <1>9, <2>1 DEF PositionOK
<1>11. TypeOK'
  BY <1>1, <1>2, <1>3, <1>5, <1>7 DEF TypeOK, NextSet
<1>12. NextOK'
  BY <1>2, <1>3 DEF NextOK, FILE_HEADER, FILE_CHUNK, BIG_CHUNK
<1>13. BigOK'
  <2> SUFFICES ASSUME next'.type = BIG_CHUNK
               PROVE  BigLeft' > 0 /\ Done' + BigLeft' <= Len(File)'
    BY DEF BigOK
  <2>1. c.cp < BigLeft /\ BigLeft' = BigLeft - c.cp
    BY <1>2, <1>3 DEF BigLeft, FILE_HEADER, BIG_CHUNK
  <2>2. Done + BigLeft <= Len(File) /\ Len(File) \in Nat
    <3>1. next.type = BIG_CHUNK
      <4>1. next.type \in Type /\ next.type # FILE_HEADER /\ next.type # FILE_CHUNK
        BY <1>1 DEF TypeOK, NextSet, NextOK, BigGoesOn
      <4> QED BY <4>1 DEF Type
    <3> QED BY <1>1, <3>1, FileFacts DEF BigOK
  <2>3. PICK n \in Nat : n = c.cp
    BY <1>3
  <2>4. PICK l \in Nat : l = BigLeft
    BY <1>3
  <2>5. n < l /\ BigLeft' = l - n /\ Done' = Done + n /\ Done + l <= Len(File)
    BY <1>8, <2>1, <2>2, <2>3, <2>4
  <2> QED BY <1>6, <1>9, <2>2, <2>5
<1>14. HeadersOK'
  BY <1>1, <1>7 DEF HeadersOK
<1>15. ChunkerInv'
  BY <1>10, <1>11, <1>12, <1>13, <1>14 DEF ChunkerInv
<1> QED BY <1>2, <1>3, <1>4, <1>8, <1>15

LEMMA EndBigStep ==
    ASSUME ChunkerInv, EndBig
    PROVE  ChunkerInv' /\ Done' = Done
<1>1. /\ TypeOK /\ PositionOK /\ NextOK /\ BigOK /\ HeadersOK /\ InSegment
      /\ chunker \in {"big", "bigend"}
      /\ naming' = [naming EXCEPT !.long1 = FALSE, !.long2 = FALSE]
      /\ localOffset' = localOffset + cpSum /\ chunker' = "cut"
      /\ UNCHANGED <<files, backup, window, cpSum, next, localType, headerBuffer,
                     recipeH, recipeD>>
  BY DEF ChunkerInv, EndBig, InSegment, recipes
<1>2. /\ localOffset \in Nat /\ cpSum \in Nat /\ window.totalOffset \in Nat
      /\ localOffset' \in Nat
  BY <1>1 DEF TypeOK
<1>3. Done' = Done
  <2>1. Done' = window.totalOffset + (localOffset + cpSum)
    BY <1>1 DEF Done, InSegment
  <2> QED BY <1>1, <1>2, <2>1, SegmentFacts
<1>4. TypeOK'
  BY <1>1, <1>2 DEF TypeOK, NamingSet
<1>5. PositionOK'
  <2>1. WindowOK /\ cpSum <= SegLen /\ window.len \in Nat
    BY <1>1 DEF PositionOK, SegmentOK, TypeOK
  <2>2. localOffset' <= window.len
    BY <1>1, <1>2, <2>1 DEF SegLen
  <2>3. WindowOK'
    BY <1>1, <2>1, <2>2 DEF WindowOK, File
  <2> QED BY <1>1, <2>3 DEF PositionOK, InSegment, File
<1>6. NextOK' /\ BigOK' /\ HeadersOK'
  BY <1>1, <1>3 DEF NextOK, BigOK, BigLeft, HeadersOK, File
<1> QED BY <1>3, <1>4, <1>5, <1>6 DEF ChunkerInv

LEMMA ReadWindowStep ==
    ASSUME ChunkerInv, ReadWindow
    PROVE  ChunkerInv' /\ Done' = Done
<1> DEFINE left == Len(File) - window.totalOffset
<1>1. /\ TypeOK /\ PositionOK /\ NextOK /\ BigOK /\ HeadersOK /\ chunker = "read"
      /\ window' = [window EXCEPT !.len = MinOf(Window, left), !.end = left < Window]
      /\ chunker' = IF left = 0 THEN "closed" ELSE "cut"
      /\ localOffset' = IF left = 0 THEN localOffset ELSE 0
      /\ UNCHANGED <<files, backup, cpSum, next, localType, headerBuffer, naming,
                     recipeH, recipeD>>
  BY DEF ChunkerInv, ReadWindow, recipes
<1>2. /\ window \in [totalOffset: Nat, len: Nat, end: BOOLEAN]
      /\ window.totalOffset \in Nat /\ Len(File) \in Nat
      /\ localOffset \in Nat /\ left \in Nat
  <2>1. /\ window \in [totalOffset: Nat, len: Nat, end: BOOLEAN]
        /\ window.totalOffset \in Nat /\ Len(File) \in Nat /\ localOffset \in Nat
        /\ window.totalOffset <= Len(File)
    BY <1>1, FileFacts DEF TypeOK, PositionOK
  <2> QED BY <2>1
<1> DEFINE l == MinOf(Window, left)
           e == left < Window
<1>3. l \in Nat /\ l <= left /\ e \in BOOLEAN /\ (e => l = left)
  <2>1. l \in Nat /\ l <= left
    BY <1>2, ConstantFacts DEF MinOf
  <2>2. ASSUME left < Window PROVE l = left
    BY <1>2, <2>2, ConstantFacts DEF MinOf
  <2>3. e \in BOOLEAN
    OBVIOUS
  <2>4. e => l = left
    BY <2>2, Zenon DEF e
  <2> QED BY <2>1, <2>3, <2>4, Zenon
<1>4. window' = [window EXCEPT !.len = l, !.end = e]
  BY <1>1
<1>5. left = Len(File) - window.totalOffset
  OBVIOUS
<1> HIDE DEF l, e, left
<1>6. /\ window' \in [totalOffset: Nat, len: Nat, end: BOOLEAN]
      /\ window'.totalOffset = window.totalOffset
      /\ window'.len = l
      /\ window'.end => l = left
  <2>1. window' \in [totalOffset: Nat, len: Nat, end: BOOLEAN]
    BY <1>2, <1>3, <1>4
  <2>2. window'.totalOffset = window.totalOffset /\ window'.len = l
    BY <1>2, <1>4
  <2>3. window'.end = e
    BY <1>2, <1>4
  <2> QED BY <1>3, <2>1, <2>2, <2>3, Zenon
<1>7. File' = File
  BY <1>1 DEF File
<1>8. CASE left = 0
  <2>1. chunker' = "closed" /\ localOffset' = localOffset
    BY <1>1, <1>8
  <2>2. Done' = Done /\ Done = window.totalOffset
    BY <1>1, <1>2, <1>6, <2>1 DEF Done, InSegment
  <2>3. TypeOK'
    BY <1>1, <1>6, <2>1 DEF TypeOK
  <2>4. PositionOK'
    BY <1>2, <1>5, <1>6, <1>7, <1>8, <2>1 DEF PositionOK, InSegment
  <2>5. NextOK' /\ BigOK' /\ HeadersOK'
    BY <1>1, <1>7, <2>1, <2>2 DEF NextOK, BigOK, BigLeft, HeadersOK
  <2> QED BY <2>2, <2>3, <2>4, <2>5 DEF ChunkerInv
<1>9. CASE left # 0
  <2>1. chunker' = "cut" /\ localOffset' = 0
    BY <1>1, <1>9
  <2>2. Done' = Done
    BY <1>1, <1>2, <1>6, <2>1 DEF Done, InSegment
  <2>3. TypeOK'
    BY <1>1, <1>6, <2>1 DEF TypeOK
  <2>4. PositionOK'
    <3>1. window.totalOffset + l <= Len(File)
      BY <1>2, <1>3, <1>5
    <3>2. window'.end => window.totalOffset + l = Len(File)
      <4>1. window.totalOffset + left = Len(File)
        BY <1>2, <1>5
      <4> QED BY <1>6, <4>1
    <3>3. 0 <= l
      BY <1>3
    <3>4. WindowOK'
      BY <1>6, <1>7, <2>1, <3>1, <3>2, <3>3 DEF WindowOK
    <3> QED BY <1>1, <1>6, <1>7, <2>1, <3>4 DEF PositionOK, InSegment
  <2>5. NextOK' /\ BigOK' /\ HeadersOK'
    BY <1>1, <1>7, <2>1, <2>2 DEF NextOK, BigOK, BigLeft, HeadersOK
  <2> QED BY <2>2, <2>3, <2>4, <2>5 DEF ChunkerInv
<1> QED BY <1>8, <1>9

LEMMA StartSegmentStep ==
    ASSUME ChunkerInv, StartSegment
    PROVE  ChunkerInv' /\ Done' = Done
<1>1. /\ TypeOK /\ PositionOK /\ NextOK /\ BigOK /\ HeadersOK
      /\ chunker = "cut" /\ InWindow /\ cpSum' = 0
      /\ chunker' = IF next.type = FILE_HEADER THEN "multi" ELSE "big"
      /\ UNCHANGED <<files, backup, window, localOffset, next, localType,
                     headerBuffer, naming, recipeH, recipeD>>
  BY DEF ChunkerInv, StartSegment, recipes
<1>2. /\ window.totalOffset \in Nat /\ window.len \in Nat /\ localOffset \in Nat
      /\ WindowOK /\ localOffset <= window.len /\ SegLen \in Nat
      /\ SegLen' = SegLen /\ File' = File
  <2>1. window.totalOffset \in Nat /\ window.len \in Nat /\ localOffset \in Nat
    BY <1>1 DEF TypeOK
  <2>2. WindowOK /\ localOffset <= window.len
    BY <1>1 DEF PositionOK, WindowOK
  <2>3. SegLen' = SegLen /\ File' = File
    BY <1>1 DEF SegLen, File
  <2> QED BY <2>1, <2>2, <2>3 DEF SegLen
<1>3. (SegLen >= Reserve \/ window.end) /\ 0 < SegLen
  <2>1. SegLen >= Reserve \/ (window.end /\ localOffset < window.len)
    BY <1>1, <1>2 DEF InWindow
  <2>2. localOffset < window.len => 0 < SegLen
    BY <1>2 DEF SegLen
  <2> QED BY <1>2, <2>1, <2>2, ConstantFacts
<1>4. chunker' \in {"multi", "big"} /\ InSegment'
  BY <1>1 DEF InSegment
<1>5. Done' = Done
  <2>1. Done' = window.totalOffset + (localOffset + 0)
    BY <1>1, <1>4 DEF Done
  <2>2. Done = window.totalOffset + localOffset
    BY <1>1 DEF Done, InSegment
  <2> QED BY <1>2, <2>1, <2>2
<1>6. PositionOK'
  <2>1. SegmentOK' /\ WindowOK'
    BY <1>1, <1>2, <1>3 DEF SegmentOK, WindowOK
  <2> QED BY <1>1, <1>2, <1>4, <2>1 DEF PositionOK
<1>7. TypeOK'
  BY <1>1, <1>4 DEF TypeOK
<1>8. NextOK' /\ BigOK' /\ HeadersOK'
  BY <1>1, <1>2, <1>4, <1>5 DEF NextOK, BigOK, BigLeft, HeadersOK
<1> QED BY <1>5, <1>6, <1>7, <1>8 DEF ChunkerInv

LEMMA EndWindowStep ==
    ASSUME ChunkerInv, EndWindow
    PROVE  ChunkerInv' /\ Done' = Done
<1>1. /\ TypeOK /\ PositionOK /\ NextOK /\ BigOK /\ HeadersOK
      /\ chunker = "cut" /\ ~InWindow
      /\ window' = [window EXCEPT !.totalOffset = @ + localOffset]
      /\ chunker' = IF window.end THEN "closed" ELSE "read"
      /\ UNCHANGED <<files, backup, localOffset, cpSum, next, localType,
                     headerBuffer, naming, recipeH, recipeD>>
  BY DEF ChunkerInv, EndWindow, recipes
<1>2. /\ window \in [totalOffset: Nat, len: Nat, end: BOOLEAN]
      /\ window.totalOffset \in Nat /\ window.len \in Nat /\ localOffset \in Nat
      /\ WindowOK /\ Len(File) \in Nat /\ File' = File
  BY <1>1, FileFacts DEF TypeOK, PositionOK, File
<1>3. PICK t \in Nat : t = window.totalOffset + localOffset
  BY <1>2
<1>4. window' = [window EXCEPT !.totalOffset = t]
  BY <1>1, <1>3
<1>5. /\ window' \in [totalOffset: Nat, len: Nat, end: BOOLEAN]
      /\ window'.totalOffset = t
  BY <1>2, <1>4
<1>6. t <= Len(File)
  BY <1>2, <1>3 DEF WindowOK
<1>7. window.end => t = Len(File)
  <2>1. ASSUME window.end PROVE localOffset = window.len
    <3>1. ~(localOffset < window.len)
      BY <1>1, <2>1 DEF InWindow
    <3> QED BY <1>2, <3>1 DEF WindowOK
  <2> QED BY <1>2, <1>3, <2>1 DEF WindowOK
<1>8. chunker' \in {"read", "closed"} /\ ~InSegment'
  BY <1>1 DEF InSegment
<1>9. Done' = Done
  <2>1. Done = t
    BY <1>1, <1>3 DEF Done, InSegment
  <2>2. Done' = t
    BY <1>5, <1>8 DEF Done
  <2> QED BY <2>1, <2>2
<1>10. PositionOK'
  BY <1>1, <1>2, <1>5, <1>6, <1>7, <1>8 DEF PositionOK
<1>11. TypeOK'
  BY <1>1, <1>5, <1>8 DEF TypeOK
<1>12. NextOK' /\ BigOK' /\ HeadersOK'
  BY <1>1, <1>2, <1>8, <1>9 DEF NextOK, BigOK, BigLeft, HeadersOK
<1> QED BY <1>9, <1>10, <1>11, <1>12 DEF ChunkerInv

\* A file that is closed has no big file left over, so the next file begins
\* with a header.
LEMMA LoadStep ==
    ASSUME ChunkerInv, LoadChunkFile
    PROVE  ChunkerInv' /\ Done' = 0
<1>1. /\ TypeOK /\ PositionOK /\ NextOK /\ BigOK /\ HeadersOK
      /\ chunker = "closed" /\ backup < backupNum /\ backup' = backup + 1
      /\ window' = [totalOffset |-> 0, len |-> 0, end |-> FALSE]
      /\ chunker' = "read"
      /\ UNCHANGED <<files, localOffset, cpSum, next, localType, headerBuffer,
                     naming, recipeH, recipeD>>
  BY DEF ChunkerInv, LoadChunkFile, recipes
<1>2. next.type # BIG_CHUNK
  <2>1. Done = Len(File) /\ Len(File) \in Nat
    <3>1. Done = window.totalOffset + 0 /\ window.totalOffset = Len(File)
          /\ Len(File) \in Nat
      BY <1>1, FileFacts DEF Done, InSegment, PositionOK
    <3> QED BY <3>1
  <2>2. next.bigSize \in Nat /\ next.bigOffset \in Nat
    BY <1>1 DEF TypeOK, NextSet
  <2> QED BY <1>1, <2>1, <2>2 DEF BigOK, BigLeft
<1>3. /\ backup' \in 1 .. backupNum
      /\ window' \in [totalOffset: Nat, len: Nat, end: BOOLEAN]
      /\ window'.totalOffset = 0
  <2>1. backup \in Nat /\ backup >= 1
    BY <1>1, ConstantFacts DEF TypeOK
  <2>2. backup' \in 1 .. backupNum
    BY <1>1, <2>1, ConstantFacts
  <2> QED BY <1>1, <2>2
<1>4. Done' = 0
  BY <1>1, <1>3 DEF Done, InSegment
<1>5. TypeOK'
  BY <1>1, <1>3 DEF TypeOK
<1>6. PositionOK'
  <2>1. Len(File)' \in Nat
    <3>1. (FileLength)'
      BY FileLength, PTL
    <3> QED BY <1>5, <3>1
  <2> QED BY <1>1, <1>3, <2>1 DEF PositionOK, InSegment
<1>7. NextOK' /\ BigOK' /\ HeadersOK'
  BY <1>1, <1>2 DEF NextOK, BigOK, HeadersOK
<1> QED BY <1>4, <1>5, <1>6, <1>7 DEF ChunkerInv

LEMMA InitStep ==
    ASSUME ChunkerInit
    PROVE  ChunkerInv /\ Done = 0
<1>1. 1 \in 1 .. backupNum
  BY ConstantFacts
<1>2. << >> \in Path /\ << >> \in Seq(Block) /\ << >> \in Seq(HeaderChunk)
      /\ << >> \in Seq(DataChunk) /\ Len(<< >>) = 0
  BY DEF Path
<1>3. TypeOK
  BY <1>1, <1>2 DEF ChunkerInit, TypeOK, NextSet, NamingSet, Type
<1>4. Done = 0
  BY DEF ChunkerInit, Done, InSegment
<1>5. PositionOK
  BY <1>3, FileFacts DEF ChunkerInit, PositionOK, InSegment
<1>6. NextOK /\ BigOK /\ HeadersOK
  BY <1>2, ConstantFacts DEF ChunkerInit, NextOK, BigOK, HeadersOK,
     FILE_HEADER, FILE_CHUNK, BIG_CHUNK
<1> QED BY <1>3, <1>4, <1>5, <1>6 DEF ChunkerInv

-----------------------------------------------------------------------------
(* The window and the header buffer *)

\* Each step keeps the invariant, as long as big files are whole.
LEMMA ChunkerStep ==
    ASSUME ChunkerInv, BigFilesWhole, [Next]_vars
    PROVE  ChunkerInv'
<1>1. CASE ChunkerNext
  BY <1>1, ReadWindowStep, StartSegmentStep, CutHeaderStep, CutEmptyStep,
     CopyNegativeStep, CutDataStep, PushHeadersStep, CutBigStep, EndBigStep, EndWindowStep, LoadStep
     DEF ChunkerNext, Cut
<1>2. CASE UNCHANGED chunkerVars
  BY <1>2 DEF chunkerVars, ChunkerInv, TypeOK, PositionOK, NextOK, HeadersOK, BigOK,
     InSegment, Done, WindowOK, SegmentOK, SegLen, File, BigLeft
<1>3. ChunkerNext \/ UNCHANGED chunkerVars
  BY DEF Next, vars, RestoreNext, StartRestore, Refill, RestoreHeader, RestoreBig,
     EndBigFile, EndRestore, ReadPastRecipe
<1> QED BY <1>1, <1>2, <1>3

\* The chunker's state keeps its types, its position agrees with the window,
\* and what is left of a big file lies before it.
THEOREM ChunkerInvariant == Spec /\ []BigFilesWhole => []ChunkerInv
<1>1. Init => ChunkerInv
  BY InitStep DEF Init
<1>2. ChunkerInv /\ BigFilesWhole /\ [Next]_vars => ChunkerInv'
  BY ChunkerStep
<1> QED BY <1>1, <1>2, PTL DEF Spec

\* No segment reaches past its window, which keeps the unsigned subtraction of
\* the window loop (chunker.cc:126) from wrapping, and the headers of a segment
\* fit into the two buffers allocated for the default number of them, for an
\* option -H up to that default.
THEOREM SegmentsInsideBuffers ==
    ASSUME MULTI_HEADER_CHUNK <= DefaultHeaders
    PROVE  Spec /\ []BigFilesWhole => []InsideBuffers
<1>1. ChunkerInv => InsideBuffers
  <2> SUFFICES ASSUME ChunkerInv PROVE InsideBuffers
    OBVIOUS
  <2>1. CutsInsideWindow
    BY DEF ChunkerInv, PositionOK, WindowOK, SegmentOK, InSegment, CutsInsideWindow
  <2>2. HeaderBufferFits
    <3>1. Len(headerBuffer) \in Nat /\ Len(headerBuffer) <= MULTI_HEADER_CHUNK
      BY SeqFacts DEF ChunkerInv, TypeOK, HeadersOK
    <3> QED BY <3>1, TarChunkerAssumption DEF HeaderBufferFits
  <2> QED BY <2>1, <2>2 DEF InsideBuffers
<1> QED BY <1>1, ChunkerInvariant, PTL

-----------------------------------------------------------------------------
(* Where the blocks are *)

Upto(n) == {File[i] : i \in 1 .. n}
Once(s) == \A j, k \in DOMAIN s : s[j] = s[k] => j = k

\* The first n blocks of the file are in the header recipe h, the data recipe
\* d and the segment's headers hs, each in one place.
CutOnce(h, d, hs, n) ==
    /\ Blocks(h) \cup Blocks(d) \cup Range(hs) = Upto(n)
    /\ Blocks(h) \cap Blocks(d) = {}
    /\ (Blocks(h) \cup Blocks(d)) \cap Range(hs) = {}
    /\ EachOnce(h) /\ EachOnce(d) /\ Once(hs)

RecipesInv ==
    /\ CutOnce(recipeH[backup], recipeD[backup], headerBuffer, Done)
    /\ \A b \in backup + 1 .. backupNum : recipeH[b] = << >> /\ recipeD[b] = << >>

\* A chunk appended to a recipe brings its blocks.
LEMMA AppendChunk ==
    ASSUME NEW S, NEW chunks \in Seq(S), NEW c \in S
    PROVE  /\ Blocks(Append(chunks, c)) = Blocks(chunks) \cup Range(c.data)
           /\ EachOnce(chunks) /\ Once(c.data) /\ Range(c.data) \cap Blocks(chunks) = {}
                  => EachOnce(Append(chunks, c))
<1> DEFINE next_ == Append(chunks, c)
           n == Len(chunks)
<1>1. /\ n \in Nat /\ DOMAIN chunks = 1 .. n
      /\ next_ \in Seq(S) /\ Len(next_) = n + 1
      /\ \A i \in 1 .. n : next_[i] = chunks[i]
      /\ next_[n + 1] = c
  BY AppendFacts, SeqFacts
<1>2. DOMAIN next_ = 1 .. n + 1
  BY <1>1, SeqFacts
<1> HIDE DEF next_, n
<1>3. Blocks(next_) = Blocks(chunks) \cup Range(c.data)
  <2>1. \A i \in 1 .. n + 1 : i \in 1 .. n \/ i = n + 1
    BY <1>1
  <2>2. \A i \in 1 .. n : i \in 1 .. n + 1
    BY <1>1
  <2>3. n + 1 \in 1 .. n + 1
    BY <1>1
  <2>4. ASSUME NEW b \in Blocks(next_) PROVE b \in Blocks(chunks) \cup Range(c.data)
    BY <1>1, <1>2, <2>1 DEF Blocks
  <2>5. ASSUME NEW b \in Blocks(chunks) PROVE b \in Blocks(next_)
    BY <1>1, <1>2, <2>2 DEF Blocks
  <2>6. ASSUME NEW b \in Range(c.data) PROVE b \in Blocks(next_)
    BY <1>1, <1>2, <2>3 DEF Blocks
  <2> QED BY <2>4, <2>5, <2>6
<1>4. ASSUME EachOnce(chunks), Once(c.data), Range(c.data) \cap Blocks(chunks) = {}
      PROVE  EachOnce(next_)
  <2> SUFFICES ASSUME NEW i \in DOMAIN next_, NEW m \in DOMAIN next_,
                      NEW j \in DOMAIN next_[i].data, NEW k \in DOMAIN next_[m].data,
                      next_[i].data[j] = next_[m].data[k]
               PROVE  i = m /\ j = k
    BY DEF EachOnce
  <2>1. (i \in DOMAIN chunks \/ i = n + 1) /\ (m \in DOMAIN chunks \/ m = n + 1)
    BY <1>1, <1>2
  <2>2. CASE i \in DOMAIN chunks /\ m \in DOMAIN chunks
    BY <1>1, <1>4, <2>2 DEF EachOnce
  <2>3. CASE i = n + 1 /\ m = n + 1
    BY <1>1, <1>4, <2>3 DEF Once
  <2>4. CASE i \in DOMAIN chunks /\ m = n + 1
    <3>1. next_[i].data[j] \in Blocks(chunks) /\ next_[m].data[k] \in Range(c.data)
      BY <1>1, <2>4 DEF Blocks, Range
    <3> QED BY <1>4, <3>1
  <2>5. CASE i = n + 1 /\ m \in DOMAIN chunks
    <3>1. next_[m].data[k] \in Blocks(chunks) /\ next_[i].data[j] \in Range(c.data)
      BY <1>1, <2>5 DEF Blocks, Range
    <3> QED BY <1>4, <3>1
  <2> QED BY <2>1, <2>2, <2>3, <2>4, <2>5
<1> QED BY <1>3, <1>4 DEF next_

\* A run of blocks from the chunker's position is new, and comes once.
LEMMA RunFacts ==
    ASSUME TypeOK, NEW p \in Nat, NEW n \in Nat, p + n <= Len(File),
           NEW s \in Seq(Block), Len(s) = n, \A k \in 1 .. n : s[k] = File[p + k]
    PROVE  /\ Once(s)
           /\ Range(s) \cap Upto(p) = {}
           /\ Range(s) \cup Upto(p) = Upto(p + n)
<1>1. DOMAIN s = 1 .. n
  BY SeqFacts
<1>2. \A i, j \in 1 .. Len(File) : File[i] = File[j] => i = j
  BY FileFacts
<1>3. \A k \in 1 .. n : p + k \in 1 .. Len(File)
  BY FileLength
<1>4. Once(s)
  <2> SUFFICES ASSUME NEW j \in 1 .. n, NEW k \in 1 .. n, s[j] = s[k]
               PROVE  j = k
    BY <1>1 DEF Once
  <2>1. p + j = p + k
    BY <1>2, <1>3
  <2> QED BY <2>1
<1>5. Range(s) \cap Upto(p) = {}
  <2> SUFFICES ASSUME NEW k \in 1 .. n, NEW i \in 1 .. p, s[k] = File[i]
               PROVE  FALSE
    BY <1>1 DEF Range, Upto
  <2>1. i \in 1 .. Len(File)
    BY FileLength
  <2>2. p + k = i
    BY <1>2, <1>3, <2>1
  <2> QED BY <2>2
<1>6. Range(s) \cup Upto(p) = Upto(p + n)
  <2>1. ASSUME NEW k \in 1 .. n PROVE s[k] \in Upto(p + n)
    <3>1. p + k \in 1 .. p + n /\ s[k] = File[p + k]
      OBVIOUS
    <3> QED BY <3>1 DEF Upto
  <2>2. ASSUME NEW i \in 1 .. p PROVE File[i] \in Upto(p + n)
    <3>1. i \in 1 .. p + n
      OBVIOUS
    <3> QED BY <3>1 DEF Upto
  <2>3. ASSUME NEW i \in 1 .. p + n PROVE File[i] \in Range(s) \cup Upto(p)
    <3>1. CASE i <= p
      <4>1. i \in 1 .. p
        BY <3>1
      <4> QED BY <4>1 DEF Upto
    <3>2. CASE ~(i <= p)
      <4>1. PICK k \in 1 .. n : i = p + k
        <5>1. i - p \in 1 .. n /\ i = p + (i - p)
          BY <3>2
        <5> QED BY <5>1
      <4>2. File[i] = s[k]
        BY <4>1
      <4> QED BY <1>1, <4>2 DEF Range
    <3> QED BY <3>1, <3>2
  <2>4. Range(s) \subseteq Upto(p + n)
    BY <1>1, <2>1 DEF Range
  <2>5. Upto(p) \subseteq Upto(p + n)
    BY <2>2 DEF Upto
  <2>6. Upto(p + n) \subseteq Range(s) \cup Upto(p)
    BY <2>3 DEF Upto
  <2> QED BY <2>4, <2>5, <2>6
<1> QED BY <1>4, <1>5, <1>6

\* A header goes to the segment's headers.
LEMMA TakeHeader ==
    ASSUME TypeOK, NEW p \in Nat, p + 1 <= Len(File), NEW h, NEW d,
           NEW hs \in Seq(Block), CutOnce(h, d, hs, p)
    PROVE  CutOnce(h, d, Append(hs, File[p + 1]), p + 1)
<1> DEFINE b == File[p + 1]
           n == Len(hs)
<1>1. b \in Block /\ p + 1 \in 1 .. Len(File)
  BY FileFacts
<1>2. b \notin Upto(p)
  <2> SUFFICES ASSUME NEW i \in 1 .. p, b = File[i] PROVE FALSE
    BY DEF Upto
  <2>1. i \in 1 .. Len(File)
    BY FileLength
  <2> QED BY <1>1, <2>1, FileFacts
<1>3. Upto(p + 1) = Upto(p) \cup {b}
  <2>1. \A i \in 1 .. p + 1 : i \in 1 .. p \/ i = p + 1
    OBVIOUS
  <2>2. (\A i \in 1 .. p : i \in 1 .. p + 1) /\ p + 1 \in 1 .. p + 1
    OBVIOUS
  <2> QED BY <2>1, <2>2 DEF Upto
<1> HIDE DEF b
<1>4. /\ n \in Nat /\ DOMAIN hs = 1 .. n
      /\ DOMAIN Append(hs, b) = 1 .. n + 1
      /\ \A i \in 1 .. n : Append(hs, b)[i] = hs[i]
      /\ Append(hs, b)[n + 1] = b
  <2>1. PICK t \in Seq(Block) : t = Append(hs, b) /\ Len(t) = n + 1
    BY <1>1, AppendFacts
  <2>2. DOMAIN t = 1 .. n + 1
    BY <2>1, SeqFacts
  <2> QED BY <1>1, <2>1, <2>2, AppendFacts, SeqFacts
<1> DEFINE t == Append(hs, b)
<1> HIDE DEF n, t
<1>5. \A i \in 1 .. n + 1 : i \in 1 .. n \/ i = n + 1
  BY <1>4
<1>6. (\A i \in 1 .. n : i \in 1 .. n + 1) /\ n + 1 \in 1 .. n + 1
  BY <1>4
<1>7. Range(t) = Range(hs) \cup {b}
  BY <1>4, <1>5, <1>6 DEF Range, t
<1>8. Once(t)
  <2> SUFFICES ASSUME NEW j \in 1 .. n + 1, NEW k \in 1 .. n + 1, t[j] = t[k]
               PROVE  j = k
    BY <1>4 DEF Once, t
  <2>1. \A i \in 1 .. n : hs[i] # b
    BY <1>2, <1>4 DEF CutOnce, Range
  <2>2. \A i, l \in 1 .. n : hs[i] = hs[l] => i = l
    BY <1>4 DEF CutOnce, Once
  <2> QED BY <1>4, <1>5, <2>1, <2>2 DEF t
<1> QED BY <1>2, <1>3, <1>7, <1>8 DEF CutOnce, t, b

\* A run of data goes to the data recipe.
LEMMA TakeData ==
    ASSUME TypeOK, NEW p \in Nat, NEW n \in Nat, p + n <= Len(File),
           NEW h, NEW d \in Seq(DataChunk), NEW hs, CutOnce(h, d, hs, p),
           NEW c \in DataChunk, Len(c.data) = n,
           \A k \in 1 .. n : c.data[k] = File[p + k]
    PROVE  CutOnce(h, Append(d, c), hs, p + n)
<1>1. PICK s \in Seq(Block) : s = c.data
  BY DEF DataChunk
<1>2. Once(s) /\ Range(s) \cap Upto(p) = {} /\ Range(s) \cup Upto(p) = Upto(p + n)
  BY <1>1, RunFacts
<1>3. /\ Blocks(Append(d, c)) = Blocks(d) \cup Range(s)
      /\ Range(s) \cap Blocks(d) = {} => EachOnce(Append(d, c))
  <2>1. EachOnce(d) /\ Once(c.data)
    BY <1>1, <1>2 DEF CutOnce
  <2> QED BY <1>1, <2>1, AppendChunk
<1>4. /\ Blocks(h) \cup Blocks(d) \cup Range(hs) = Upto(p)
      /\ Blocks(h) \cap Blocks(d) = {}
      /\ (Blocks(h) \cup Blocks(d)) \cap Range(hs) = {}
      /\ EachOnce(h) /\ Once(hs)
  BY DEF CutOnce
<1> QED BY <1>2, <1>3, <1>4 DEF CutOnce

\* The segment's headers go to the header recipe.
LEMMA PushAll ==
    ASSUME NEW p, NEW h \in Seq(HeaderChunk), NEW d, NEW hs, CutOnce(h, d, hs, p),
           NEW c \in HeaderChunk, c.data = hs
    PROVE  CutOnce(Append(h, c), d, << >>, p)
<1>1. /\ Blocks(h) \cup Blocks(d) \cup Range(hs) = Upto(p)
      /\ Blocks(h) \cap Blocks(d) = {}
      /\ (Blocks(h) \cup Blocks(d)) \cap Range(hs) = {}
      /\ EachOnce(h) /\ EachOnce(d) /\ Once(hs)
  BY DEF CutOnce
<1>2. Blocks(Append(h, c)) = Blocks(h) \cup Range(hs) /\ EachOnce(Append(h, c))
  <2>1. Once(c.data) /\ Range(c.data) \cap Blocks(h) = {}
    BY <1>1
  <2> QED BY <1>1, <2>1, AppendChunk
<1>3. Range(<< >>) = {} /\ Once(<< >>)
  BY DEF Range, Once
<1> QED BY <1>1, <1>2, <1>3 DEF CutOnce

\* A step that touches neither recipes nor headers nor the position.
LEMMA SameBlocks ==
    ASSUME RecipesInv, Done' = Done,
           UNCHANGED <<files, backup, headerBuffer, recipeH, recipeD>>
    PROVE  RecipesInv'
BY DEF RecipesInv, CutOnce, Upto, File

\* A step that leaves h, d and hs for the backup it is at.
LEMMA NewBlocks ==
    ASSUME NEW h, NEW d, NEW hs, NEW n, CutOnce(h, d, hs, n),
           UNCHANGED <<files, backup>>,
           recipeH'[backup] = h, recipeD'[backup] = d, headerBuffer' = hs, Done' = n,
           \A b \in backup + 1 .. backupNum : recipeH'[b] = << >> /\ recipeD'[b] = << >>
    PROVE  RecipesInv'
<1>1. Upto(n)' = Upto(n)
  BY DEF Upto, File
<1>2. CutOnce(recipeH[backup], recipeD[backup], headerBuffer, Done)'
  BY <1>1 DEF CutOnce, Upto, File
<1> QED BY <1>2 DEF RecipesInv

\* Where every action leaves the blocks.
LEMMA RecipesStep ==
    ASSUME ChunkerInv, BigFilesWhole, RecipesInv, [Next]_vars
    PROVE  RecipesInv'
<1>1. /\ TypeOK /\ PositionOK /\ HeadersOK
      /\ CutOnce(recipeH[backup], recipeD[backup], headerBuffer, Done)
      /\ \A b \in backup + 1 .. backupNum : recipeH[b] = << >> /\ recipeD[b] = << >>
      /\ recipeH[backup] \in Seq(HeaderChunk) /\ recipeD[backup] \in Seq(DataChunk)
      /\ headerBuffer \in Seq(Block) /\ backup \in 1 .. backupNum
      /\ recipeH \in [1 .. backupNum -> Seq(HeaderChunk)]
      /\ recipeD \in [1 .. backupNum -> Seq(DataChunk)]
      /\ backup \in Nat /\ backupNum \in Nat
  BY ConstantFacts DEF ChunkerInv, RecipesInv, TypeOK
<1>2. \A b \in backup + 1 .. backupNum : b # backup /\ b \in 1 .. backupNum
  BY <1>1
<1>3. ASSUME NEW n \in Nat, n <= SegLen - cpSum, NEW c \in DataChunk, c.data = Src(n),
             Done' = Done + n, InSegment,
             recipeD' = [recipeD EXCEPT ![backup] = Append(@, c)],
             UNCHANGED <<files, backup, headerBuffer, recipeH>>
      PROVE  RecipesInv'
  <2>1. /\ Done \in Nat /\ Done + n <= Len(File) /\ Len(Src(n)) = n
        /\ \A k \in 1 .. n : Src(n)[k] = File[Done + k]
    BY <1>1, <1>3, SegmentFacts, SrcFacts
  <2>2. CutOnce(recipeH[backup], Append(recipeD[backup], c), headerBuffer, Done + n)
    BY <1>1, <1>3, <2>1, TakeData
  <2>3. recipeD'[backup] = Append(recipeD[backup], c)
        /\ \A b \in backup + 1 .. backupNum : recipeD'[b] = << >>
    BY <1>1, <1>2, <1>3
  <2> QED BY <1>1, <1>3, <2>2, <2>3, NewBlocks
<1>4. ASSUME CutHeader PROVE RecipesInv'
  <2>1. /\ chunker = "multi" /\ headerBuffer' = Append(headerBuffer, Src(1)[1])
        /\ UNCHANGED <<files, backup, recipeH, recipeD>>
    BY <1>4 DEF CutHeader, recipes
  <2>2. /\ Src(1)[1] = File[Done + 1] /\ Done + 1 \in 1 .. Len(File)
        /\ Done \in Nat /\ Done' = Done + 1
    <3>1. InSegment
      BY <2>1 DEF InSegment
    <3> QED BY <1>1, <1>4, <2>1, <3>1, HeaderFacts, SegmentFacts, CutHeaderStep
  <2>3. CutOnce(recipeH[backup], recipeD[backup],
                Append(headerBuffer, File[Done + 1]), Done + 1)
    BY <1>1, <2>2, TakeHeader, FileLength
  <2> QED BY <1>1, <2>1, <2>2, <2>3, NewBlocks
<1>5. ASSUME CutData PROVE RecipesInv'
  <2>1. /\ chunker = "multi" /\ InSegment
        /\ UNCHANGED <<files, backup, headerBuffer, recipeH>>
    BY <1>5 DEF CutData, InSegment
  <2>2. PICK c \in DataChunk :
             /\ c.data = Src(CutFile.cp)
             /\ recipeD' = [recipeD EXCEPT ![backup] = Append(@, c)]
    BY <1>5, CutDataStep
  <2>3. Done' = Done + CutFile.cp
    BY <1>5, CutDataStep
  <2>4. PICK n \in Nat : n = CutFile.cp /\ n <= SegLen - cpSum
    BY <1>1, <2>1, CutFileFacts
  <2> QED BY <1>3, <2>1, <2>2, <2>3, <2>4
<1>6. ASSUME CutBig PROVE RecipesInv'
  <2>1. InSegment /\ UNCHANGED <<files, backup, headerBuffer, recipeH>>
    BY <1>6 DEF CutBig, InSegment
  <2>2. PICK n \in Nat, c \in DataChunk :
             /\ n <= SegLen - cpSum /\ Done' = Done + n
             /\ c.data = Src(n)
             /\ recipeD' = [recipeD EXCEPT ![backup] = Append(@, c)]
    BY <1>6, CutBigStep
  <2> QED BY <1>3, <2>1, <2>2
<1>7. ASSUME PushHeaders PROVE RecipesInv'
  <2>1. headerBuffer' = << >> /\ UNCHANGED <<files, backup, recipeD>> /\ Done' = Done
    BY <1>7, PushHeadersStep DEF PushHeaders
  <2>2. PICK c \in HeaderChunk :
             /\ c.data = headerBuffer
             /\ recipeH' = [recipeH EXCEPT ![backup] = Append(@, c)]
    BY <1>7, PushHeadersStep
  <2>3. CutOnce(Append(recipeH[backup], c), recipeD[backup], << >>, Done)
    BY <1>1, <2>2, PushAll
  <2>4. recipeH'[backup] = Append(recipeH[backup], c)
        /\ \A b \in backup + 1 .. backupNum : recipeH'[b] = << >>
    BY <1>1, <1>2, <2>2
  <2> QED BY <1>1, <2>1, <2>3, <2>4, NewBlocks
<1>8. ASSUME LoadChunkFile PROVE RecipesInv'
  <2>1. /\ backup < backupNum /\ backup' = backup + 1 /\ chunker = "closed"
        /\ UNCHANGED <<files, headerBuffer, recipeH, recipeD>>
    BY <1>8 DEF LoadChunkFile, recipes
  <2>2. Done' = 0
    BY <1>8, LoadStep
  <2>3. backup' \in backup + 1 .. backupNum
    BY <1>1, <2>1
  <2>4. headerBuffer' = << >> /\ recipeH'[backup'] = << >> /\ recipeD'[backup'] = << >>
    BY <1>1, <2>1, <2>3 DEF HeadersOK
  <2>5. \A b \in backup' + 1 .. backupNum : recipeH'[b] = << >> /\ recipeD'[b] = << >>
    BY <1>1, <2>1
  <2>6. Blocks(<< >>) = {} /\ Range(<< >>) = {} /\ EachOnce(<< >>) /\ Once(<< >>)
    BY DEF Blocks, Range, EachOnce, Once
  <2>7. Upto(Done)' = {}
    <3>1. 1 .. 0 = {}
      OBVIOUS
    <3> QED BY <2>2, <3>1 DEF Upto
  <2>8. CutOnce(recipeH[backup], recipeD[backup], headerBuffer, Done)'
    BY <2>4, <2>6, <2>7 DEF CutOnce
  <2> QED BY <2>5, <2>8 DEF RecipesInv
<1>9. ASSUME ReadWindow \/ StartSegment \/ EndWindow PROVE RecipesInv'
  <2>1. Done' = Done
    BY <1>9, ReadWindowStep, StartSegmentStep, EndWindowStep
  <2>2. UNCHANGED <<files, backup, headerBuffer, recipeH, recipeD>>
    BY <1>9 DEF ReadWindow, StartSegment, EndWindow, recipes
  <2> QED BY <2>1, <2>2, SameBlocks
<1>10. ASSUME CutEmpty \/ EndBig \/ CopyNegative PROVE RecipesInv'
  <2>1. Done' = Done
    BY <1>10, CutEmptyStep, EndBigStep, CopyNegativeStep
  <2>2. UNCHANGED <<files, backup, headerBuffer, recipeH, recipeD>>
    BY <1>10 DEF CutEmpty, EndBig, CopyNegative, recipes
  <2> QED BY <2>1, <2>2, SameBlocks
<1>11. ASSUME UNCHANGED chunkerVars PROVE RecipesInv'
  <2>1. Done' = Done
    BY <1>11 DEF chunkerVars, Done, InSegment
  <2>2. UNCHANGED <<files, backup, headerBuffer, recipeH, recipeD>>
    BY <1>11 DEF chunkerVars
  <2> QED BY <2>1, <2>2, SameBlocks
<1>12. ChunkerNext \/ UNCHANGED chunkerVars
  BY DEF Next, vars, RestoreNext, StartRestore, Refill, RestoreHeader, RestoreBig,
     EndBigFile, EndRestore, ReadPastRecipe
<1> QED BY <1>4, <1>5, <1>6, <1>7, <1>8, <1>9, <1>10, <1>11, <1>12 DEF ChunkerNext, Cut

\* Before the first cut nothing is in a recipe.
LEMMA RecipesInit ==
    ASSUME Init
    PROVE  RecipesInv
<1>1. Done = 0 /\ 1 \in 1 .. backupNum
  BY InitStep, ConstantFacts DEF Init
<1>2. /\ recipeH = [b \in 1 .. backupNum |-> << >>] /\ backup = 1
      /\ recipeD = [b \in 1 .. backupNum |-> << >>] /\ headerBuffer = << >>
  BY DEF Init, ChunkerInit
<1>3. Blocks(<< >>) = {} /\ Range(<< >>) = {} /\ EachOnce(<< >>) /\ Once(<< >>)
  BY DEF Blocks, Range, EachOnce, Once
<1>4. Upto(Done) = {}
  <2>1. 1 .. 0 = {}
    OBVIOUS
  <2> QED BY <1>1, <2>1 DEF Upto
<1>5. recipeH[backup] = << >> /\ recipeD[backup] = << >>
  BY <1>1, <1>2
<1>6. \A b \in backup + 1 .. backupNum : b \in 1 .. backupNum
  BY <1>2, ConstantFacts
<1> QED BY <1>2, <1>3, <1>4, <1>5, <1>6 DEF RecipesInv, CutOnce

\* What is cut is what was read: when a file is closed each of its blocks is
\* in one chunk of one recipe, wherever windows and segments ended.
THEOREM TarNothingLost == Spec /\ []BigFilesWhole => []NothingLost
<1>1. Init => RecipesInv
  BY RecipesInit
<1>2. ChunkerInv /\ BigFilesWhole /\ RecipesInv /\ [Next]_vars => RecipesInv'
  BY RecipesStep
<1>3. ChunkerInv /\ RecipesInv => NothingLost
  <2> SUFFICES ASSUME ChunkerInv, RecipesInv, chunker = "closed"
               PROVE  LET h == recipeH[backup]
                          d == recipeD[backup]
                      IN  /\ Blocks(h) \cup Blocks(d) = Range(File)
                          /\ Blocks(h) \cap Blocks(d) = {}
                          /\ EachOnce(h) /\ EachOnce(d)
    BY DEF NothingLost
  <2>1. headerBuffer = << >> /\ TypeOK /\ File \in Seq(Block)
    BY FileFacts DEF ChunkerInv, HeadersOK
  <2>2. Done = Len(File)
    <3>1. Done = window.totalOffset + 0 /\ window.totalOffset = Len(File)
          /\ Len(File) \in Nat
      BY <2>1, FileLength DEF Done, InSegment, ChunkerInv, PositionOK
    <3> QED BY <3>1
  <2>3. Upto(Done) = Range(File)
    <3>1. DOMAIN File = 1 .. Len(File)
      BY <2>1, SeqFacts
    <3> QED BY <2>2, <3>1 DEF Upto, Range
  <2>4. Range(<< >>) = {}
    BY DEF Range
  <2> QED BY <2>1, <2>3, <2>4 DEF RecipesInv, CutOnce
<1> QED BY <1>1, <1>2, <1>3, ChunkerInvariant, PTL DEF Spec

-----------------------------------------------------------------------------
(* How the two recipes weave the file *)

\* where a data chunk begins and ends in the file
From(c) == c.data[1].id
Until(c) == From(c) + Len(c.data) - 1

\* where the blocks are that were cut as headers
Positions(h, hs) == {b.id : b \in Blocks(h) \cup Range(hs)}

\* what the restorer takes from the data recipe after a header: nothing, one
\* chunk, or the chunks of a big file
Small(b) == b.size # 0 /\ Announces(b) = FILE_CHUNK
Large(b) == b.size # 0 /\ Announces(b) = BIG_CHUNK
NoData(b) == ~Small(b) /\ ~Large(b)

\* each data chunk is a run of the file's first n blocks, and they come in order
Runs(F, d, n) ==
    /\ \A i \in DOMAIN d :
           /\ From(d[i]) \in 1 .. n /\ Until(d[i]) \in From(d[i]) .. n
           /\ Len(d[i].data) = Until(d[i]) - From(d[i]) + 1
           /\ \A k \in 1 .. Len(d[i].data) : d[i].data[k] = F[From(d[i]) + k - 1]
    /\ \A i, j \in DOMAIN d : i < j => Until(d[i]) < From(d[j])

\* each of the first n blocks is a header or in one of these runs
Covered(P, d, n) ==
    /\ P \subseteq 1 .. n
    /\ n > 0 => 1 \in P
    /\ \A q \in 1 .. n : q \in P \/ \E i \in DOMAIN d : From(d[i]) <= q /\ q <= Until(d[i])
    /\ \A q \in P, i \in DOMAIN d : q < From(d[i]) \/ Until(d[i]) < q

\* behind a header without data is the next one
NoneFollows(F, P, n) == \A p \in P : NoData(F[p]) /\ p < n => p + 1 \in P

\* behind the header of a file is one run, and then the next header
OneRun(P, d, n, p) ==
    \E i \in DOMAIN d : /\ From(d[i]) = p + 1
                        /\ Until(d[i]) < n => Until(d[i]) + 1 \in P
OneFollows(F, P, d, n) == \A p \in P : Small(F[p]) /\ p < n => OneRun(P, d, n, p)

\* behind the header of a big file are runs until the file's end, and then the
\* next header
BigFollows(F, P, d, n) ==
    \A p \in P : Large(F[p]) =>
        /\ p + F[p].size <= Len(F)
        /\ \A q \in P : q <= p \/ q > p + F[p].size
        /\ p + F[p].size < n => p + F[p].size + 1 \in P
        /\ \A i \in DOMAIN d : From(d[i]) <= p + F[p].size => Until(d[i]) <= p + F[p].size

Woven(F, P, d, n) == /\ Runs(F, d, n) /\ Covered(P, d, n)
                     /\ NoneFollows(F, P, n) /\ OneFollows(F, P, d, n)
                     /\ BigFollows(F, P, d, n)

\* A block announces one thing only.
LEMMA SmallNotLarge == ASSUME NEW b, Small(b) PROVE ~Large(b)
BY DEF Small, Large, FILE_CHUNK, BIG_CHUNK

\* A run of the file as a data chunk.
LEMMA RunChunk ==
    ASSUME TypeOK, NEW p \in Nat, NEW n \in Nat, n > 0, p + n <= Len(File),
           NEW c \in DataChunk, Len(c.data) = n,
           \A k \in 1 .. n : c.data[k] = File[p + k]
    PROVE  /\ From(c) = p + 1 /\ Until(c) = p + n
           /\ \A k \in 1 .. n : c.data[k] = File[From(c) + k - 1]
<1>1. 1 \in 1 .. n /\ p + 1 \in 1 .. Len(File)
  BY FileLength
<1>2. From(c) = p + 1
  BY <1>1, FileFacts DEF From
<1>3. \A k \in 1 .. n : From(c) + k - 1 = p + k
  BY <1>2
<1> QED BY <1>2, <1>3 DEF Until

\* The chunks before and the one appended.
LEMMA OneMore ==
    ASSUME NEW d \in Seq(DataChunk), NEW c \in DataChunk
    PROVE  /\ Len(d) \in Nat
           /\ DOMAIN d = 1 .. Len(d)
           /\ DOMAIN Append(d, c) = 1 .. Len(d) + 1
           /\ \A i \in 1 .. Len(d) : Append(d, c)[i] = d[i] /\ i \in 1 .. Len(d) + 1
           /\ Append(d, c)[Len(d) + 1] = c /\ Len(d) + 1 \in 1 .. Len(d) + 1
           /\ \A i \in 1 .. Len(d) + 1 : i \in 1 .. Len(d) \/ i = Len(d) + 1
<1>1. PICK t \in Seq(DataChunk) : t = Append(d, c) /\ Len(t) = Len(d) + 1
  BY AppendFacts
<1>2. DOMAIN t = 1 .. Len(d) + 1 /\ Len(d) \in Nat /\ DOMAIN d = 1 .. Len(d)
  BY <1>1, SeqFacts
<1> QED BY <1>1, <1>2, AppendFacts

\* One more block is cut as a header.
LEMMA WeaveHeader ==
    ASSUME NEW F \in Seq(Block), NEW P, NEW d \in Seq(DataChunk), NEW n \in Nat,
           Woven(F, P, d, n), n + 1 <= Len(F),
           n \in P => NoData(F[n]),
           \A p \in P : Large(F[p]) => p + F[p].size <= n,
           Large(F[n + 1]) => n + 1 + F[n + 1].size <= Len(F)
    PROVE  Woven(F, P \cup {n + 1}, d, n + 1)
<1> DEFINE Q == P \cup {n + 1}
<1>0. /\ Len(F) \in Nat
      /\ \A p \in 1 .. Len(F) : F[p].size \in Nat
      /\ P \subseteq 1 .. n
      /\ \A p \in P : p \in Int /\ p <= n /\ p \in 1 .. Len(F)
  <2>1. Len(F) \in Nat /\ \A p \in 1 .. Len(F) : F[p] \in Block
    BY SeqFacts
  <2>2. P \subseteq 1 .. n
    BY DEF Woven, Covered
  <2>3. \A b \in Block : b.size \in Nat
    BY DEF Block
  <2> QED BY <2>1, <2>2, <2>3
<1>9. \A p \in Q : (p \in P \/ p = n + 1) /\ p \in Int
  BY <1>0
<1>1. \A i \in DOMAIN d : /\ From(d[i]) \in 1 .. n /\ Until(d[i]) \in From(d[i]) .. n
                          /\ From(d[i]) \in Int /\ Until(d[i]) \in Int
  BY DEF Woven, Runs
<1>2. Runs(F, d, n + 1)
  <2>1. \A i \in DOMAIN d : From(d[i]) \in 1 .. n + 1 /\ Until(d[i]) \in From(d[i]) .. n + 1
    BY <1>1
  <2> QED BY <2>1 DEF Woven, Runs
<1>3. Covered(Q, d, n + 1)
  <2>1. Q \subseteq 1 .. n + 1
    <3>1. \A p \in P : p \in 1 .. n + 1
      BY <1>0
    <3>2. n + 1 \in 1 .. n + 1
      OBVIOUS
    <3> QED BY <3>1, <3>2
  <2>2. 1 \in Q
    BY DEF Woven, Covered
  <2>3. ASSUME NEW q \in 1 .. n + 1
        PROVE  q \in Q \/ \E i \in DOMAIN d : From(d[i]) <= q /\ q <= Until(d[i])
    <3>1. q \in 1 .. n \/ q = n + 1
      OBVIOUS
    <3> QED BY <3>1 DEF Woven, Covered
  <2>4. ASSUME NEW q \in Q, NEW i \in DOMAIN d PROVE q < From(d[i]) \/ Until(d[i]) < q
    BY <1>1 DEF Woven, Covered
  <2> QED BY <2>1, <2>2, <2>3, <2>4 DEF Covered
<1>4. NoneFollows(F, Q, n + 1)
  <2> SUFFICES ASSUME NEW p \in Q, NoData(F[p]), p < n + 1 PROVE p + 1 \in Q
    BY DEF NoneFollows
  <2>1. p \in P /\ p \in Int /\ (p < n \/ p = n)
    BY <1>0, <1>9
  <2> QED BY <2>1 DEF Woven, NoneFollows
<1>5. OneFollows(F, Q, d, n + 1)
  <2> SUFFICES ASSUME NEW p \in Q, Small(F[p]), p < n + 1
               PROVE  OneRun(Q, d, n + 1, p)
    BY DEF OneFollows
  <2>1. p \in P /\ p \in Int /\ (p < n \/ p = n)
    BY <1>0, <1>9
  <2>2. p < n
    BY <2>1 DEF NoData
  <2>3. PICK i \in DOMAIN d : /\ From(d[i]) = p + 1
                              /\ Until(d[i]) < n => Until(d[i]) + 1 \in P
    BY <2>1, <2>2 DEF Woven, OneFollows, OneRun
  <2>4. Until(d[i]) < n \/ Until(d[i]) = n
    BY <1>1
  <2>5. Until(d[i]) < n + 1 => Until(d[i]) + 1 \in Q
    BY <2>3, <2>4
  <2> QED BY <2>3, <2>5 DEF OneRun
<1>6. BigFollows(F, Q, d, n + 1)
  <2> SUFFICES ASSUME NEW p \in Q, Large(F[p])
               PROVE  /\ p + F[p].size <= Len(F)
                      /\ \A q \in Q : q <= p \/ q > p + F[p].size
                      /\ p + F[p].size < n + 1 => p + F[p].size + 1 \in Q
                      /\ \A i \in DOMAIN d :
                             From(d[i]) <= p + F[p].size => Until(d[i]) <= p + F[p].size
    BY DEF BigFollows
  <2>1. CASE p \in P
    <3>1. /\ p + F[p].size <= Len(F)
          /\ \A q \in P : q <= p \/ q > p + F[p].size
          /\ p + F[p].size < n => p + F[p].size + 1 \in P
          /\ \A i \in DOMAIN d :
                 From(d[i]) <= p + F[p].size => Until(d[i]) <= p + F[p].size
      BY <2>1 DEF Woven, BigFollows
    <3>2. PICK e \in Nat : e = p + F[p].size
      <4>1. F[p].size \in Nat /\ p \in Nat
        BY <1>0, <2>1
      <4> QED BY <4>1
    <3>3. e <= n
      BY <2>1, <3>2
    <3> QED BY <3>1, <3>2, <3>3
  <2>2. CASE p = n + 1
    <3>1. n + 1 \in 1 .. Len(F)
      BY <1>0
    <3>2. PICK s \in Nat : s = F[n + 1].size
      BY <1>0, <3>1
    <3>3. p + s <= Len(F) /\ s > 0
      BY <2>2, <3>2 DEF Large
    <3>4. ASSUME NEW q \in Q PROVE q <= p
      <4>1. q \in P => q <= n /\ q \in Int
        BY <1>0
      <4>2. q \in P \/ q = n + 1
        OBVIOUS
      <4> QED BY <2>2, <4>1, <4>2
    <3>5. \A i \in DOMAIN d : Until(d[i]) <= p + s
      <4>1. \A i \in DOMAIN d : Until(d[i]) \in Int /\ Until(d[i]) <= n
        BY <1>1
      <4>2. p + s \in Int /\ n <= p + s
        BY <2>2, <3>2
      <4> QED BY <4>1, <4>2
    <3>6. ~(p + s < n + 1)
      BY <2>2, <3>3
    <3> QED BY <2>2, <3>2, <3>3, <3>4, <3>5, <3>6
  <2> QED BY <2>1, <2>2, <1>9
<1> QED BY <1>2, <1>3, <1>4, <1>5, <1>6 DEF Woven

\* A run is cut as data: the whole of a file behind its header, or more of a
\* big file.
LEMMA WeaveData ==
    ASSUME NEW F \in Seq(Block), NEW P, NEW d \in Seq(DataChunk), NEW n \in Nat,
           NEW k \in Nat, k > 0, n + k <= Len(F), Woven(F, P, d, n),
           NEW c \in DataChunk, From(c) = n + 1, Until(c) = n + k, Len(c.data) = k,
           \A j \in 1 .. k : c.data[j] = F[From(c) + j - 1],
           \/ n \in P /\ Small(F[n])
           \/ \E p \in P : Large(F[p]) /\ n + k <= p + F[p].size
    PROVE  Woven(F, P, Append(d, c), n + k)
<1> DEFINE t == Append(d, c)
           l == Len(d)
<1>0. /\ Len(F) \in Nat
      /\ \A p \in 1 .. Len(F) : F[p].size \in Nat
      /\ P \subseteq 1 .. n
      /\ \A p \in P : p \in Int /\ p <= n /\ p \in 1 .. Len(F)
  <2>1. Len(F) \in Nat /\ \A p \in 1 .. Len(F) : F[p] \in Block
    BY SeqFacts
  <2>2. P \subseteq 1 .. n
    BY DEF Woven, Covered
  <2>3. \A b \in Block : b.size \in Nat
    BY DEF Block
  <2> QED BY <2>1, <2>2, <2>3
<1>1. \A i \in 1 .. l : /\ From(d[i]) \in 1 .. n /\ Until(d[i]) \in From(d[i]) .. n
                        /\ From(d[i]) \in Int /\ Until(d[i]) \in Int /\ Until(d[i]) <= n
  BY OneMore DEF Woven, Runs
<1>2. /\ l \in Nat /\ DOMAIN d = 1 .. l /\ DOMAIN t = 1 .. l + 1
      /\ \A i \in 1 .. l : t[i] = d[i] /\ i \in 1 .. l + 1
      /\ t[l + 1] = c /\ l + 1 \in 1 .. l + 1
      /\ \A i \in 1 .. l + 1 : i \in 1 .. l \/ i = l + 1
  BY OneMore
<1>3. ASSUME NEW p \in P PROVE F[p].size \in Nat /\ p + F[p].size \in Nat
  BY <1>0
<1>4. ASSUME NEW p \in P, Large(F[p])
      PROVE  /\ p + F[p].size <= Len(F)
             /\ \A q \in P : q <= p \/ q > p + F[p].size
             /\ p + F[p].size < n => p + F[p].size + 1 \in P
             /\ \A i \in 1 .. l :
                    From(d[i]) <= p + F[p].size => Until(d[i]) <= p + F[p].size
  BY <1>2, <1>4 DEF Woven, BigFollows
<1>5. \A q \in P, i \in 1 .. l : q < From(d[i]) \/ Until(d[i]) < q
  BY <1>2 DEF Woven, Covered
\* the two cases
<1>6. n \in P => ~NoData(F[n])
  <2> SUFFICES ASSUME n \in P, NEW p \in P, Large(F[p]), n + k <= p + F[p].size
               PROVE  Large(F[n])
    BY DEF NoData
  <2>1. n <= p
    BY <1>3, <1>4
  <2>2. n = p
    BY <1>0, <2>1
  <2> QED BY <2>2
<1>7. ASSUME NEW q \in P, Large(F[q])
      PROVE  q + F[q].size < n \/ n + k <= q + F[q].size
  <2>1. CASE n \in P /\ Small(F[n])
    <3>1. q # n
      BY <2>1, <1>7, SmallNotLarge
    <3>2. n > q + F[q].size
      BY <1>0, <1>4, <1>7, <2>1, <3>1
    <3> QED BY <1>3, <3>2
  <2>2. ASSUME NEW p \in P, Large(F[p]), n + k <= p + F[p].size
        PROVE  q + F[q].size < n \/ n + k <= q + F[q].size
    <3>1. CASE q = p
      BY <2>2, <3>1
    <3>2. CASE q < p
      <4>1. p > q + F[q].size
        BY <1>0, <1>4, <1>7, <3>2
      <4> QED BY <1>0, <1>3, <4>1
    <3>3. CASE q > p
      <4>1. q > p + F[p].size
        BY <1>0, <1>4, <2>2, <3>3
      <4> QED BY <1>0, <1>3, <2>2, <4>1
    <3> QED BY <1>0, <3>1, <3>2, <3>3
  <2> QED BY <2>1, <2>2
<1>8. ASSUME NEW q \in P, Small(F[q]), NEW i \in 1 .. l, From(d[i]) = q + 1
      PROVE  Until(d[i]) < n
  <2>1. CASE n \in P
    BY <1>0, <1>1, <1>5, <2>1
  <2>2. ASSUME NEW p \in P, Large(F[p]), n + k <= p + F[p].size, Until(d[i]) = n
        PROVE  FALSE
    <3>1. p < q + 1 \/ n < p
      BY <1>5, <1>8, <2>2
    <3>2. p <= q
      BY <1>0, <3>1
    <3>3. p # q
      BY <1>8, <2>2, SmallNotLarge
    <3>4. q > p + F[p].size
      BY <1>0, <1>4, <2>2, <3>2, <3>3
    <3> QED BY <1>0, <1>3, <2>2, <3>4
  <2>3. Until(d[i]) \in Int /\ Until(d[i]) <= n
    BY <1>1
  <2> QED BY <2>1, <2>2, <2>3
<1> HIDE DEF t, l
\* the parts
<1>10. Runs(F, t, n + k)
  <2>1. ASSUME NEW i \in DOMAIN t
        PROVE  /\ From(t[i]) \in 1 .. n + k /\ Until(t[i]) \in From(t[i]) .. n + k
               /\ Len(t[i].data) = Until(t[i]) - From(t[i]) + 1
               /\ \A j \in 1 .. Len(t[i].data) : t[i].data[j] = F[From(t[i]) + j - 1]
    <3>1. CASE i \in 1 .. l
      <4>1. t[i] = d[i]
        BY <1>2, <3>1
      <4>2. From(d[i]) \in 1 .. n + k /\ Until(d[i]) \in From(d[i]) .. n + k
        BY <1>1, <3>1
      <4>3. /\ Len(d[i].data) = Until(d[i]) - From(d[i]) + 1
            /\ \A j \in 1 .. Len(d[i].data) : d[i].data[j] = F[From(d[i]) + j - 1]
        BY <1>2, <3>1 DEF Woven, Runs
      <4> QED BY <4>1, <4>2, <4>3
    <3>2. CASE i = l + 1
      <4>1. t[i] = c
        BY <1>2, <3>2
      <4>2. n + 1 \in 1 .. n + k /\ n + k \in n + 1 .. n + k /\ k = n + k - (n + 1) + 1
        OBVIOUS
      <4> QED BY <4>1, <4>2
    <3> QED BY <1>2, <3>1, <3>2
  <2>2. ASSUME NEW i \in DOMAIN t, NEW j \in DOMAIN t, i < j
        PROVE  Until(t[i]) < From(t[j])
    <3>1. i \in 1 .. l /\ t[i] = d[i]
      BY <1>2, <2>2
    <3>2. CASE j \in 1 .. l
      BY <1>2, <2>2, <3>1, <3>2 DEF Woven, Runs
    <3>3. CASE j = l + 1
      BY <1>1, <1>2, <3>1, <3>3
    <3> QED BY <1>2, <3>2, <3>3
  <2> QED BY <2>1, <2>2 DEF Runs
<1>11. Covered(P, t, n + k)
  <2>1. P \subseteq 1 .. n + k
    BY <1>0
  <2>2. 1 \in P
    <3>1. P # {}
      OBVIOUS
    <3>2. n > 0
      BY <1>0, <3>1
    <3> QED BY <3>2 DEF Woven, Covered
  <2>3. ASSUME NEW q \in 1 .. n + k
        PROVE  q \in P \/ \E i \in DOMAIN t : From(t[i]) <= q /\ q <= Until(t[i])
    <3>1. CASE q \in 1 .. n
      <4>1. q \in P \/ \E i \in 1 .. l : From(d[i]) <= q /\ q <= Until(d[i])
        BY <1>2, <3>1 DEF Woven, Covered
      <4> QED BY <1>2, <4>1
    <3>2. CASE q \notin 1 .. n
      <4>1. n + 1 <= q /\ q <= n + k
        BY <3>2
      <4> QED BY <1>2, <4>1
    <3> QED BY <3>1, <3>2
  <2>4. ASSUME NEW q \in P, NEW i \in DOMAIN t PROVE q < From(t[i]) \/ Until(t[i]) < q
    BY <1>0, <1>2, <1>5
  <2> QED BY <2>1, <2>2, <2>3, <2>4 DEF Covered
<1>12. NoneFollows(F, P, n + k)
  <2> SUFFICES ASSUME NEW p \in P, NoData(F[p]) PROVE p + 1 \in P
    BY DEF NoneFollows
  <2>1. p < n
    BY <1>0, <1>6
  <2> QED BY <2>1 DEF Woven, NoneFollows
<1>13. OneFollows(F, P, t, n + k)
  <2> SUFFICES ASSUME NEW p \in P, Small(F[p]) PROVE OneRun(P, t, n + k, p)
    BY DEF OneFollows
  <2>1. CASE p = n
    <3>1. l + 1 \in DOMAIN t /\ From(t[l + 1]) = p + 1 /\ Until(t[l + 1]) = n + k
      BY <1>2, <2>1
    <3>2. ~(Until(t[l + 1]) < n + k)
      BY <3>1
    <3> QED BY <3>1, <3>2 DEF OneRun
  <2>2. CASE p < n
    <3>1. OneRun(P, d, n, p)
      BY <2>2 DEF Woven, OneFollows
    <3>2. PICK i \in 1 .. l : From(d[i]) = p + 1 /\ (Until(d[i]) < n => Until(d[i]) + 1 \in P)
      BY <1>2, <3>1 DEF OneRun
    <3>3. Until(d[i]) + 1 \in P
      BY <1>8, <3>2
    <3>4. i \in DOMAIN t /\ t[i] = d[i]
      BY <1>2
    <3> QED BY <3>2, <3>3, <3>4 DEF OneRun
  <2> QED BY <1>0, <2>1, <2>2
<1>14. BigFollows(F, P, t, n + k)
  <2> SUFFICES ASSUME NEW p \in P, Large(F[p])
               PROVE  /\ p + F[p].size <= Len(F)
                      /\ \A q \in P : q <= p \/ q > p + F[p].size
                      /\ p + F[p].size < n + k => p + F[p].size + 1 \in P
                      /\ \A i \in DOMAIN t :
                             From(t[i]) <= p + F[p].size => Until(t[i]) <= p + F[p].size
    BY DEF BigFollows
  <2>1. PICK e \in Nat : e = p + F[p].size
    BY <1>3
  <2>2. e < n \/ n + k <= e
    BY <1>7, <2>1
  <2>3. e < n + k => e + 1 \in P
    BY <1>4, <2>1, <2>2
  <2>4. ASSUME NEW i \in DOMAIN t, From(t[i]) <= e PROVE Until(t[i]) <= e
    <3>1. CASE i \in 1 .. l
      BY <1>2, <1>4, <2>1, <2>4, <3>1
    <3>2. CASE i = l + 1
      BY <1>2, <2>2, <2>4, <3>2
    <3> QED BY <1>2, <3>1, <3>2
  <2> QED BY <1>4, <2>1, <2>3, <2>4
<1> QED BY <1>10, <1>11, <1>12, <1>13, <1>14 DEF Woven, t

-----------------------------------------------------------------------------
(* What the chunker's state says of the weave *)

Alike(h, hs) == \A b \in Blocks(h) \cup Range(hs) : ReadAlike(b)

\* what comes after the first n blocks agrees with the headers among them
Expected(F, P, n, nx) ==
    /\ nx.type = FILE_HEADER =>
           /\ n \in P => NoData(F[n]) \/ n = Len(F)
           /\ \A p \in P : Large(F[p]) => p + F[p].size <= n
    /\ nx.type = FILE_CHUNK =>
           /\ n \in P /\ Announces(F[n]) = FILE_CHUNK
           /\ nx.size = F[n].size /\ nx.size <= CONTAINER_MAX_SIZE
    /\ nx.type = BIG_CHUNK =>
           \E p \in P : Large(F[p]) /\ p + nx.bigOffset = n /\ nx.bigSize = F[p].size

\* a header brings at most a container of data to its segment
Fit(hs, sum, nx) ==
    sum + (IF nx.type = FILE_CHUNK THEN nx.size ELSE 0)
        <= Len(hs) * (CONTAINER_MAX_SIZE + 1)

WeaveInv ==
    Alike(recipeH[backup], headerBuffer) =>
        /\ Woven(File, Positions(recipeH[backup], headerBuffer), recipeD[backup], Done)
        /\ Expected(File, Positions(recipeH[backup], headerBuffer), Done, next)
        /\ chunker = "multi" => Fit(headerBuffer, cpSum, next)

\* the headers of a recipe, and those of the segment behind them, in the order
\* of the file
Ascending(h) ==
    \A i, m \in DOMAIN h : \A j \in DOMAIN h[i].data, k \in DOMAIN h[m].data :
        i < m \/ (i = m /\ j < k) => h[i].data[j].id < h[m].data[k].id
InOrder(h, hs) ==
    /\ Ascending(h)
    /\ \A j, k \in DOMAIN hs : j < k => hs[j].id < hs[k].id
    /\ \A b \in Blocks(h), k \in DOMAIN hs : b.id < hs[k].id

\* One more header in the segment.
LEMMA RangeAppend ==
    ASSUME NEW S, NEW s \in Seq(S), NEW e \in S
    PROVE  Range(Append(s, e)) = Range(s) \cup {e}
<1> DEFINE t == Append(s, e)
           n == Len(s)
<1>1. /\ n \in Nat /\ DOMAIN s = 1 .. n /\ t \in Seq(S) /\ Len(t) = n + 1
      /\ \A i \in 1 .. n : t[i] = s[i]
      /\ t[n + 1] = e
  BY AppendFacts, SeqFacts
<1>2. DOMAIN t = 1 .. n + 1
  BY <1>1, SeqFacts
<1> HIDE DEF t, n
<1>3. (\A i \in 1 .. n + 1 : i \in 1 .. n \/ i = n + 1)
      /\ (\A i \in 1 .. n : i \in 1 .. n + 1) /\ n + 1 \in 1 .. n + 1
  BY <1>1
<1>4. Range(t) \subseteq Range(s) \cup {e}
  BY <1>1, <1>2, <1>3 DEF Range
<1>5. Range(s) \cup {e} \subseteq Range(t)
  BY <1>1, <1>2, <1>3 DEF Range
<1> QED BY <1>4, <1>5 DEF t

LEMMA HeaderAppended ==
    ASSUME NEW h, NEW hs \in Seq(Block), NEW b \in Block
    PROVE  /\ Positions(h, Append(hs, b)) = Positions(h, hs) \cup {b.id}
           /\ Alike(h, Append(hs, b)) => Alike(h, hs) /\ ReadAlike(b)
<1>1. Range(Append(hs, b)) = Range(hs) \cup {b}
  BY RangeAppend
<1> QED BY <1>1 DEF Positions, Alike

\* The segment's headers in a chunk of the recipe.
LEMMA HeadersPushed ==
    ASSUME NEW h \in Seq(HeaderChunk), NEW c \in HeaderChunk
    PROVE  /\ Positions(Append(h, c), << >>) = Positions(h, c.data)
           /\ Alike(Append(h, c), << >>) <=> Alike(h, c.data)
<1>1. Blocks(Append(h, c)) = Blocks(h) \cup Range(c.data)
  BY AppendChunk
<1>2. Range(<< >>) = {}
  BY DEF Range
<1> QED BY <1>1, <1>2 DEF Positions, Alike

LEMMA OrderAppended ==
    ASSUME NEW h, NEW hs \in Seq(Block), InOrder(h, hs), NEW n \in Nat,
           NEW b \in Block, b.id = n + 1,
           \A x \in Blocks(h) \cup Range(hs) : x.id \in 1 .. n
    PROVE  InOrder(h, Append(hs, b))
<1> DEFINE t == Append(hs, b)
           l == Len(hs)
<1>1. /\ l \in Nat /\ DOMAIN hs = 1 .. l /\ t \in Seq(Block) /\ Len(t) = l + 1
      /\ \A i \in 1 .. l : t[i] = hs[i]
      /\ t[l + 1] = b
  BY AppendFacts, SeqFacts
<1>2. DOMAIN t = 1 .. l + 1
  BY <1>1, SeqFacts
<1> HIDE DEF t, l
<1>3. \A i \in 1 .. l + 1 : i \in 1 .. l \/ i = l + 1
  BY <1>1
<1>4. \A x \in Blocks(h) : x.id < n + 1
  <2>1. \A x \in Blocks(h) : x.id \in 1 .. n
    OBVIOUS
  <2> QED BY <2>1
<1>5. \A i \in 1 .. l : hs[i].id < n + 1
  <2>1. \A i \in 1 .. l : hs[i] \in Range(hs)
    BY <1>1 DEF Range
  <2>2. \A i \in 1 .. l : hs[i].id \in 1 .. n
    BY <2>1
  <2> QED BY <2>2
<1>6. \A j, k \in DOMAIN t : j < k => t[j].id < t[k].id
  <2> SUFFICES ASSUME NEW j \in 1 .. l + 1, NEW k \in 1 .. l + 1, j < k
               PROVE  t[j].id < t[k].id
    BY <1>2
  <2>1. j \in 1 .. l
    BY <1>1
  <2>2. CASE k \in 1 .. l
    BY <1>1, <2>1, <2>2 DEF InOrder
  <2>3. CASE k = l + 1
    BY <1>1, <1>5, <2>1, <2>3
  <2> QED BY <1>3, <2>2, <2>3
<1>7. \A x \in Blocks(h), k \in DOMAIN t : x.id < t[k].id
  <2> SUFFICES ASSUME NEW x \in Blocks(h), NEW k \in 1 .. l + 1
               PROVE  x.id < t[k].id
    BY <1>2
  <2>1. CASE k \in 1 .. l
    BY <1>1, <2>1 DEF InOrder
  <2>2. CASE k = l + 1
    BY <1>1, <1>4, <2>2
  <2> QED BY <1>3, <2>1, <2>2
<1> QED BY <1>6, <1>7 DEF InOrder, t

LEMMA OrderPushed ==
    ASSUME NEW h \in Seq(HeaderChunk), NEW c \in HeaderChunk, InOrder(h, c.data)
    PROVE  InOrder(Append(h, c), << >>)
<1> DEFINE t == Append(h, c)
           l == Len(h)
<1>1. /\ l \in Nat /\ DOMAIN h = 1 .. l /\ t \in Seq(HeaderChunk) /\ Len(t) = l + 1
      /\ \A i \in 1 .. l : t[i] = h[i]
      /\ t[l + 1] = c
  BY AppendFacts, SeqFacts
<1>2. DOMAIN t = 1 .. l + 1
  BY <1>1, SeqFacts
<1> HIDE DEF t, l
<1>3. \A i \in 1 .. l + 1 : i \in 1 .. l \/ i = l + 1
  BY <1>1
<1>4. Ascending(t)
  <2> SUFFICES ASSUME NEW i \in 1 .. l + 1, NEW m \in 1 .. l + 1,
                      NEW j \in DOMAIN t[i].data, NEW k \in DOMAIN t[m].data,
                      i < m \/ (i = m /\ j < k)
               PROVE  t[i].data[j].id < t[m].data[k].id
    BY <1>2 DEF Ascending
  <2>1. CASE m \in 1 .. l
    <3>1. i \in 1 .. l
      BY <1>1, <2>1
    <3> QED BY <1>1, <2>1, <3>1 DEF InOrder, Ascending
  <2>2. CASE m = l + 1 /\ i = l + 1
    <3>1. j < k
      BY <1>1, <2>2
    <3> QED BY <1>1, <2>2, <3>1 DEF InOrder
  <2>3. CASE m = l + 1 /\ i \in 1 .. l
    <3>1. t[i].data[j] \in Blocks(h)
      BY <1>1, <2>3 DEF Blocks, Range
    <3> QED BY <1>1, <2>3, <3>1 DEF InOrder
  <2> QED BY <1>3, <2>1, <2>2, <2>3
<1>5. DOMAIN << >> = {}
  OBVIOUS
<1> QED BY <1>4, <1>5 DEF InOrder, t

\* What the chunker reads in a header is what the restorer will read in it.
LEMMA ParseAlike ==
    ASSUME BigChunkSize = CONTAINER_MAX_SIZE,
           TypeOK, NEW b \in Block, next.type = FILE_HEADER, ReadAlike(b)
    PROVE  LET n == ParseHeader(b)
           IN  /\ n.type = FILE_HEADER => NoData(b)
               /\ n.type = FILE_CHUNK =>
                      Announces(b) = FILE_CHUNK /\ n.size = b.size
                      /\ n.size <= CONTAINER_MAX_SIZE
               /\ n.type = BIG_CHUNK =>
                      Large(b) /\ n.bigSize = b.size /\ n.bigOffset = 0
               /\ Large(b) => b.kind = "REGTYPE" /\ b.size > BigChunkSize
<1> DEFINE big == b.kind = "REGTYPE" /\ b.size > BigChunkSize
           size == IF b.kind = "AREGTYPE" THEN 0 ELSE b.size
           n == ParseHeader(b)
<1>1. /\ next \in NextSet /\ b.size \in Nat /\ CONTAINER_MAX_SIZE \in Nat
      /\ b.kind \in Kind
  BY ConstantFacts DEF TypeOK, Block
<1>2. size = b.size
  BY DEF ReadAlike
<1>3. Large(b) => big
  <2> SUFFICES ASSUME Large(b) PROVE big
    OBVIOUS
  <2>1. b.size # 0 /\ Announces(b) = BIG_CHUNK
    BY DEF Large
  <2>2. b.kind # "other" /\ b.kind # "LONGNAME" /\ ~(b.size <= CONTAINER_MAX_SIZE)
    BY <2>1, <1>1 DEF Announces, ReadAlike, FILE_HEADER, FILE_CHUNK, BIG_CHUNK
  <2>3. b.kind = "REGTYPE"
    BY <2>1, <2>2, <1>1 DEF Kind, ReadAlike
  <2> QED BY <1>1, <2>2, <2>3
<1>4. CASE big
  <2>1. n = [next EXCEPT !.type = BIG_CHUNK, !.size = size,
                         !.bigSize = size, !.bigOffset = 0]
    BY <1>4 DEF ParseHeader
  <2> HIDE DEF n, size
  <2>2. n.type = BIG_CHUNK /\ n.bigSize = size /\ n.bigOffset = 0
    BY <1>1, <2>1 DEF NextSet
  <2>3. Large(b)
    <3>1. b.kind = "REGTYPE" /\ ~(b.size <= CONTAINER_MAX_SIZE) /\ b.size # 0
      BY <1>1, <1>4
    <3> QED BY <3>1 DEF Large, Announces
  <2> QED BY <1>2, <1>3, <2>2, <2>3 DEF n, FILE_HEADER, FILE_CHUNK, BIG_CHUNK
<1>5. CASE ~big
  <2> DEFINE t == IF b.kind = "other" THEN FILE_HEADER ELSE FILE_CHUNK
  <2>1. n = [next EXCEPT !.type = t, !.size = size,
                         !.bigSize = next.bigSize, !.bigOffset = next.bigOffset]
    BY <1>5 DEF ParseHeader
  <2>2. t = FILE_HEADER \/ t = FILE_CHUNK
    OBVIOUS
  <2>3. ~Large(b)
    BY <1>3, <1>5
  <2>4. t = FILE_HEADER => NoData(b)
    <3>1. t = FILE_HEADER => b.kind = "other"
      BY DEF FILE_HEADER, FILE_CHUNK
    <3>2. b.kind = "other" => Announces(b) = FILE_HEADER
      BY DEF Announces
    <3> QED BY <3>1, <3>2 DEF NoData, Small, Large, FILE_HEADER, FILE_CHUNK, BIG_CHUNK
  <2>5. t = FILE_CHUNK => Announces(b) = FILE_CHUNK /\ b.size <= CONTAINER_MAX_SIZE
    <3> SUFFICES ASSUME t = FILE_CHUNK
                 PROVE  Announces(b) = FILE_CHUNK /\ b.size <= CONTAINER_MAX_SIZE
      OBVIOUS
    <3>1. b.kind # "other"
      BY DEF FILE_HEADER, FILE_CHUNK
    <3>2. b.size <= CONTAINER_MAX_SIZE
      BY <1>1, <1>5, <3>1 DEF ReadAlike, Kind
    <3> QED BY <3>1, <3>2 DEF Announces
  <2> HIDE DEF n, size, t
  <2>6. n.type = t /\ n.size = size
    BY <1>1, <2>1 DEF NextSet
  <2> QED BY <1>2, <2>2, <2>3, <2>4, <2>5, <2>6 DEF n, FILE_HEADER, FILE_CHUNK, BIG_CHUNK
<1> QED BY <1>4, <1>5

\* A header that ends its segment ends the file: the segments of a window that
\* does not end the file have room for MULTI_HEADER_CHUNK headers and the data
\* of all but the last.
LEMMA EndsWithFile ==
    ASSUME MULTI_HEADER_CHUNK < CONTAINER_MAX_SIZE, ChunkerInv, chunker = "multi",
           MultiGoesOn, next.type = FILE_HEADER, Fit(headerBuffer, cpSum, next),
           cpSum + 1 = SegLen
    PROVE  Done + 1 = Len(File)
<1>1. /\ TypeOK /\ PositionOK /\ InSegment
      /\ SegLen >= Reserve \/ window.end
      /\ Done + (SegLen - cpSum) = window.totalOffset + window.len
      /\ WindowOK /\ cpSum \in Nat /\ SegLen \in Nat /\ Done \in Nat
  BY SegmentFacts DEF ChunkerInv, PositionOK, SegmentOK, InSegment, TypeOK
<1>2. CASE window.end
  <2>1. window.totalOffset + window.len = Len(File)
    BY <1>1, <1>2 DEF WindowOK
  <2>2. SegLen - cpSum = 1
    BY <1>1
  <2> QED BY <1>1, <2>1, <2>2
<1>3. CASE SegLen >= Reserve
  <2>1. PICK c \in Nat : c = CONTAINER_MAX_SIZE
    BY ConstantFacts
  <2>2. PICK h \in Nat : h = MULTI_HEADER_CHUNK
    BY ConstantFacts
  <2>3. PICK l \in Nat : l = Len(headerBuffer)
    BY <1>1, SeqFacts DEF TypeOK
  <2>4. l < h
    BY <2>2, <2>3 DEF MultiGoesOn, FILE_HEADER, FILE_CHUNK
  <2>5. cpSum <= l * (c + 1)
    BY <1>1, <2>1, <2>3 DEF Fit, FILE_HEADER, FILE_CHUNK
  <2>6. h < c /\ Reserve = h * c
    BY <2>1, <2>2 DEF Reserve
  <2>7. h * c <= l * (c + 1) + 1
    <3>1. PICK r \in Nat : r = l * (c + 1)
      OBVIOUS
    <3>2. PICK s \in Nat : s = h * c
      OBVIOUS
    <3> QED BY <1>1, <1>3, <2>5, <2>6, <3>1, <3>2
  <2>8. PICK k \in Nat : h = l + 1 + k
    <3>1. h - l - 1 \in Nat /\ h = l + 1 + (h - l - 1)
      BY <2>4
    <3> QED BY <3>1
  <2>9. h * c = l * c + c + k * c /\ l * (c + 1) = l * c + l
    BY <2>8
  <2>10. l * c \in Nat /\ k * c \in Nat
    OBVIOUS
  <2>11. l + 1 < c
    BY <2>4, <2>6
  <2> QED BY <2>7, <2>9, <2>10, <2>11
<1> QED BY <1>1, <1>2, <1>3

\* the hypotheses on options -B and -H: the chunker calls a file big where the
\* restorer does, and a header is one block of what a segment may hold
Options == BigChunkSize = CONTAINER_MAX_SIZE /\ MULTI_HEADER_CHUNK < CONTAINER_MAX_SIZE

\* Where the headers so far are.
LEMMA HeadersInFile ==
    ASSUME ChunkerInv, RecipesInv,
           NEW b \in Blocks(recipeH[backup]) \cup Range(headerBuffer)
    PROVE  b.id \in 1 .. Done /\ b.id \in 1 .. Len(File) /\ b = File[b.id]
<1>1. TypeOK /\ Done \in Nat /\ Done <= Len(File) /\ Len(File) \in Nat
  <2>1. TypeOK /\ PositionOK
    BY DEF ChunkerInv
  <2>2. /\ window.totalOffset \in Nat /\ localOffset \in Nat /\ window.len \in Nat
        /\ Len(File) \in Nat
    BY <2>1, FileLength DEF TypeOK
  <2>3. CASE InSegment
    BY <2>1, <2>2, <2>3, SegmentFacts
  <2>4. CASE ~InSegment /\ chunker = "cut"
    <3>1. WindowOK /\ Done = window.totalOffset + localOffset
      BY <2>1, <2>4 DEF PositionOK, Done
    <3> QED BY <2>1, <2>2, <3>1 DEF WindowOK
  <2>5. CASE ~InSegment /\ chunker # "cut"
    <3>1. Done = window.totalOffset + 0
      BY <2>5 DEF Done
    <3> QED BY <2>1, <2>2, <3>1 DEF PositionOK
  <2> QED BY <2>3, <2>4, <2>5
<1>2. PICK i \in 1 .. Done : b = File[i]
  BY DEF RecipesInv, CutOnce, Upto
<1>3. i \in 1 .. Len(File)
  BY <1>1
<1> QED BY <1>1, <1>2, <1>3, FileFacts

\* What a step leaves.
LEMMA WeaveAfter ==
    ASSUME NEW F, NEW h, NEW hs, NEW d, NEW n, NEW nx, NEW sum,
           File' = F, recipeH'[backup'] = h, headerBuffer' = hs, recipeD'[backup'] = d,
           Done' = n, next' = nx, cpSum' = sum,
           Alike(h, hs) => /\ Woven(F, Positions(h, hs), d, n)
                           /\ Expected(F, Positions(h, hs), n, nx)
                           /\ chunker' = "multi" => Fit(hs, sum, nx)
    PROVE  WeaveInv'
BY DEF WeaveInv

LEMMA WeaveCutHeader ==
    ASSUME Options, ChunkerInv, BigFilesWhole, WeaveInv, CutHeader
    PROVE  WeaveInv'
<1> DEFINE b == Src(1)[1]
           c == [cp |-> 1, next |-> ParseHeader(b)]
           n == Done
           h == recipeH[backup]
           d == recipeD[backup]
           P == Positions(h, headerBuffer)
<1> SUFFICES ASSUME Alike(h, Append(headerBuffer, b))
             PROVE  WeaveInv'
  <2>1. CASE Alike(h, Append(headerBuffer, b))
    BY <2>1
  <2>2. CASE ~Alike(h, Append(headerBuffer, b))
    <3>1. recipeH'[backup'] = h /\ headerBuffer' = Append(headerBuffer, b)
      BY DEF CutHeader, recipes
    <3> QED BY <2>2, <3>1, WeaveAfter
  <2> QED BY <2>1, <2>2
<1>1. /\ TypeOK /\ PositionOK /\ chunker = "multi" /\ MultiGoesOn
      /\ next.type = FILE_HEADER /\ InSegment
      /\ cpSum < SegLen /\ SegLen \in Nat /\ cpSum \in Nat
      /\ headerBuffer \in Seq(Block) /\ d \in Seq(DataChunk)
      /\ File \in Seq(Block) /\ Len(File) \in Nat /\ n \in Nat
  <2>1. TypeOK /\ PositionOK /\ chunker = "multi" /\ InSegment
    BY DEF ChunkerInv, CutHeader, InSegment
  <2>2. SegLen \in Nat /\ n \in Nat
    BY <2>1, SegmentFacts
  <2>3. cpSum < SegLen
    BY <2>1 DEF PositionOK, SegmentOK
  <2>4. headerBuffer \in Seq(Block) /\ d \in Seq(DataChunk) /\ cpSum \in Nat
    BY <2>1 DEF TypeOK
  <2> QED BY <2>1, <2>2, <2>3, <2>4, FileFacts DEF CutHeader
<1>2. b \in Block /\ b = File[n + 1] /\ n + 1 \in 1 .. Len(File) /\ b.id = n + 1
  BY <1>1, HeaderFacts, FileFacts
<1>3. AfterCut(c) /\ headerBuffer' = Append(headerBuffer, b)
      /\ UNCHANGED <<files, backup, window, localOffset, recipeH, recipeD>>
  BY DEF CutHeader, recipes
<1>4. ParseHeader(b) \in NextSet
  BY <1>1, <1>2, ParseHeaderFacts
<1> HIDE DEF b
<1>5. c.cp = 1 /\ c.next = ParseHeader(b) /\ c.cp \in Nat /\ c.cp <= SegLen - cpSum
  BY <1>1
<1>6. /\ chunker' \in {"multi", "flush"}
      /\ Done' = n + 1
      /\ chunker' = "multi" => next' = ParseHeader(b)
      /\ chunker' = "flush" => next'.type = FILE_HEADER /\ cpSum + 1 = SegLen
      /\ cpSum' = cpSum + 1
  <2>1. PICK e : e = c
    OBVIOUS
  <2>2. /\ chunker' \in {"multi", "flush"} /\ Done' = Done + e.cp
        /\ chunker' = "multi" => next' = e.next
        /\ chunker' = "flush" => next'.type = FILE_HEADER
    BY <1>1, <1>3, <1>4, <1>5, <2>1, AfterCutFacts
  <2>3. cpSum' = cpSum + 1
    BY <1>3 DEF AfterCut
  <2>4. chunker' = "flush" => cpSum + 1 = SegLen
    BY <1>1, <1>3 DEF AfterCut
  <2> QED BY <1>5, <2>1, <2>2, <2>3, <2>4
<1> HIDE DEF c
<1>7. /\ Positions(h, Append(headerBuffer, b)) = P \cup {n + 1}
      /\ Alike(h, headerBuffer) /\ ReadAlike(b)
  <2>1. headerBuffer \in Seq(Block) /\ b \in Block /\ b.id = n + 1
    BY <1>1, <1>2
  <2> HIDE DEF h, n
  <2>2. /\ Positions(h, Append(headerBuffer, b)) = Positions(h, headerBuffer) \cup {b.id}
        /\ Alike(h, Append(headerBuffer, b)) => Alike(h, headerBuffer) /\ ReadAlike(b)
    BY <2>1, HeaderAppended
  <2> QED BY <2>1, <2>2
<1>8. /\ Woven(File, P, d, n) /\ Expected(File, P, n, next)
      /\ Fit(headerBuffer, cpSum, next)
  BY <1>1, <1>7 DEF WeaveInv
<1>9. LET m == ParseHeader(b)
      IN  /\ m.type = FILE_HEADER => NoData(b)
          /\ m.type = FILE_CHUNK =>
                 Announces(b) = FILE_CHUNK /\ m.size = b.size
                 /\ m.size <= CONTAINER_MAX_SIZE
          /\ m.type = BIG_CHUNK =>
                 Large(b) /\ m.bigSize = b.size /\ m.bigOffset = 0
          /\ Large(b) => b.kind = "REGTYPE" /\ b.size > BigChunkSize
  BY <1>1, <1>2, <1>7, ParseAlike DEF Options
<1>10. Large(b) => n + 1 + b.size <= Len(File)
  BY <1>1, <1>2, <1>9 DEF BigFilesWhole
<1>11. /\ n \in P => NoData(File[n])
       /\ \A p \in P : Large(File[p]) => p + File[p].size <= n
  <2>1. n # Len(File)
    BY <1>1, <1>2
  <2> QED BY <1>1, <1>8, <2>1 DEF Expected
<1>12. Woven(File, P \cup {n + 1}, d, n + 1)
  BY <1>1, <1>2, <1>8, <1>10, <1>11, WeaveHeader
<1>13. UNCHANGED <<File, d, h>>
  BY <1>3 DEF File
<1>14. \A p \in P : p \in Int /\ File[p].size \in Nat
  <2>1. P \subseteq 1 .. n
    BY <1>8 DEF Woven, Covered
  <2>2. \A p \in 1 .. n : p \in 1 .. Len(File)
    BY <1>1, <1>2
  <2>3. \A p \in 1 .. n : File[p] \in Block
    BY <1>1, <2>2, FileFacts
  <2> QED BY <2>1, <2>3 DEF Block
<1> HIDE DEF P, d, h, n
<1>15. Expected(File, P \cup {n + 1}, n + 1, next')
  <2>1. CASE next'.type = FILE_HEADER
    <3>1. NoData(b) \/ (n + 1 = Len(File) /\ ~Large(b))
      <4>1. CASE chunker' = "multi"
        BY <1>6, <1>9, <2>1, <4>1
      <4>2. CASE chunker' = "flush"
        <5>1. n + 1 = Len(File)
          BY <1>1, <1>6, <1>8, <4>2, EndsWithFile DEF Options, n
        <5>2. ~Large(b)
          <6>1. b.size \in Nat /\ (Large(b) => b.size # 0)
            BY <1>2 DEF Block, Large
          <6> QED BY <1>1, <1>10, <5>1, <6>1
        <5> QED BY <5>1, <5>2
      <4> QED BY <1>6, <4>1, <4>2
    <3>2. ~Large(b)
      BY <3>1 DEF NoData
    <3>3. \A p \in P : Large(File[p]) => p + File[p].size <= n + 1
      BY <1>1, <1>11, <1>14
    <3> QED BY <1>2, <2>1, <3>1, <3>2, <3>3 DEF Expected, FILE_HEADER, FILE_CHUNK, BIG_CHUNK
  <2>2. CASE next'.type # FILE_HEADER
    <3>1. next' = ParseHeader(b)
      BY <1>6, <2>2
    <3>2. ParseHeader(b).type = FILE_CHUNK =>
              /\ n + 1 \in P \cup {n + 1} /\ Announces(File[n + 1]) = FILE_CHUNK
              /\ ParseHeader(b).size = File[n + 1].size
              /\ ParseHeader(b).size <= CONTAINER_MAX_SIZE
      BY <1>2, <1>9
    <3>3. ParseHeader(b).type = BIG_CHUNK =>
              \E p \in P \cup {n + 1} :
                  /\ Large(File[p]) /\ p + ParseHeader(b).bigOffset = n + 1
                  /\ ParseHeader(b).bigSize = File[p].size
      BY <1>1, <1>2, <1>9
    <3> QED BY <2>2, <3>1, <3>2, <3>3 DEF Expected
  <2> QED BY <2>1, <2>2
<1>16. chunker' = "multi" => Fit(headerBuffer', cpSum', next')
  <2> SUFFICES ASSUME chunker' = "multi" PROVE Fit(headerBuffer', cpSum', next')
    OBVIOUS
  <2>1. PICK l \in Nat : l = Len(headerBuffer) /\ Len(headerBuffer') = l + 1
    BY <1>1, <1>2, <1>3, SeqFacts, AppendFacts
  <2>2. PICK k \in Nat : k = CONTAINER_MAX_SIZE
    BY ConstantFacts
  <2>3. PICK r \in Nat : r = l * (k + 1)
    OBVIOUS
  <2>4. cpSum <= r
    BY <1>1, <1>8, <2>1, <2>2, <2>3 DEF Fit, FILE_HEADER, FILE_CHUNK
  <2>5. (l + 1) * (k + 1) = r + k + 1
    BY <2>3
  <2>6. PICK s \in Nat : s = IF next'.type = FILE_CHUNK THEN next'.size ELSE 0
    <3>1. next' \in NextSet
      BY <1>4, <1>6
    <3> QED BY <3>1 DEF NextSet
  <2>7. s <= k
    BY <1>6, <1>9, <2>2, <2>6
  <2>8. cpSum + 1 + s <= r + k + 1
    BY <1>1, <2>4, <2>7
  <2>9. cpSum' + s <= Len(headerBuffer') * (k + 1)
    BY <1>6, <2>1, <2>5, <2>8
  <2> QED BY <2>2, <2>6, <2>9 DEF Fit
<1>17. /\ recipeH'[backup'] = h /\ recipeD'[backup'] = d /\ File' = File
       /\ Done' = n + 1 /\ headerBuffer' = Append(headerBuffer, b)
  BY <1>3, <1>6, <1>13 DEF h, d
<1> QED BY <1>7, <1>12, <1>15, <1>16, <1>17, WeaveAfter

\* Where a file's data comes next, no big file is open.
LEMMA NoBigOpen ==
    ASSUME NEW F \in Seq(Block), NEW P, NEW d, NEW n \in Nat, n <= Len(F),
           Woven(F, P, d, n), n \in P, ~Large(F[n])
    PROVE  \A p \in P : Large(F[p]) => p + F[p].size <= n
<1> SUFFICES ASSUME NEW p \in P, Large(F[p]) PROVE p + F[p].size <= n
  OBVIOUS
<1>1. n <= p \/ n > p + F[p].size
  BY DEF Woven, BigFollows
<1>2. P \subseteq 1 .. n
  BY DEF Woven, Covered
<1>3. p \in Int /\ p <= n /\ p # n
  BY <1>2
<1>4. p \in 1 .. Len(F) /\ Len(F) \in Nat
  BY <1>2, SeqFacts
<1>5. F[p].size \in Nat
  <2>1. F[p] \in Block
    BY <1>4, SeqFacts
  <2> QED BY <2>1 DEF Block
<1> QED BY <1>1, <1>3, <1>5

\* A file's data, or none of it, behind its header.
LEMMA WeaveFile ==
    ASSUME ChunkerInv, WeaveInv, chunker = "multi", next.type = FILE_CHUNK,
           AfterCut(CutFile), Done' = Done + CutFile.cp,
           UNCHANGED <<files, backup, headerBuffer, recipeH>>,
           next'.type = FILE_HEADER,
           \/ CutFile.cp = 0 /\ next.size = 0 /\ recipeD'[backup] = recipeD[backup]
           \/ /\ CutFile.cp > 0 /\ next.size > 0
              /\ \E c \in DataChunk : c.data = Src(CutFile.cp)
                                      /\ recipeD'[backup] = Append(recipeD[backup], c)
    PROVE  WeaveInv'
<1> DEFINE n == Done
           h == recipeH[backup]
           d == recipeD[backup]
           P == Positions(h, headerBuffer)
<1>1. /\ TypeOK /\ PositionOK /\ InSegment
      /\ SegLen \in Nat /\ cpSum \in Nat
      /\ headerBuffer \in Seq(Block) /\ d \in Seq(DataChunk)
      /\ File \in Seq(Block) /\ Len(File) \in Nat /\ n \in Nat /\ n <= Len(File)
      /\ next.size \in Nat
  <2>1. TypeOK /\ PositionOK /\ InSegment
    BY DEF ChunkerInv, InSegment
  <2>2. headerBuffer \in Seq(Block) /\ d \in Seq(DataChunk) /\ cpSum \in Nat
        /\ next.size \in Nat
    BY <2>1 DEF TypeOK, NextSet
  <2> QED BY <2>1, <2>2, SegmentFacts, FileFacts
<1>2. PICK k \in Nat : k = CutFile.cp /\ k <= SegLen - cpSum /\ k <= next.size
  <2>1. CutFile.cp \in Nat /\ CutFile.cp <= SegLen - cpSum
    BY <1>1, CutFileFacts
  <2>2. CutFile.cp <= next.size
    BY <1>1 DEF CutFile, MinOf
  <2> QED BY <2>1, <2>2
<1> SUFFICES ASSUME Alike(h, headerBuffer)
             PROVE  WeaveInv'
  <2>1. CASE ~Alike(h, headerBuffer)
    <3>1. recipeH'[backup'] = h /\ headerBuffer' = headerBuffer
      OBVIOUS
    <3> QED BY <2>1, <3>1, WeaveAfter
  <2> QED BY <2>1
<1>3. /\ Woven(File, P, d, n) /\ Expected(File, P, n, next)
      /\ Fit(headerBuffer, cpSum, next)
  BY DEF WeaveInv
<1>4. /\ n \in P /\ Announces(File[n]) = FILE_CHUNK
      /\ next.size = File[n].size /\ next.size <= CONTAINER_MAX_SIZE
  BY <1>3 DEF Expected
<1>5. ~Large(File[n])
  BY <1>4 DEF Large, FILE_CHUNK, BIG_CHUNK
<1>6. \A p \in P : Large(File[p]) => p + File[p].size <= n
  <2> HIDE DEF P, d, n, h
  <2> QED BY <1>1, <1>3, <1>4, <1>5, NoBigOpen
<1>7. P \subseteq 1 .. n
  BY <1>3 DEF Woven, Covered
<1>8. Fit(headerBuffer, cpSum', next')
  <2>1. cpSum' = cpSum + k
    BY <1>2 DEF AfterCut
  <2>2. cpSum + next.size <= Len(headerBuffer) * (CONTAINER_MAX_SIZE + 1)
    BY <1>3 DEF Fit
  <2>3. PICK r \in Nat : r = Len(headerBuffer) * (CONTAINER_MAX_SIZE + 1)
    BY <1>1, SeqFacts, ConstantFacts
  <2>4. cpSum' + 0 <= r
    BY <1>1, <1>2, <2>1, <2>2, <2>3
  <2> QED BY <2>3, <2>4 DEF Fit, FILE_HEADER, FILE_CHUNK
<1>9. /\ recipeH'[backup'] = h /\ recipeD'[backup'] = recipeD'[backup] /\ File' = File
      /\ Done' = n + k /\ headerBuffer' = headerBuffer
  BY <1>2 DEF File
<1> HIDE DEF h, P, d, n
<1>10. CASE k = 0
  <2>1. recipeD'[backup'] = d /\ next.size = 0 /\ Done' = n
    BY <1>1, <1>2, <1>9, <1>10 DEF d
  <2>2. NoData(File[n])
    BY <1>4, <2>1 DEF NoData, Small, Large
  <2>3. Expected(File, P, n, next')
    BY <1>6, <2>2 DEF Expected, FILE_HEADER, FILE_CHUNK, BIG_CHUNK
  <2> QED BY <1>3, <1>8, <1>9, <2>1, <2>3, WeaveAfter DEF P
<1>11. CASE k # 0
  <2>1. PICK c \in DataChunk : c.data = Src(k) /\ recipeD'[backup] = Append(d, c)
    BY <1>2, <1>11 DEF d
  <2>2. /\ n + k <= Len(File) /\ Len(c.data) = k
        /\ \A j \in 1 .. k : c.data[j] = File[n + j]
    BY <1>1, <1>2, <2>1, SrcFacts DEF n
  <2>3. /\ From(c) = n + 1 /\ Until(c) = n + k
        /\ \A j \in 1 .. k : c.data[j] = File[From(c) + j - 1]
    <3>1. TypeOK /\ n \in Nat /\ k > 0
      BY <1>1, <1>11
    <3> QED BY <2>2, <3>1, RunChunk
  <2>4. Small(File[n])
    BY <1>2, <1>4, <1>11 DEF Small
  <2>5. Woven(File, P, Append(d, c), n + k)
    <3>1. k > 0 /\ k \in Nat /\ File \in Seq(Block) /\ d \in Seq(DataChunk) /\ n \in Nat
      BY <1>1, <1>11
    <3>2. n \in P /\ Small(File[n]) /\ Woven(File, P, d, n)
      BY <1>3, <1>4, <2>4
    <3> QED BY <2>2, <2>3, <3>1, <3>2, WeaveData
  <2>6. n + k \notin P
    BY <1>1, <1>7, <1>11
  <2>7. \A p \in P : Large(File[p]) => p + File[p].size <= n + k
    <3> SUFFICES ASSUME NEW p \in P, Large(File[p]) PROVE p + File[p].size <= n + k
      OBVIOUS
    <3>1. p + File[p].size <= n
      BY <1>6
    <3>2. p \in 1 .. Len(File) /\ p \in Nat
      BY <1>1, <1>7
    <3>3. File[p].size \in Nat
      BY <1>1, <3>2, FileFacts DEF Block
    <3> QED BY <1>1, <3>1, <3>2, <3>3
  <2>8. Expected(File, P, n + k, next')
    BY <2>6, <2>7 DEF Expected, FILE_HEADER, FILE_CHUNK, BIG_CHUNK
  <2> QED BY <1>8, <1>9, <2>1, <2>5, <2>8, WeaveAfter DEF P
<1> QED BY <1>10, <1>11

LEMMA WeaveCutFile ==
    ASSUME ChunkerInv, WeaveInv, CutEmpty \/ CutData
    PROVE  WeaveInv'
<1>1. /\ TypeOK /\ PositionOK /\ chunker = "multi" /\ next.type = FILE_CHUNK
      /\ AfterCut(CutFile) /\ CutFile.next \in NextSet
      /\ CutFile.next.type = FILE_HEADER
      /\ CutFile.cp \in Nat /\ CutFile.cp <= SegLen - cpSum
      /\ next.size > 0 => CutFile.cp > 0
      /\ UNCHANGED <<files, backup, window, localOffset, headerBuffer, recipeH>>
  <2>1. /\ TypeOK /\ PositionOK /\ chunker = "multi" /\ next.type = FILE_CHUNK
        /\ AfterCut(CutFile)
        /\ UNCHANGED <<files, backup, window, localOffset, headerBuffer, recipeH>>
    BY DEF ChunkerInv, CutEmpty, CutData, recipes
  <2> QED BY <2>1, CutFileFacts
<1>2. next'.type = FILE_HEADER
  <2>1. PICK c : c = CutFile
    OBVIOUS
  <2> QED BY <1>1, <2>1, AfterCutFacts
<1>3. CASE CutEmpty
  <2>1. next.size = 0 /\ recipeD' = recipeD /\ Done' = Done
    BY <1>3, CutEmptyStep DEF CutEmpty, recipes
  <2>2. CutFile.cp = 0
    <3>1. CutFile.cp = MinOf(0, SegLen - cpSum)
      BY <2>1 DEF CutFile
    <3> QED BY <1>1, <3>1 DEF MinOf
  <2>3. Done \in Nat
    BY <1>1, SegmentFacts DEF InSegment
  <2>4. Done' = Done + CutFile.cp
    BY <2>1, <2>2, <2>3
  <2> QED BY <1>1, <1>2, <2>1, <2>2, <2>4, WeaveFile
<1>4. CASE CutData
  <2>1. next.size > 0 /\ Done' = Done + CutFile.cp
    BY <1>4, CutDataStep DEF CutData
  <2>2. PICK c \in DataChunk : c.data = Src(CutFile.cp)
                               /\ recipeD' = [recipeD EXCEPT ![backup] = Append(@, c)]
    BY <1>4, CutDataStep
  <2>3. recipeD'[backup] = Append(recipeD[backup], c)
    BY <1>1, <2>2 DEF TypeOK
  <2> QED BY <1>1, <1>2, <2>1, <2>2, <2>3, WeaveFile
<1> QED BY <1>3, <1>4

\* A cut of a big file ends it, or takes it further.
LEMMA CutsBigMore ==
    ASSUME next \in NextSet, next.type = BIG_CHUNK, NEW c \in CutsBig
    PROVE  \/ c.next.type = FILE_HEADER /\ c.cp = BigLeft
           \/ /\ c.next.type = BIG_CHUNK /\ c.next.bigSize = next.bigSize
              /\ c.next.bigOffset = next.bigOffset + c.cp
<1>1. CASE BigLeft > MAX_CHUNK_SIZE
  <2>1. PICK n \in 1 .. MAX_CHUNK_SIZE :
            c = [cp |-> n, next |-> [next EXCEPT !.bigOffset = @ + n]]
    BY <1>1 DEF CutsBig, BigLeft
  <2>2. c.cp = n /\ c.next = [next EXCEPT !.bigOffset = next.bigOffset + n]
    BY <2>1
  <2>3. PICK o \in Nat : o = next.bigOffset + n
    BY ConstantFacts DEF NextSet
  <2> QED BY <2>2, <2>3, OffsetNext
<1>2. CASE ~(BigLeft > MAX_CHUNK_SIZE)
  <2>1. c = [cp |-> BigLeft, next |-> [next EXCEPT !.type = FILE_HEADER]]
    BY <1>2 DEF CutsBig, BigLeft
  <2>2. c.cp = BigLeft /\ c.next = [next EXCEPT !.type = FILE_HEADER]
    BY <2>1
  <2> QED BY <2>2, HeaderNext
<1> QED BY <1>1, <1>2

LEMMA WeaveCutBig ==
    ASSUME ChunkerInv, WeaveInv, CutBig
    PROVE  WeaveInv'
<1> DEFINE n == Done
           h == recipeH[backup]
           d == recipeD[backup]
           P == Positions(h, headerBuffer)
           e(c) == [data |-> Src(c.cp), CDCFlag |-> TRUE,
                    name |-> << >>, offset |-> 0]
<1>1. /\ TypeOK /\ PositionOK /\ InSegment /\ chunker = "big" /\ BigGoesOn
      /\ SegLen \in Nat /\ cpSum \in Nat /\ localOffset \in Nat
      /\ window.totalOffset \in Nat /\ n = window.totalOffset + localOffset + cpSum
      /\ headerBuffer \in Seq(Block) /\ d \in Seq(DataChunk)
      /\ File \in Seq(Block) /\ Len(File) \in Nat /\ n \in Nat /\ n <= Len(File)
      /\ next \in NextSet /\ next.bigOffset \in Nat /\ next.bigSize \in Nat
      /\ UNCHANGED <<files, backup, window, localOffset, headerBuffer, recipeH>>
  <2>1. TypeOK /\ PositionOK /\ InSegment /\ chunker = "big" /\ BigGoesOn
        /\ UNCHANGED <<files, backup, window, localOffset, headerBuffer, recipeH>>
    BY DEF ChunkerInv, InSegment, CutBig
  <2>2. headerBuffer \in Seq(Block) /\ d \in Seq(DataChunk) /\ cpSum \in Nat
        /\ next \in NextSet /\ localOffset \in Nat /\ window.totalOffset \in Nat
    BY <2>1 DEF TypeOK
  <2>3. next.bigOffset \in Nat /\ next.bigSize \in Nat
    BY <2>2 DEF NextSet
  <2> QED BY <2>1, <2>2, <2>3, SegmentFacts, FileFacts
<1>2. next.type = BIG_CHUNK
  <2>1. next.type \in Type /\ next.type # FILE_HEADER /\ next.type # FILE_CHUNK
    BY <1>1 DEF NextSet, ChunkerInv, NextOK, BigGoesOn
  <2> QED BY <2>1 DEF Type
<1>3. PICK c \in CutsBig :
         /\ cpSum' = cpSum + c.cp /\ next' = c.next
         /\ chunker' = IF cpSum + c.cp = SegLen THEN "bigend" ELSE "big"
         /\ recipeD' = [recipeD EXCEPT ![backup] = Append(@, e(c))]
  BY DEF CutBig
<1>4. /\ c.cp \in Nat \ {0} /\ c.cp <= SegLen - cpSum /\ c.cp <= BigLeft
  BY <1>1, CutsBigFacts
<1>5. \/ c.next.type = FILE_HEADER /\ c.cp = BigLeft
      \/ /\ c.next.type = BIG_CHUNK /\ c.next.bigSize = next.bigSize
         /\ c.next.bigOffset = next.bigOffset + c.cp
  BY <1>1, <1>2, CutsBigMore
<1>6. PICK k \in Nat : k = c.cp
  BY <1>4
<1>7. k \in Nat /\ k > 0 /\ k <= SegLen - cpSum /\ k <= BigLeft
  BY <1>4, <1>6
<1>8. cpSum' = cpSum + k
  BY <1>3, <1>6
<1>9. PICK x \in DataChunk : x = e(c) /\ x.data = Src(k)
  <2>1. Src(c.cp) \in Seq(Block)
    BY <1>1, <1>6, <1>7, SrcFacts
  <2>2. << >> \in Path
    BY DEF Path
  <2>3. e(c) \in DataChunk /\ e(c).data = Src(c.cp)
    BY <2>1, <2>2 DEF DataChunk
  <2> QED BY <1>6, <2>3
<1>10. /\ recipeH'[backup'] = h /\ File' = File /\ headerBuffer' = headerBuffer
      /\ recipeD'[backup'] = Append(d, x)
      /\ chunker' # "multi"
  BY <1>1, <1>3, <1>9 DEF TypeOK, File
<1>11. Done' = n + k
  <2>1. InSegment'
    BY <1>3 DEF InSegment
  <2>2. Done' = window.totalOffset + (localOffset + cpSum')
    BY <1>1, <2>1 DEF Done
  <2> QED BY <1>1, <1>8, <2>2
<1> HIDE DEF e
<1> SUFFICES ASSUME Alike(h, headerBuffer)
             PROVE  WeaveInv'
  <2>1. CASE ~Alike(h, headerBuffer)
    <3>1. recipeH'[backup'] = h /\ headerBuffer' = headerBuffer
      BY <1>10
    <3> QED BY <2>1, <3>1, WeaveAfter
  <2> QED BY <2>1
<1>12. Woven(File, P, d, n) /\ Expected(File, P, n, next)
  BY DEF WeaveInv
<1>13. PICK p \in P : /\ Large(File[p]) /\ p + next.bigOffset = n
                      /\ next.bigSize = File[p].size
  BY <1>2, <1>12 DEF Expected
<1>14. /\ n + k <= Len(File) /\ Len(x.data) = k
       /\ \A j \in 1 .. k : x.data[j] = File[n + j]
  BY <1>1, <1>7, <1>9, SrcFacts
<1> HIDE DEF n
<1>15. /\ From(x) = n + 1 /\ Until(x) = n + k
       /\ \A j \in 1 .. k : x.data[j] = File[From(x) + j - 1]
  <2>1. TypeOK /\ n \in Nat /\ k \in Nat /\ k > 0 /\ x \in DataChunk
    BY <1>1, <1>7
  <2> QED BY <1>14, <2>1, RunChunk
<1>16. P \subseteq 1 .. n
  BY <1>12 DEF Woven, Covered
<1> HIDE DEF P, d, h
<1>17. BigLeft = next.bigSize - next.bigOffset /\ p \in Nat /\ p <= n
  BY <1>1, <1>16 DEF BigLeft
<1>18. n \in Nat /\ next.bigOffset \in Nat /\ next.bigSize \in Nat /\ Len(File) \in Nat
       /\ n <= Len(File) /\ BigLeft \in Int /\ File \in Seq(Block) /\ d \in Seq(DataChunk)
  BY <1>1, <1>17
<1>19. n + k <= p + File[p].size
  BY <1>13, <1>17, <1>7, <1>18
<1>20. Woven(File, P, Append(d, x), n + k)
  BY <1>1, <1>7, <1>12, <1>13, <1>14, <1>15, <1>19, WeaveData
<1>21. Expected(File, P, n + k, next')
  <2>1. CASE c.next.type = FILE_HEADER /\ c.cp = BigLeft
    <3>1. p + File[p].size = n + k
      BY <1>6, <1>13, <1>17, <1>7, <1>18, <2>1
    <3>2. n + k \notin P
      BY <1>1, <1>7, <1>16
    <3>3. ASSUME NEW q \in P, Large(File[q])
          PROVE  q + File[q].size <= n + k
      <4>1. /\ p <= q \/ p > q + File[q].size
            /\ q <= p \/ q > p + File[p].size
        BY <1>12, <1>13, <3>3 DEF Woven, BigFollows
      <4>2. q \in Nat /\ q <= n /\ q \in 1 .. Len(File)
        BY <1>1, <1>16
      <4>3. File[q].size \in Nat
        BY <1>1, <4>2, FileFacts DEF Block
      <4>4. CASE q = p
        BY <3>1, <4>4, <1>1, <1>7
      <4>5. CASE q < p
        BY <1>18, <1>7, <1>17, <4>1, <4>2, <4>3, <4>5
      <4>6. CASE q > p
        BY <1>18, <1>7, <1>17, <3>1, <4>1, <4>2, <4>6
      <4> QED BY <1>17, <4>2, <4>4, <4>5, <4>6
    <3> QED BY <1>3, <2>1, <3>2, <3>3 DEF Expected, FILE_HEADER, FILE_CHUNK, BIG_CHUNK
  <2>2. CASE /\ c.next.type = BIG_CHUNK /\ c.next.bigSize = next.bigSize
             /\ c.next.bigOffset = next.bigOffset + c.cp
    <3>1. p + next'.bigOffset = n + k
      <4>1. next'.bigOffset = next.bigOffset + k
        BY <1>3, <1>6, <2>2
      <4> QED BY <1>1, <1>7, <1>13, <1>17, <4>1
    <3>2. next'.bigSize = File[p].size /\ next'.type = BIG_CHUNK
      BY <1>3, <1>13, <2>2
    <3> QED BY <1>13, <3>1, <3>2 DEF Expected, FILE_HEADER, FILE_CHUNK, BIG_CHUNK
  <2> QED BY <1>5, <2>1, <2>2
<1> QED BY <1>10, <1>11, <1>20, <1>21, WeaveAfter DEF P

LEMMA WeavePush ==
    ASSUME ChunkerInv, WeaveInv, PushHeaders
    PROVE  WeaveInv'
<1>1. /\ TypeOK /\ Done' = Done /\ File' = File /\ chunker' = "cut"
      /\ recipeD'[backup'] = recipeD[backup]
      /\ headerBuffer' = << >> /\ next' = next /\ cpSum' = cpSum /\ backup' = backup
  BY PushHeadersStep DEF PushHeaders, ChunkerInv, File
<1>2. PICK c \in HeaderChunk : c.data = headerBuffer
                               /\ recipeH' = [recipeH EXCEPT ![backup] = Append(@, c)]
  BY PushHeadersStep
<1>3. recipeH'[backup'] = Append(recipeH[backup], c) /\ recipeH[backup] \in Seq(HeaderChunk)
  BY <1>1, <1>2 DEF TypeOK
<1>4. /\ Positions(Append(recipeH[backup], c), << >>) = Positions(recipeH[backup], headerBuffer)
      /\ Alike(Append(recipeH[backup], c), << >>) => Alike(recipeH[backup], headerBuffer)
  BY <1>2, <1>3, HeadersPushed
<1> QED BY <1>1, <1>3, <1>4, WeaveAfter DEF WeaveInv

\* A step that cuts nothing.
LEMMA WeaveSame ==
    ASSUME WeaveInv, Done' = Done,
           UNCHANGED <<files, backup, headerBuffer, recipeH, recipeD, next>>,
           chunker' = "multi" => \/ chunker = "multi" /\ cpSum' = cpSum
                                 \/ next.type = FILE_HEADER /\ cpSum' = 0,
           headerBuffer \in Seq(Block)
    PROVE  WeaveInv'
<1>1. File' = File
  BY DEF File
<1>2. (chunker' = "multi" /\ (chunker = "multi" => Fit(headerBuffer, cpSum, next)))
          => Fit(headerBuffer, cpSum', next)
  <2>1. CASE chunker = "multi" /\ cpSum' = cpSum
    BY <2>1
  <2>2. CASE cpSum' = 0 /\ next.type = FILE_HEADER
    <3>1. Len(headerBuffer) * (CONTAINER_MAX_SIZE + 1) \in Nat
      BY ConstantFacts, SeqFacts
    <3> QED BY <2>2, <3>1 DEF Fit, FILE_HEADER, FILE_CHUNK
  <2> QED BY <2>1, <2>2
<1> QED BY <1>1, <1>2, WeaveAfter DEF WeaveInv

\* A backup that is cut: its header recipe is in order, holds blocks of the
\* file, and is woven with its data recipe.
Kept(b) ==
    /\ Ascending(recipeH[b])
    /\ \A x \in Blocks(recipeH[b]) : x.id \in 1 .. Len(files[b]) /\ x = files[b][x.id]
    /\ HeadersAgree(b) =>
           Woven(files[b], Positions(recipeH[b], << >>), recipeD[b], Len(files[b]))

WovenInv ==
    /\ WeaveInv
    /\ InOrder(recipeH[backup], headerBuffer)
    /\ \A b \in 1 .. backup - 1 : Kept(b)

\* A closed file is one of them.
LEMMA ClosedKept ==
    ASSUME ChunkerInv, RecipesInv, WovenInv, chunker = "closed"
    PROVE  Kept(backup)
<1>1. headerBuffer = << >> /\ TypeOK /\ Range(<< >>) = {} /\ File = files[backup]
  BY DEF ChunkerInv, HeadersOK, Range, File
<1>2. Done = Len(File)
  <2>1. Done = window.totalOffset + 0 /\ window.totalOffset = Len(File)
        /\ Len(File) \in Nat
    BY <1>1, FileLength DEF Done, InSegment, ChunkerInv, PositionOK
  <2> QED BY <2>1
<1>3. Ascending(recipeH[backup])
  BY DEF WovenInv, InOrder
<1>4. ASSUME NEW x \in Blocks(recipeH[backup])
      PROVE  x.id \in 1 .. Len(files[backup]) /\ x = files[backup][x.id]
  BY <1>1, HeadersInFile
<1>5. ASSUME HeadersAgree(backup)
      PROVE  Woven(files[backup], Positions(recipeH[backup], << >>), recipeD[backup],
                   Len(files[backup]))
  <2>1. Alike(recipeH[backup], headerBuffer)
    BY <1>1, <1>5 DEF HeadersAgree, Alike
  <2> QED BY <1>1, <1>2, <2>1 DEF WovenInv, WeaveInv
<1> QED BY <1>3, <1>4, <1>5 DEF Kept

\* The backups before this one stay as they are.
LEMMA KeptSame ==
    ASSUME NEW b, Kept(b), files' = files,
           recipeH'[b] = recipeH[b], recipeD'[b] = recipeD[b]
    PROVE  Kept(b)'
<1> DEFINE h == recipeH[b]
           d == recipeD[b]
<1>1. recipeH'[b] = h /\ recipeD'[b] = d
  OBVIOUS
<1> HIDE DEF h, d
<1>2. Ascending(h) /\ \A x \in Blocks(h) : x.id \in 1 .. Len(files[b]) /\ x = files[b][x.id]
  BY DEF Kept, h
<1>3. (\A x \in Blocks(h) : ReadAlike(x)) =>
          Woven(files[b], Positions(h, << >>), d, Len(files[b]))
  BY DEF Kept, HeadersAgree, h, d
<1> QED BY <1>1, <1>2, <1>3 DEF Kept, HeadersAgree

LEMMA WeaveInit ==
    ASSUME NEW F, NEW nx, nx.type = FILE_HEADER
    PROVE  /\ Woven(F, Positions(<< >>, << >>), << >>, 0)
           /\ Expected(F, Positions(<< >>, << >>), 0, nx)
           /\ InOrder(<< >>, << >>)
<1>1. DOMAIN << >> = {} /\ Range(<< >>) = {} /\ Blocks(<< >>) = {}
  BY DEF Range, Blocks
<1>2. Positions(<< >>, << >>) = {} /\ 1 .. 0 = {}
  BY <1>1 DEF Positions
<1>3. Woven(F, {}, << >>, 0)
  <2>1. Runs(F, << >>, 0)
    BY <1>1 DEF Runs
  <2>2. Covered({}, << >>, 0)
    BY <1>1, <1>2 DEF Covered
  <2> QED BY <2>1, <2>2 DEF Woven, NoneFollows, OneFollows, BigFollows
<1>4. Expected(F, {}, 0, nx)
  BY DEF Expected, FILE_HEADER, FILE_CHUNK, BIG_CHUNK
<1>5. InOrder(<< >>, << >>)
  BY <1>1 DEF InOrder, Ascending
<1> QED BY <1>2, <1>3, <1>4, <1>5

\* Every step of the chunker weaves on.
LEMMA WovenStep ==
    ASSUME Options, ChunkerInv, BigFilesWhole, RecipesInv, WovenInv, [Next]_vars
    PROVE  WovenInv'
<1> DEFINE h == recipeH[backup]
<1>1. /\ TypeOK /\ NextOK /\ HeadersOK /\ WeaveInv /\ InOrder(h, headerBuffer)
      /\ h \in Seq(HeaderChunk) /\ headerBuffer \in Seq(Block)
      /\ backup \in 1 .. backupNum /\ backup \in Nat /\ backupNum \in Nat
      /\ recipeH \in [1 .. backupNum -> Seq(HeaderChunk)]
      /\ recipeD \in [1 .. backupNum -> Seq(DataChunk)]
      /\ next \in NextSet
  BY ConstantFacts DEF ChunkerInv, WovenInv, TypeOK
<1>2. \A b \in 1 .. backup - 1 : Kept(b) /\ b # backup /\ b \in 1 .. backupNum
  BY <1>1 DEF WovenInv
\* a step within a backup
<1>3. ASSUME WeaveInv', InOrder(recipeH[backup], headerBuffer)',
             UNCHANGED <<files, backup>>,
             \A b \in 1 .. backupNum : b # backup => recipeH'[b] = recipeH[b]
                                                     /\ recipeD'[b] = recipeD[b]
      PROVE  WovenInv'
  <2>1. ASSUME NEW b \in 1 .. backup' - 1 PROVE Kept(b)'
    <3>1. b \in 1 .. backup - 1
      BY <1>3
    <3> QED BY <1>2, <1>3, <3>1, KeptSame
  <2> QED BY <1>3, <2>1 DEF WovenInv
<1>4. ASSUME CutHeader PROVE WovenInv'
  <2>1. /\ chunker = "multi" /\ headerBuffer' = Append(headerBuffer, Src(1)[1])
        /\ UNCHANGED <<files, backup, recipeH, recipeD>>
    BY <1>4 DEF CutHeader, recipes
  <2>2. Src(1)[1] = File[Done + 1] /\ Src(1)[1] \in Block /\ Done + 1 \in 1 .. Len(File)
        /\ Done \in Nat
    BY <1>1, <2>1, HeaderFacts, SegmentFacts DEF ChunkerInv, InSegment
  <2>3. Src(1)[1].id = Done + 1
    BY <1>1, <2>2, FileFacts
  <2>4. \A x \in Blocks(h) \cup Range(headerBuffer) : x.id \in 1 .. Done
    BY HeadersInFile
  <2>5. InOrder(h, Append(headerBuffer, Src(1)[1]))
    <3> HIDE DEF h
    <3> QED BY <1>1, <2>2, <2>3, <2>4, OrderAppended
  <2>6. WeaveInv'
    BY <1>1, <1>4, WeaveCutHeader
  <2>7. InOrder(recipeH[backup], headerBuffer)'
    BY <2>1, <2>5
  <2> QED BY <1>3, <2>1, <2>6, <2>7
<1>5. ASSUME CutEmpty \/ CutData \/ CutBig PROVE WovenInv'
  <2>1. UNCHANGED <<files, backup, headerBuffer, recipeH>>
    BY <1>5 DEF CutEmpty, CutData, CutBig, recipes
  <2>2. \A b \in 1 .. backupNum : b # backup => recipeD'[b] = recipeD[b]
    BY <1>1, <1>5 DEF CutEmpty, CutData, CutBig, recipes
  <2>3. WeaveInv'
    BY <1>1, <1>5, WeaveCutFile, WeaveCutBig
  <2>4. InOrder(recipeH[backup], headerBuffer)'
    BY <1>1, <2>1
  <2> QED BY <1>3, <2>1, <2>2, <2>3, <2>4
<1>6. ASSUME PushHeaders PROVE WovenInv'
  <2>1. UNCHANGED <<files, backup, recipeD>> /\ headerBuffer' = << >>
    BY <1>6 DEF PushHeaders
  <2>2. PICK c \in HeaderChunk : c.data = headerBuffer
                                 /\ recipeH' = [recipeH EXCEPT ![backup] = Append(@, c)]
    BY <1>6, PushHeadersStep
  <2>3. recipeH'[backup'] = Append(h, c)
        /\ \A b \in 1 .. backupNum : b # backup => recipeH'[b] = recipeH[b]
    BY <1>1, <2>1, <2>2
  <2>4. InOrder(Append(h, c), << >>)
    <3> HIDE DEF h
    <3> QED BY <1>1, <2>2, OrderPushed
  <2>5. InOrder(recipeH[backup], headerBuffer)'
    BY <2>1, <2>3, <2>4
  <2>6. WeaveInv'
    BY <1>1, <1>6, WeavePush
  <2> QED BY <1>3, <2>1, <2>3, <2>5, <2>6
<1>7. ASSUME LoadChunkFile PROVE WovenInv'
  <2>1. /\ backup < backupNum /\ backup' = backup + 1 /\ chunker = "closed"
        /\ UNCHANGED <<files, headerBuffer, recipeH, recipeD, next, cpSum>>
        /\ chunker' = "read"
    BY <1>7 DEF LoadChunkFile, recipes
  <2>2. Done' = 0
    BY <1>7, LoadStep
  <2>3. backup' \in backup + 1 .. backupNum
    BY <1>1, <2>1
  <2>4. headerBuffer' = << >> /\ recipeH'[backup'] = << >> /\ recipeD'[backup'] = << >>
    BY <1>1, <2>1, <2>3 DEF HeadersOK, RecipesInv
  <2>5. next.type = FILE_HEADER
    <3>1. next.type \in Type /\ next.type # FILE_CHUNK
      BY <1>1, <2>1 DEF NextSet, NextOK
    <3>2. next.type # BIG_CHUNK
      <4>1. Done = Len(File) /\ Len(File) \in Nat
        <5>1. Done = window.totalOffset + 0 /\ window.totalOffset = Len(File)
              /\ Len(File) \in Nat
          BY <1>1, <2>1, FileFacts DEF Done, InSegment, ChunkerInv, PositionOK
        <5> QED BY <5>1
      <4>2. next.bigSize \in Nat /\ next.bigOffset \in Nat
        BY <1>1 DEF NextSet
      <4> QED BY <4>1, <4>2 DEF ChunkerInv, BigOK, BigLeft
    <3> QED BY <3>1, <3>2 DEF Type
  <2>6. WeaveInv'
    <3>1. PICK F : F = File'
      OBVIOUS
    <3>2. PICK s : s = cpSum'
      OBVIOUS
    <3>3. Woven(F, Positions(<< >>, << >>), << >>, 0)
          /\ Expected(F, Positions(<< >>, << >>), 0, next)
      BY <2>5, WeaveInit
    <3> QED BY <2>1, <2>2, <2>4, <3>1, <3>2, <3>3, WeaveAfter
  <2>7. InOrder(recipeH[backup], headerBuffer)'
    BY <2>4, <2>5, WeaveInit
  <2>8. ASSUME NEW b \in 1 .. backup' - 1 PROVE Kept(b)'
    <3>1. b \in 1 .. backup - 1 \/ b = backup
      BY <1>1, <2>1
    <3>2. Kept(b)
      BY <1>2, <2>1, <3>1, ClosedKept
    <3> QED BY <2>1, <3>2, KeptSame
  <2> QED BY <2>6, <2>7, <2>8 DEF WovenInv
<1>8. ASSUME ReadWindow \/ StartSegment \/ EndWindow \/ EndBig \/ CopyNegative
      PROVE  WovenInv'
  <2>1. Done' = Done
    BY <1>8, ReadWindowStep, StartSegmentStep, EndWindowStep, EndBigStep,
       CopyNegativeStep
  <2>2. UNCHANGED <<files, backup, headerBuffer, recipeH, recipeD, next>>
    BY <1>8 DEF ReadWindow, StartSegment, EndWindow, EndBig, CopyNegative, recipes
  <2>3. chunker' = "multi" => next.type = FILE_HEADER /\ cpSum' = 0
    BY <1>8 DEF ReadWindow, StartSegment, EndWindow, EndBig, CopyNegative
  <2>4. WeaveInv'
    BY <1>1, <2>1, <2>2, <2>3, WeaveSame
  <2>5. InOrder(recipeH[backup], headerBuffer)'
    BY <1>1, <2>2
  <2> QED BY <1>3, <2>2, <2>4, <2>5
<1>9. ASSUME UNCHANGED chunkerVars PROVE WovenInv'
  <2>1. Done' = Done
    BY <1>9 DEF chunkerVars, Done, InSegment
  <2>2. UNCHANGED <<files, backup, headerBuffer, recipeH, recipeD, next, chunker, cpSum>>
    BY <1>9 DEF chunkerVars
  <2>3. WeaveInv'
    BY <1>1, <2>1, <2>2, WeaveSame
  <2>4. InOrder(recipeH[backup], headerBuffer)'
    BY <1>1, <2>2
  <2> QED BY <1>3, <2>2, <2>3, <2>4
<1>10. ChunkerNext \/ UNCHANGED chunkerVars
  BY DEF Next, vars, RestoreNext, StartRestore, Refill, RestoreHeader, RestoreBig,
     EndBigFile, EndRestore, ReadPastRecipe
<1> QED BY <1>4, <1>5, <1>6, <1>7, <1>8, <1>9, <1>10 DEF ChunkerNext, Cut

-----------------------------------------------------------------------------
(* What the restorer has done of a backup *)

Whole(hs) == \A i \in DOMAIN hs : hs[i].whole

\* a backup whose headers both parsers read alike
Mated(F, h, d) ==
    /\ F \in Seq(Block) /\ h \in Seq(HeaderChunk) /\ d \in Seq(DataChunk)
    /\ Ascending(h)
    /\ \A x \in Blocks(h) : x.id \in 1 .. Len(F) /\ x = F[x.id] /\ x.whole
    /\ Woven(F, Positions(h, << >>), d, Len(F))

\* the first blocks of the file are written
Copied(F, out) ==
    /\ out \in Seq(Block) /\ Len(out) <= Len(F)
    /\ \A i \in 1 .. Len(out) : out[i] = F[i]

\* headers used so far: those of the entries before the one in the buffer hs,
\* which is entry hp - 1, and the first k of that one
Used(hp, k, m, j) == m < hp - 1 \/ (m = hp - 1 /\ j <= k)

\* the headers among the first w blocks are the ones that were used
AtHeader(h, hp, hs, k, w) ==
    /\ hs \in Seq(Block) /\ Whole(hs) /\ k \in 0 .. Len(hs)
    /\ hp \in 1 .. Len(h) + 1
    /\ hp = 1 => k = Len(hs)
    /\ hp > 1 => hs = h[hp - 1].data
    /\ \A m \in DOMAIN h : \A j \in DOMAIN h[m].data :
           h[m].data[j].id <= w <=> Used(hp, k, m, j)

\* and so are the chunks
AtData(d, dp, w) ==
    /\ dp \in 1 .. Len(d) + 1
    /\ \A i \in DOMAIN d : (i < dp => Until(d[i]) <= w) /\ (i >= dp => From(d[i]) > w)

\* a header comes next, or nothing
AtNext(F, P, w) == w = Len(F) \/ w + 1 \in P

\* the next l blocks are in whole chunks
Inside(F, P, d, w, l) ==
    /\ l \in Nat /\ w + l <= Len(F) /\ AtNext(F, P, w + l)
    /\ \A q \in P : q <= w \/ q > w + l
    /\ \A i \in DOMAIN d : From(d[i]) <= w + l => Until(d[i]) <= w + l

\* Headers and chunks, as numbers.
LEMMA MatedFacts ==
    ASSUME NEW F, NEW h, NEW d, Mated(F, h, d)
    PROVE  LET P == Positions(h, << >>)
               n == Len(F)
           IN  /\ n \in Nat /\ F \in Seq(Block)
               /\ \A i \in 1 .. n : F[i] \in Block /\ F[i].size \in Nat
               /\ P = {b.id : b \in Blocks(h)} /\ P \subseteq 1 .. n
               /\ n > 0 => 1 \in P
               /\ \A q \in P : q \in Int /\ 1 <= q /\ q <= n
               /\ DOMAIN d = 1 .. Len(d) /\ Len(d) \in Nat
               /\ DOMAIN h = 1 .. Len(h) /\ Len(h) \in Nat
               /\ \A m \in 1 .. Len(h) : h[m].data \in Seq(Block)
               /\ \A i \in 1 .. Len(d) :
                      /\ From(d[i]) \in Int /\ Until(d[i]) \in Int /\ From(d[i]) <= Until(d[i])
                      /\ 1 <= From(d[i]) /\ Until(d[i]) <= n
                      /\ d[i].data \in Seq(Block)
                      /\ Len(d[i].data) = Until(d[i]) - From(d[i]) + 1
                      /\ \A k \in 1 .. Len(d[i].data) : d[i].data[k] = F[From(d[i]) + k - 1]
               /\ \A i, j \in 1 .. Len(d) : i < j => Until(d[i]) < From(d[j])
               /\ \A q \in 1 .. n : q \in P \/ \E i \in 1 .. Len(d) :
                                                  From(d[i]) <= q /\ q <= Until(d[i])
               /\ \A q \in P, i \in 1 .. Len(d) : q < From(d[i]) \/ Until(d[i]) < q
<1> DEFINE P == Positions(h, << >>)
           n == Len(F)
<1>1. /\ n \in Nat /\ F \in Seq(Block) /\ h \in Seq(HeaderChunk) /\ d \in Seq(DataChunk)
      /\ \A i \in 1 .. n : F[i] \in Block
      /\ Woven(F, P, d, n)
  BY SeqFacts DEF Mated
<1>2. \A i \in 1 .. n : F[i].size \in Nat
  BY <1>1 DEF Block
<1>3. P = {b.id : b \in Blocks(h)}
  BY DEF Positions, Range
<1>4. /\ DOMAIN d = 1 .. Len(d) /\ Len(d) \in Nat
      /\ \A i \in 1 .. Len(d) : d[i] \in DataChunk
  <2> HIDE DEF n, P
  <2> QED BY <1>1, SeqFacts
<1>5. /\ DOMAIN h = 1 .. Len(h) /\ Len(h) \in Nat
      /\ \A i \in 1 .. Len(h) : h[i] \in HeaderChunk
  <2> HIDE DEF n, P
  <2> QED BY <1>1, SeqFacts
<1>6. /\ \A i \in 1 .. Len(d) : d[i].data \in Seq(Block)
      /\ \A i \in 1 .. Len(h) : h[i].data \in Seq(Block)
  BY <1>4, <1>5 DEF DataChunk, HeaderChunk
<1> HIDE DEF n, P
<1>7. /\ \A i \in 1 .. Len(d) :
            /\ From(d[i]) \in 1 .. n /\ Until(d[i]) \in From(d[i]) .. n
            /\ Len(d[i].data) = Until(d[i]) - From(d[i]) + 1
            /\ \A k \in 1 .. Len(d[i].data) : d[i].data[k] = F[From(d[i]) + k - 1]
      /\ \A i, j \in 1 .. Len(d) : i < j => Until(d[i]) < From(d[j])
  BY <1>1, <1>4 DEF Woven, Runs
<1>8. \A i \in 1 .. Len(d) : /\ From(d[i]) \in Int /\ Until(d[i]) \in Int
                             /\ From(d[i]) <= Until(d[i])
                             /\ 1 <= From(d[i]) /\ Until(d[i]) <= n
  BY <1>1, <1>7
<1>9. /\ P \subseteq 1 .. n
      /\ n > 0 => 1 \in P
      /\ \A q \in 1 .. n : q \in P \/ \E i \in 1 .. Len(d) : From(d[i]) <= q /\ q <= Until(d[i])
      /\ \A q \in P, i \in 1 .. Len(d) : q < From(d[i]) \/ Until(d[i]) < q
  BY <1>1, <1>4 DEF Woven, Covered
<1>10. \A q \in P : q \in Int /\ 1 <= q /\ q <= n
  BY <1>1, <1>9
<1> QED BY <1>1, <1>2, <1>3, <1>4, <1>5, <1>6, <1>7, <1>8, <1>9, <1>10 DEF P, n

\* The header the restorer reads next is the one the file has next.
LEMMA NextHeader ==
    ASSUME NEW F, NEW h, NEW d, Mated(F, h, d),
           NEW hp, NEW hs, NEW k, NEW w \in Nat, w <= Len(F),
           AtHeader(h, hp, hs, k, w), AtNext(F, Positions(h, << >>), w),
           k < Len(hs)
    PROVE  /\ hp > 1 /\ w + 1 <= Len(F) /\ w + 1 \in Positions(h, << >>)
           /\ hs[k + 1] = F[w + 1] /\ hs[k + 1] \in Block /\ hs[k + 1].whole
<1> DEFINE P == Positions(h, << >>)
           m == hp - 1
           b == hs[k + 1]
<1>1. /\ Len(h) \in Nat /\ DOMAIN h = 1 .. Len(h) /\ Len(F) \in Nat
      /\ P = {x.id : x \in Blocks(h)}
  BY MatedFacts
<1>2. /\ hs \in Seq(Block) /\ Len(hs) \in Nat /\ k \in Nat /\ hp \in 1 .. Len(h) + 1
      /\ hp \in Nat /\ hp > 1 /\ hs = h[m].data
  <2>1. hs \in Seq(Block) /\ k \in 0 .. Len(hs) /\ hp \in 1 .. Len(h) + 1
        /\ (hp = 1 => k = Len(hs)) /\ (hp > 1 => hs = h[m].data)
    BY DEF AtHeader
  <2>2. Len(hs) \in Nat /\ k \in Nat
    BY <2>1, SeqFacts
  <2>3. hp \in Nat /\ hp > 1
    BY <1>1, <2>1, <2>2
  <2> QED BY <2>1, <2>2, <2>3
<1>3. m \in 1 .. Len(h) /\ k + 1 \in DOMAIN hs /\ k + 1 \in DOMAIN h[m].data
  <2>1. k + 1 \in 1 .. Len(hs) /\ DOMAIN hs = 1 .. Len(hs)
    BY <1>2, SeqFacts
  <2> QED BY <1>1, <1>2, <2>1
<1>4. b = h[m].data[k + 1] /\ b \in Block /\ b.whole /\ b \in Blocks(h)
  <2>1. b \in Block
    BY <1>2, <1>3, SeqFacts
  <2>2. b \in Blocks(h)
    BY <1>1, <1>2, <1>3 DEF Blocks, Range
  <2> QED BY <1>2, <2>1, <2>2 DEF Mated
<1>5. b.id \in 1 .. Len(F) /\ b = F[b.id]
  BY <1>4 DEF Mated
<1>6. b.id > w
  <2>1. ~Used(hp, k, m, k + 1)
    BY <1>2 DEF Used
  <2>2. ~(b.id <= w)
    BY <1>1, <1>3, <1>4, <2>1 DEF AtHeader
  <2> QED BY <1>1, <1>5, <2>2
<1>7. w + 1 <= Len(F) /\ w + 1 \in P
  <2>1. w + 1 <= Len(F)
    BY <1>1, <1>5, <1>6
  <2> QED BY <1>1, <2>1 DEF AtNext
<1>8. PICK x \in Blocks(h) : x.id = w + 1
  BY <1>1, <1>7
<1>9. PICK i \in DOMAIN h : x \in Range(h[i].data)
  BY DEF Blocks
<1>10. PICK j \in DOMAIN h[i].data : x = h[i].data[j]
  BY <1>9 DEF Range
<1>11. ~Used(hp, k, i, j)
  <2>1. ~(x.id <= w)
    BY <1>8
  <2> QED BY <1>10, <2>1 DEF AtHeader
<1>12. j \in Nat /\ i \in Nat
  <2>1. h[i].data \in Seq(Block)
    BY <1>1, MatedFacts
  <2>2. DOMAIN h[i].data = 1 .. Len(h[i].data) /\ Len(h[i].data) \in Nat
    BY <2>1, SeqFacts
  <2> QED BY <1>1, <1>10, <2>2
<1>13. (m < i \/ (m = i /\ k + 1 < j)) \/ (m = i /\ k + 1 = j)
  BY <1>2, <1>11, <1>12 DEF Used
<1>14. b.id <= w + 1
  <2>1. CASE m < i \/ (m = i /\ k + 1 < j)
    <3>1. b.id < x.id
      BY <1>1, <1>3, <1>4, <1>10, <2>1 DEF Mated, Ascending
    <3> QED BY <1>5, <1>8, <3>1
  <2>2. CASE m = i /\ k + 1 = j
    BY <1>4, <1>8, <1>10, <2>2
  <2> QED BY <1>13, <2>1, <2>2
<1>15. b.id = w + 1
  BY <1>1, <1>5, <1>6, <1>14
<1> QED BY <1>2, <1>4, <1>5, <1>7, <1>15

\* The file goes on to block v, without another header.
LEMMA HeaderUsed ==
    ASSUME NEW F, NEW h, NEW d, Mated(F, h, d),
           NEW hp, NEW hs, NEW k, NEW w \in Nat, w <= Len(F),
           AtHeader(h, hp, hs, k, w), k < Len(hs), hp > 1, hs[k + 1] = F[w + 1],
           hs[k + 1].id = w + 1,
           NEW v \in Nat, w < v, \A q \in Positions(h, << >>) : q <= w + 1 \/ q > v
    PROVE  AtHeader(h, hp, hs, k + 1, v)
<1> DEFINE P == Positions(h, << >>)
           n == hp - 1
<1>1. /\ Len(h) \in Nat /\ DOMAIN h = 1 .. Len(h) /\ Len(F) \in Nat
      /\ P = {x.id : x \in Blocks(h)}
      /\ \A q \in P : q \in Int
  BY MatedFacts
<1>2. /\ hs \in Seq(Block) /\ Whole(hs) /\ k \in 0 .. Len(hs) /\ hp \in 1 .. Len(h) + 1
      /\ hs = h[n].data
      /\ \A m \in DOMAIN h : \A j \in DOMAIN h[m].data :
             h[m].data[j].id <= w <=> Used(hp, k, m, j)
  BY DEF AtHeader
<1>3. Len(hs) \in Nat /\ k \in Nat /\ hp \in Nat /\ k + 1 \in 0 .. Len(hs)
  <2>1. Len(hs) \in Nat
    BY <1>2, SeqFacts
  <2> QED BY <1>1, <1>2, <2>1
<1>4. ASSUME NEW m \in DOMAIN h, NEW j \in DOMAIN h[m].data
      PROVE  h[m].data[j].id <= v <=> Used(hp, k + 1, m, j)
  <2> DEFINE x == h[m].data[j]
  <2>1. x \in Blocks(h) /\ x.id \in P
    BY <1>1, <1>4 DEF Blocks, Range
  <2>2. x.id \in Int /\ (x.id <= w + 1 \/ x.id > v) /\ x = F[x.id]
    BY <1>1, <2>1 DEF Mated
  <2>3. h[m].data \in Seq(Block) /\ j \in Nat /\ m \in Nat
    <3>1. h[m].data \in Seq(Block)
      BY <1>1, MatedFacts
    <3>2. DOMAIN h[m].data = 1 .. Len(h[m].data) /\ Len(h[m].data) \in Nat
      BY <3>1, SeqFacts
    <3> QED BY <1>1, <3>1, <3>2
  <2>4. x.id <= w <=> Used(hp, k, m, j)
    BY <1>2
  <2>5. k + 1 \in DOMAIN h[n].data /\ n \in DOMAIN h
    <3>1. DOMAIN hs = 1 .. Len(hs)
      BY <1>2, SeqFacts
    <3> QED BY <1>1, <1>2, <1>3, <3>1
  <2>6. x.id = w + 1 => m = n /\ j = k + 1
    <3> SUFFICES ASSUME x.id = w + 1 PROVE m = n /\ j = k + 1
      OBVIOUS
    <3>1. h[n].data[k + 1].id = w + 1
      BY <1>2
    <3>2. ~(m < n \/ (m = n /\ j < k + 1))
      BY <2>5, <3>1 DEF Mated, Ascending
    <3>3. ~(n < m \/ (n = m /\ k + 1 < j))
      BY <2>5, <3>1 DEF Mated, Ascending
    <3> QED BY <1>3, <2>3, <3>2, <3>3
  <2>7. m = n /\ j = k + 1 => x.id = w + 1
    BY <1>2
  <2>8. x.id <= v <=> x.id <= w \/ x.id = w + 1
    BY <2>2
  <2>9. Used(hp, k + 1, m, j) <=> Used(hp, k, m, j) \/ (m = n /\ j = k + 1)
    BY <1>3, <2>3 DEF Used
  <2> HIDE DEF x, n
  <2> QED BY <2>4, <2>6, <2>7, <2>8, <2>9 DEF x
<1> QED BY <1>2, <1>3, <1>4 DEF AtHeader

\* More blocks of the file behind what is written.
LEMMA CopyMore ==
    ASSUME NEW F \in Seq(Block), NEW out, Copied(F, out), NEW s \in Seq(Block),
           Len(out) + Len(s) <= Len(F), \A j \in 1 .. Len(s) : s[j] = F[Len(out) + j]
    PROVE  Copied(F, out \o s) /\ Len(out \o s) = Len(out) + Len(s)
<1> DEFINE w == Len(out)
           t == out \o s
<1>1. out \in Seq(Block) /\ w \in Nat /\ Len(s) \in Nat
  BY SeqFacts DEF Copied
<1>2. /\ t \in Seq(Block) /\ Len(t) = w + Len(s)
      /\ \A i \in 1 .. w : t[i] = out[i]
      /\ \A j \in 1 .. Len(s) : t[w + j] = s[j]
  BY <1>1
<1>3. \A i \in 1 .. w : out[i] = F[i]
  BY DEF Copied
<1> HIDE DEF t, w
<1>4. ASSUME NEW i \in 1 .. Len(t) PROVE t[i] = F[i]
  <2>1. CASE i <= w
    <3>1. i \in 1 .. w
      BY <1>1, <1>2, <2>1
    <3> QED BY <1>2, <1>3, <3>1
  <2>2. CASE i > w
    <3>1. PICK j \in 1 .. Len(s) : i = w + j
      <4>1. i - w \in 1 .. Len(s) /\ i = w + (i - w)
        BY <1>1, <1>2, <2>2
      <4> QED BY <4>1
    <3> QED BY <1>2, <3>1 DEF w
  <2> QED BY <1>1, <1>2, <2>1, <2>2
<1> QED BY <1>2, <1>4 DEF Copied, t, w

LEMMA CopiedWhole ==
    ASSUME NEW F \in Seq(Block), NEW out, Copied(F, out), Len(out) = Len(F)
    PROVE  out = F
<1>1. out \in Seq(Block) /\ \A i \in 1 .. Len(out) : out[i] = F[i]
  BY DEF Copied
<1>2. DOMAIN out = 1 .. Len(out) /\ DOMAIN F = 1 .. Len(F)
  BY <1>1, SeqFacts
<1> QED BY <1>1, <1>2

\* Behind block w, which the restorer has reached, a chunk comes next if no
\* header does.
LEMMA NextChunk ==
    ASSUME NEW F, NEW h, NEW d, Mated(F, h, d), NEW dp, NEW w \in Nat,
           AtData(d, dp, w), w + 1 <= Len(F), w + 1 \notin Positions(h, << >>)
    PROVE  /\ dp <= Len(d) /\ dp \in 1 .. Len(d) /\ From(d[dp]) = w + 1
           /\ AtData(d, dp + 1, Until(d[dp]))
<1> DEFINE P == Positions(h, << >>)
           n == Len(F)
<1>1. /\ n \in Nat /\ DOMAIN d = 1 .. Len(d) /\ Len(d) \in Nat
      /\ \A i \in 1 .. Len(d) :
            /\ From(d[i]) \in Int /\ Until(d[i]) \in Int /\ From(d[i]) <= Until(d[i])
      /\ \A i, j \in 1 .. Len(d) : i < j => Until(d[i]) < From(d[j])
      /\ \A q \in 1 .. n : q \in P \/ \E i \in 1 .. Len(d) :
                                         From(d[i]) <= q /\ q <= Until(d[i])
  BY MatedFacts
<1>2. /\ dp \in 1 .. Len(d) + 1
      /\ \A i \in 1 .. Len(d) : (i < dp => Until(d[i]) <= w) /\ (i >= dp => From(d[i]) > w)
  BY <1>1 DEF AtData
<1> HIDE DEF P, n
<1>3. PICK i \in 1 .. Len(d) : From(d[i]) <= w + 1 /\ w + 1 <= Until(d[i])
  <2>1. w + 1 \in 1 .. n /\ w + 1 \notin P
    BY <1>1 DEF n, P
  <2> QED BY <1>1, <2>1
<1>4. i >= dp /\ From(d[i]) = w + 1
  BY <1>1, <1>2, <1>3
<1>5. dp \in 1 .. Len(d)
  BY <1>1, <1>2, <1>4
<1>6. i = dp
  <2>1. ~(dp < i)
    BY <1>1, <1>2, <1>4, <1>5
  <2> QED BY <1>2, <1>4, <2>1
<1>7. AtData(d, dp + 1, Until(d[dp]))
  <2>1. dp + 1 \in 1 .. Len(d) + 1
    BY <1>1, <1>5
  <2>2. ASSUME NEW j \in 1 .. Len(d)
        PROVE  /\ j < dp + 1 => Until(d[j]) <= Until(d[dp])
               /\ j >= dp + 1 => From(d[j]) > Until(d[dp])
    <3>1. CASE j < dp
      BY <1>1, <1>5, <3>1
    <3>2. CASE j = dp
      BY <1>1, <1>5, <3>2
    <3>3. CASE j > dp
      BY <1>1, <1>5, <3>3
    <3> QED BY <1>5, <3>1, <3>2, <3>3
  <2> QED BY <1>1, <2>1, <2>2 DEF AtData
<1> QED BY <1>4, <1>5, <1>6, <1>7

\* No chunk begins with a header.
LEMMA DataPastHeader ==
    ASSUME NEW F, NEW h, NEW d, Mated(F, h, d), NEW dp, NEW w \in Nat,
           AtData(d, dp, w), w + 1 \in Positions(h, << >>)
    PROVE  AtData(d, dp, w + 1)
<1>1. /\ DOMAIN d = 1 .. Len(d) /\ Len(d) \in Nat
      /\ \A i \in 1 .. Len(d) :
            /\ From(d[i]) \in Int /\ Until(d[i]) \in Int /\ From(d[i]) <= Until(d[i])
            /\ w + 1 < From(d[i]) \/ Until(d[i]) < w + 1
  BY MatedFacts
<1>2. /\ dp \in 1 .. Len(d) + 1
      /\ \A i \in 1 .. Len(d) : (i < dp => Until(d[i]) <= w) /\ (i >= dp => From(d[i]) > w)
  BY <1>1 DEF AtData
<1>3. \A i \in 1 .. Len(d) : (i < dp => Until(d[i]) <= w + 1)
                             /\ (i >= dp => From(d[i]) > w + 1)
  BY <1>1, <1>2
<1> QED BY <1>1, <1>2, <1>3 DEF AtData

\* What comes behind the header at block v.
LEMMA BehindHeader ==
    ASSUME NEW F, NEW h, NEW d, Mated(F, h, d), NEW dp, NEW v \in Nat,
           AtData(d, dp, v), v \in Positions(h, << >>)
    PROVE  LET P == Positions(h, << >>)
           IN  /\ NoData(F[v]) => AtNext(F, P, v)
               /\ ~NoData(F[v]) /\ dp > Len(d) => v = Len(F)
               /\ Small(F[v]) /\ dp <= Len(d) =>
                      /\ dp \in 1 .. Len(d) /\ From(d[dp]) = v + 1
                      /\ AtData(d, dp + 1, Until(d[dp]))
                      /\ AtNext(F, P, Until(d[dp]))
                      /\ \A q \in P : q <= v \/ q > Until(d[dp])
               /\ Large(F[v]) => Inside(F, P, d, v, F[v].size)
<1> DEFINE P == Positions(h, << >>)
           n == Len(F)
<1>1. /\ n \in Nat /\ DOMAIN d = 1 .. Len(d) /\ Len(d) \in Nat /\ P \subseteq 1 .. n
      /\ \A q \in P : q \in Int /\ q <= n
      /\ \A i \in 1 .. Len(d) :
            /\ From(d[i]) \in Int /\ Until(d[i]) \in Int /\ From(d[i]) <= Until(d[i])
            /\ Until(d[i]) <= n
      /\ \A i, j \in 1 .. Len(d) : i < j => Until(d[i]) < From(d[j])
      /\ \A q \in P, i \in 1 .. Len(d) : q < From(d[i]) \/ Until(d[i]) < q
      /\ F[v].size \in Nat
  BY MatedFacts
<1>2. Woven(F, P, d, n)
  BY DEF Mated
<1>3. v <= n
  BY <1>1
<1>4. /\ dp \in 1 .. Len(d) + 1
      /\ \A i \in 1 .. Len(d) : (i < dp => Until(d[i]) <= v) /\ (i >= dp => From(d[i]) > v)
  BY <1>1 DEF AtData
<1>5. ASSUME v < n, v + 1 \notin P
      PROVE  dp \in 1 .. Len(d) /\ From(d[dp]) = v + 1 /\ AtData(d, dp + 1, Until(d[dp]))
  <2>1. v + 1 <= Len(F)
    BY <1>1, <1>5
  <2> QED BY <1>5, <2>1, NextChunk
<1> HIDE DEF P, n
<1>6. NoData(F[v]) => AtNext(F, P, v)
  <2> SUFFICES ASSUME NoData(F[v]) PROVE v = n \/ v + 1 \in P
    BY DEF AtNext, n
  <2>1. v < n => v + 1 \in P
    BY <1>2 DEF Woven, NoneFollows, P
  <2> QED BY <1>1, <1>3, <2>1
<1>7. ASSUME Small(F[v]), v < n PROVE OneRun(P, d, n, v) /\ v + 1 \notin P
  <2>1. OneRun(P, d, n, v)
    BY <1>2, <1>7 DEF Woven, OneFollows, P
  <2>2. PICK i \in DOMAIN d : From(d[i]) = v + 1
    BY <2>1 DEF OneRun
  <2>3. v + 1 \notin P
    BY <1>1, <2>2
  <2> QED BY <2>1, <2>3
<1>8. ASSUME Large(F[v])
      PROVE  /\ v + F[v].size <= n /\ v < n /\ v + 1 \notin P
             /\ Inside(F, P, d, v, F[v].size)
  <2>1. /\ v + F[v].size <= n
        /\ \A q \in P : q <= v \/ q > v + F[v].size
        /\ v + F[v].size < n => v + F[v].size + 1 \in P
        /\ \A i \in DOMAIN d : From(d[i]) <= v + F[v].size => Until(d[i]) <= v + F[v].size
    BY <1>2, <1>8 DEF Woven, BigFollows, P, n
  <2>2. F[v].size > 0
    BY <1>1, <1>8 DEF Large
  <2>3. v < n /\ v + 1 \notin P
    BY <1>1, <2>1, <2>2
  <2>4. v + F[v].size = n \/ v + F[v].size + 1 \in P
    <3> DEFINE e == v + F[v].size
    <3>1. e \in Int /\ n \in Int /\ e <= n /\ (e < n => e + 1 \in P)
      BY <1>1, <2>1
    <3> HIDE DEF e
    <3>2. e = n \/ e + 1 \in P
      BY <3>1
    <3> QED BY <3>2 DEF e
  <2> QED BY <1>1, <2>1, <2>3, <2>4 DEF Inside, AtNext, n
<1>9. ~NoData(F[v]) /\ dp > Len(d) => v = n
  <2> SUFFICES ASSUME ~NoData(F[v]), dp > Len(d), v # n PROVE FALSE
    OBVIOUS
  <2>1. v < n
    BY <1>1, <1>3
  <2>2. v + 1 \notin P
    BY <1>7, <1>8, <2>1 DEF NoData
  <2>3. dp \in 1 .. Len(d)
    BY <1>5, <2>1, <2>2
  <2> QED BY <1>1, <2>3
<1>10. ASSUME Small(F[v]), dp <= Len(d)
       PROVE  /\ dp \in 1 .. Len(d) /\ From(d[dp]) = v + 1
              /\ AtData(d, dp + 1, Until(d[dp]))
              /\ AtNext(F, P, Until(d[dp]))
              /\ \A q \in P : q <= v \/ q > Until(d[dp])
  <2>1. dp \in 1 .. Len(d)
    BY <1>1, <1>4, <1>10
  <2>2. v < n
    BY <1>1, <1>3, <1>4, <2>1
  <2>3. From(d[dp]) = v + 1 /\ AtData(d, dp + 1, Until(d[dp]))
    BY <1>5, <1>7, <1>10, <2>2
  <2>4. PICK i \in 1 .. Len(d) : From(d[i]) = v + 1 /\ (Until(d[i]) < n => Until(d[i]) + 1 \in P)
    BY <1>1, <1>7, <1>10, <2>2 DEF OneRun
  <2>5. i = dp
    <3>1. ~(i < dp) /\ ~(dp < i)
      BY <1>1, <2>1, <2>3, <2>4
    <3> QED BY <1>4, <3>1
  <2>6. Until(d[dp]) = n \/ Until(d[dp]) + 1 \in P
    BY <1>1, <2>1, <2>4, <2>5
  <2>7. \A q \in P : q <= v \/ q > Until(d[dp])
    BY <1>1, <2>1, <2>3
  <2> QED BY <2>1, <2>3, <2>6, <2>7 DEF AtNext, n
<1> QED BY <1>6, <1>8, <1>9, <1>10 DEF P, n

\* One more chunk of a big file.
LEMMA NextOfBig ==
    ASSUME NEW F, NEW h, NEW d, Mated(F, h, d), NEW dp, NEW w \in Nat, NEW l,
           AtData(d, dp, w), Inside(F, Positions(h, << >>), d, w, l), l # 0
    PROVE  /\ dp \in 1 .. Len(d) /\ From(d[dp]) = w + 1
           /\ AtData(d, dp + 1, Until(d[dp]))
           /\ Inside(F, Positions(h, << >>), d, Until(d[dp]), l - Len(d[dp].data))
<1> DEFINE P == Positions(h, << >>)
<1>1. /\ Len(F) \in Nat /\ DOMAIN d = 1 .. Len(d)
      /\ \A i \in 1 .. Len(d) :
            /\ From(d[i]) \in Int /\ Until(d[i]) \in Int /\ From(d[i]) <= Until(d[i])
            /\ Len(d[i].data) = Until(d[i]) - From(d[i]) + 1
      /\ \A q \in P : q \in Int
  BY MatedFacts
<1>2. /\ l \in Nat /\ w + l <= Len(F) /\ AtNext(F, P, w + l)
      /\ \A q \in P : q <= w \/ q > w + l
      /\ \A i \in 1 .. Len(d) : From(d[i]) <= w + l => Until(d[i]) <= w + l
  BY <1>1 DEF Inside
<1>3. w + 1 <= Len(F) /\ w + 1 \notin P /\ w + 1 <= w + l
  BY <1>1, <1>2
<1>4. dp \in 1 .. Len(d) /\ From(d[dp]) = w + 1 /\ AtData(d, dp + 1, Until(d[dp]))
  BY <1>3, NextChunk
<1> HIDE DEF P
<1>5. PICK v \in Int : v = Until(d[dp])
  BY <1>1, <1>4
<1>6. v <= w + l /\ w + 1 <= v /\ Len(d[dp].data) = v - w
  BY <1>1, <1>2, <1>3, <1>4, <1>5
<1>7. PICK r \in Nat : r = l - (v - w) /\ v + r = w + l
  <2>1. l - (v - w) \in Nat /\ v + (l - (v - w)) = w + l
    BY <1>2, <1>6
  <2> QED BY <2>1
<1>8. \A q \in P : q <= v \/ q > v + r
  BY <1>1, <1>2, <1>6, <1>7
<1>9. Inside(F, P, d, v, r)
  BY <1>1, <1>2, <1>7, <1>8 DEF Inside
<1> QED BY <1>4, <1>5, <1>6, <1>7, <1>9 DEF P

\* The next entry of the header recipe.
LEMMA Refilled ==
    ASSUME NEW F, NEW h, NEW d, Mated(F, h, d), NEW hp, NEW hs, NEW w,
           AtHeader(h, hp, hs, Len(hs), w), hp <= Len(h)
    PROVE  AtHeader(h, hp + 1, h[hp].data, 0, w) /\ h[hp].data \in Seq(Block)
<1>1. /\ Len(h) \in Nat /\ DOMAIN h = 1 .. Len(h)
      /\ \A m \in 1 .. Len(h) : h[m].data \in Seq(Block)
  BY MatedFacts
<1>2. /\ hp \in 1 .. Len(h) + 1 /\ (hp > 1 => hs = h[hp - 1].data) /\ Len(hs) \in Nat
      /\ hs \in Seq(Block)
      /\ \A m \in DOMAIN h : \A j \in DOMAIN h[m].data :
             h[m].data[j].id <= w <=> Used(hp, Len(hs), m, j)
  <2>1. hs \in Seq(Block)
    BY DEF AtHeader
  <2> QED BY <2>1, SeqFacts DEF AtHeader
<1>3. hp \in 1 .. Len(h) /\ hp + 1 \in 1 .. Len(h) + 1 /\ hp + 1 > 1 /\ hp + 1 # 1
      /\ hp + 1 - 1 = hp
  BY <1>1, <1>2
<1>4. h[hp].data \in Seq(Block) /\ Whole(h[hp].data) /\ 0 \in 0 .. Len(h[hp].data)
  <2>1. h[hp].data \in Seq(Block)
    BY <1>1, <1>3
  <2>2. Len(h[hp].data) \in Nat
    BY <2>1, SeqFacts
  <2>3. \A j \in DOMAIN h[hp].data : h[hp].data[j] \in Blocks(h)
    BY <1>1, <1>3 DEF Blocks, Range
  <2> QED BY <2>1, <2>2, <2>3 DEF Mated, Whole
<1>5. ASSUME NEW m \in DOMAIN h, NEW j \in DOMAIN h[m].data
      PROVE  h[m].data[j].id <= w <=> Used(hp + 1, 0, m, j)
  <2>1. h[m].data \in Seq(Block)
    BY <1>1
  <2>2. DOMAIN h[m].data = 1 .. Len(h[m].data) /\ Len(h[m].data) \in Nat
    BY <2>1, SeqFacts
  <2>3. j \in Nat /\ j >= 1 /\ j <= Len(h[m].data) /\ m \in Nat /\ m >= 1
    BY <1>1, <2>2
  <2>4. Used(hp + 1, 0, m, j) <=> m < hp
    BY <1>3, <2>3 DEF Used
  <2>5. Used(hp, Len(hs), m, j) <=> m < hp
    <3>1. m = hp - 1 => j <= Len(hs)
      BY <1>2, <1>3, <2>3
    <3> QED BY <1>2, <1>3, <2>3, <3>1 DEF Used
  <2> QED BY <1>2, <2>4, <2>5
<1> QED BY <1>3, <1>4, <1>5 DEF AtHeader

\* Before the first header, whatever the buffer still holds.
LEMMA Started ==
    ASSUME NEW F, NEW h, NEW d, Mated(F, h, d), NEW hs \in Seq(Block), Whole(hs)
    PROVE  /\ AtHeader(h, 1, hs, Len(hs), 0) /\ AtData(d, 1, 0) /\ Copied(F, << >>)
           /\ AtNext(F, Positions(h, << >>), 0)
<1>1. /\ Len(h) \in Nat /\ DOMAIN h = 1 .. Len(h) /\ Len(F) \in Nat /\ Len(hs) \in Nat
      /\ Len(d) \in Nat /\ DOMAIN d = 1 .. Len(d)
      /\ Len(F) > 0 => 1 \in Positions(h, << >>)
      /\ \A i \in 1 .. Len(d) : From(d[i]) \in Int /\ 1 <= From(d[i])
  BY MatedFacts, SeqFacts
<1>2. ASSUME NEW m \in DOMAIN h, NEW j \in DOMAIN h[m].data
      PROVE  h[m].data[j].id <= 0 <=> Used(1, Len(hs), m, j)
  <2>1. h[m].data[j] \in Blocks(h)
    BY DEF Blocks, Range
  <2>2. h[m].data[j].id \in 1 .. Len(F)
    BY <2>1 DEF Mated
  <2>3. ~(h[m].data[j].id <= 0) /\ ~(m < 0) /\ m # 0
    BY <1>1, <2>2
  <2> QED BY <2>3 DEF Used
<1>3. AtHeader(h, 1, hs, Len(hs), 0)
  BY <1>1, <1>2 DEF AtHeader
<1>4. AtData(d, 1, 0)
  BY <1>1 DEF AtData
<1>5. Copied(F, << >>)
  BY <1>1 DEF Copied
<1>6. AtNext(F, Positions(h, << >>), 0)
  BY <1>1 DEF AtNext
<1> QED BY <1>3, <1>4, <1>5, <1>6

\* With both recipes used up, the file is written.
LEMMA AllDone ==
    ASSUME NEW F, NEW h, NEW d, Mated(F, h, d), NEW hp, NEW hs, NEW dp, NEW out,
           AtHeader(h, hp, hs, Len(hs), Len(out)), hp > Len(h),
           AtData(d, dp, Len(out)), AtNext(F, Positions(h, << >>), Len(out)),
           Copied(F, out)
    PROVE  out = F /\ dp > Len(d)
<1> DEFINE P == Positions(h, << >>)
           w == Len(out)
<1>1. /\ Len(h) \in Nat /\ DOMAIN h = 1 .. Len(h) /\ Len(F) \in Nat /\ F \in Seq(Block)
      /\ P = {x.id : x \in Blocks(h)}
      /\ DOMAIN d = 1 .. Len(d) /\ Len(d) \in Nat
      /\ \A i \in 1 .. Len(d) : From(d[i]) \in Int /\ Until(d[i]) <= Len(F)
                                /\ Until(d[i]) \in Int /\ From(d[i]) <= Until(d[i])
      /\ \A m \in 1 .. Len(h) : h[m].data \in Seq(Block)
  BY MatedFacts
<1>2. w \in Nat /\ w <= Len(F)
  BY SeqFacts DEF Copied
<1>3. hp = Len(h) + 1 /\ (hp > 1 => hs = h[hp - 1].data)
  <2>1. hp \in 1 .. Len(h) + 1 /\ (hp > 1 => hs = h[hp - 1].data)
    BY DEF AtHeader
  <2> QED BY <1>1, <2>1
<1>4. w = Len(F)
  <2> SUFFICES ASSUME w + 1 \in P PROVE FALSE
    BY DEF AtNext
  <2>1. PICK x \in Blocks(h) : x.id = w + 1
    BY <1>1
  <2>2. PICK m \in DOMAIN h : x \in Range(h[m].data)
    BY DEF Blocks
  <2>3. PICK j \in DOMAIN h[m].data : x = h[m].data[j]
    BY <2>2 DEF Range
  <2>4. h[m].data \in Seq(Block)
    BY <1>1
  <2>5. DOMAIN h[m].data = 1 .. Len(h[m].data) /\ Len(h[m].data) \in Nat
    BY <2>4, SeqFacts
  <2>6. Used(hp, Len(hs), m, j)
    <3>1. m < hp - 1 \/ m = hp - 1
      BY <1>1, <1>3
    <3>2. m = hp - 1 => j <= Len(hs)
      BY <1>1, <1>3, <2>5
    <3> QED BY <3>1, <3>2 DEF Used
  <2>7. x.id <= w
    BY <2>3, <2>6 DEF AtHeader
  <2> QED BY <1>2, <2>1, <2>7
<1>5. dp > Len(d)
  <2> SUFFICES ASSUME ~(dp > Len(d)) PROVE FALSE
    OBVIOUS
  <2>1. dp \in 1 .. Len(d)
    <3>1. dp \in 1 .. Len(d) + 1
      BY DEF AtData
    <3> QED BY <1>1, <3>1
  <2>2. From(d[dp]) > w
    <3>1. dp >= dp /\ dp \in DOMAIN d
      BY <1>1, <2>1
    <3>2. \A i \in DOMAIN d : i >= dp => From(d[i]) > w
      BY DEF AtData
    <3> QED BY <3>1, <3>2
  <2>3. From(d[dp]) \in Int /\ Until(d[dp]) \in Int /\ From(d[dp]) <= Until(d[dp])
        /\ Until(d[dp]) <= Len(F)
    BY <1>1, <2>1
  <2> HIDE DEF w
  <2> QED BY <1>1, <1>4, <2>2, <2>3
<1> QED BY <1>1, <1>4, <1>5, CopiedWhole

-----------------------------------------------------------------------------
(* Each step of the restorer *)

Following(F, h, d, st, out, hp, hs, k, dp, l) ==
    /\ Copied(F, out) /\ AtHeader(h, hp, hs, k, Len(out)) /\ AtData(d, dp, Len(out))
    /\ st = "loop" => AtNext(F, Positions(h, << >>), Len(out))
    /\ st = "big" => Inside(F, Positions(h, << >>), d, Len(out), l)

AtWork(k) ==
    /\ k \in Nat /\ offset = HeaderSize * k
    /\ Following(files[restored], recipeH[restored], recipeD[restored], restore,
                 outFile, HeaderP, headers, k, DataP, bigLeft)

FollowInv ==
    /\ restore \in {"idle", "loop", "big"} /\ bigLeft \in Nat
    /\ restore = "idle" =>
           /\ headers \in Seq(Block) /\ Whole(headers)
           /\ offset = HeaderSize * Len(headers)
           /\ restored > 0 => outFile = files[restored] /\ HeaderEnd /\ DataEnd
    /\ restore # "idle" => \E k : AtWork(k)

AllAgree == \A f \in 1 .. backupNum : HeadersAgree(f)

\* The restorer waits for the chunker, and then follows it.
RestoreInv ==
    /\ restored \in 0 .. backupNum
    /\ restored = 0 => restore = "idle" /\ headers = << >> /\ offset = 0 /\ bigLeft = 0
    /\ restored > 0 => chunker = "closed" /\ backup = backupNum
    /\ AllAgree => FollowInv

\* Whole blocks count their full size.
LEMMA BytesFacts ==
    ASSUME NEW hs \in Seq(Block), Whole(hs)
    PROVE  Bytes(hs) = HeaderSize * Len(hs) /\ Len(hs) \in Nat
<1> DEFINE S == {i \in DOMAIN hs : ~hs[i].whole}
<1>1. S = {}
  BY DEF Whole
<1>2. Cardinality({}) = 0
  BY FS_EmptySet
<1>3. Len(hs) \in Nat
  BY SeqFacts
<1>4. Bytes(hs) = HeaderSize * Len(hs) - Cardinality(S)
  BY DEF Bytes
<1> HIDE DEF S
<1> QED BY <1>1, <1>2, <1>3, <1>4 DEF HeaderSize

\* A backup the restorer can follow.
LEMMA RestoredMated ==
    ASSUME ChunkerInv, RecipesInv, WovenInv, chunker = "closed", backup = backupNum,
           NEW r \in 1 .. backupNum, HeadersAgree(r)
    PROVE  Mated(files[r], recipeH[r], recipeD[r])
<1>1. TypeOK /\ backupNum \in Nat
  BY ConstantFacts DEF ChunkerInv
<1>2. Kept(r)
  <2>1. CASE r = backup
    BY <2>1, ClosedKept
  <2>2. CASE r # backup
    <3>1. r \in 1 .. backup - 1
      BY <1>1, <2>2
    <3> QED BY <3>1 DEF WovenInv
  <2> QED BY <2>1, <2>2
<1>3. files[r] \in Seq(Block)
  BY <1>1, TarChunkerAssumption DEF TypeOK
<1>4. recipeH[r] \in Seq(HeaderChunk) /\ recipeD[r] \in Seq(DataChunk)
  BY <1>1 DEF TypeOK
<1>5. \A x \in Blocks(recipeH[r]) : x.whole
  BY DEF HeadersAgree, ReadAlike
<1> QED BY <1>2, <1>3, <1>4, <1>5 DEF Kept, Mated

\* What a step of the loop leaves.
LEMMA WorkAfter ==
    ASSUME NEW st \in {"loop", "big"}, NEW out, NEW hp, NEW hs, NEW k \in Nat, NEW dp,
           NEW l \in Nat,
           Following(files[restored], recipeH[restored], recipeD[restored], st, out, hp,
                     hs, k, dp, l),
           UNCHANGED <<files, recipeH, recipeD, restored>>,
           restore' = st, outFile' = out, HeaderP' = hp, headers' = hs,
           offset' = HeaderSize * k, DataP' = dp, bigLeft' = l
    PROVE  FollowInv'
<1>1. AtWork(k)'
  BY DEF AtWork, HeaderSize
<1>2. restore' \in {"idle", "loop", "big"} /\ restore' # "idle" /\ bigLeft' \in Nat
  OBVIOUS
<1> QED BY <1>1, <1>2 DEF FollowInv

LEMMA FollowRefill ==
    ASSUME Mated(files[restored], recipeH[restored], recipeD[restored]),
           FollowInv, NEW k, AtWork(k), Refill
    PROVE  FollowInv'
<1> DEFINE F == files[restored]
           h == recipeH[restored]
           d == recipeD[restored]
           w == Len(outFile)
<1>1. /\ restore = "loop" /\ ~HeaderEnd /\ Bytes(headers) = offset
      /\ headers' = h[HeaderP].data /\ offset' = 0 /\ HeaderP' = HeaderP + 1
      /\ UNCHANGED <<files, recipeH, recipeD, restored, restore, DataP, bigLeft, outFile>>
      /\ bigLeft \in Nat
  BY DEF Refill, MultiHeaderChunkSize, chunkerVars, FollowInv
<1>2. /\ Copied(F, outFile) /\ AtHeader(h, HeaderP, headers, k, w) /\ AtData(d, DataP, w)
      /\ AtNext(F, Positions(h, << >>), w) /\ k \in Nat /\ offset = 2 * k
  BY <1>1 DEF AtWork, Following, HeaderSize
<1>3. headers \in Seq(Block) /\ Whole(headers)
  BY <1>2 DEF AtHeader
<1>4. k = Len(headers)
  BY <1>1, <1>2, <1>3, BytesFacts DEF HeaderSize
<1>5. HeaderP <= Len(h)
  <2>1. ~(HeaderP > Len(h))
    BY <1>1 DEF HeaderEnd
  <2>2. HeaderP \in 1 .. Len(h) + 1
    BY <1>2 DEF AtHeader
  <2>3. Len(h) \in Nat
    BY MatedFacts
  <2> QED BY <2>1, <2>2, <2>3
<1> HIDE DEF F, h, d, w
<1>6. AtHeader(h, HeaderP + 1, h[HeaderP].data, 0, w)
  BY <1>2, <1>4, <1>5, Refilled DEF F, h, d
<1>7. Following(F, h, d, "loop", outFile, HeaderP + 1, h[HeaderP].data, 0, DataP, bigLeft)
  BY <1>2, <1>6 DEF Following, w
<1>8. 0 \in Nat /\ offset' = HeaderSize * 0
  BY <1>1 DEF HeaderSize
<1> QED BY <1>1, <1>7, <1>8, WorkAfter DEF F, h, d

LEMMA FollowHeader ==
    ASSUME Mated(files[restored], recipeH[restored], recipeD[restored]),
           FollowInv, NEW k, AtWork(k), RestoreHeader
    PROVE  FollowInv'
<1> DEFINE F == files[restored]
           h == recipeH[restored]
           d == recipeD[restored]
           P == Positions(h, << >>)
           w == Len(outFile)
           b == headers[offset \div HeaderSize + 1]
           announced == IF b.size = 0 \/ DataEnd THEN FILE_HEADER ELSE Announces(b)
           s == IF announced = FILE_CHUNK THEN d[DataP].data ELSE << >>
<1>1. /\ restore = "loop" /\ offset < Bytes(headers)
      /\ outFile' = outFile \o <<Written(b)>> \o s
      /\ DataP' = (IF announced = FILE_CHUNK THEN DataP + 1 ELSE DataP)
      /\ restore' = (IF announced = BIG_CHUNK THEN "big" ELSE "loop")
      /\ bigLeft' = (IF announced = BIG_CHUNK THEN b.size ELSE bigLeft)
      /\ offset' = offset + HeaderSize
      /\ UNCHANGED <<files, recipeH, recipeD, restored, HeaderP, headers>>
      /\ bigLeft \in Nat
  BY DEF RestoreHeader, MultiHeaderChunkSize, chunkerVars, FollowInv
<1>2. /\ Copied(F, outFile) /\ AtHeader(h, HeaderP, headers, k, w) /\ AtData(d, DataP, w)
      /\ AtNext(F, P, w) /\ k \in Nat /\ offset = 2 * k
  BY <1>1 DEF AtWork, Following, HeaderSize
<1>3. headers \in Seq(Block) /\ Whole(headers)
  BY <1>2 DEF AtHeader
<1>4. k < Len(headers) /\ k + 1 \in Nat /\ offset' = HeaderSize * (k + 1)
      /\ b = headers[k + 1]
  <2>1. Bytes(headers) = 2 * Len(headers) /\ Len(headers) \in Nat
    BY <1>3, BytesFacts DEF HeaderSize
  <2>2. offset \div HeaderSize = k
    BY <1>2 DEF HeaderSize
  <2> QED BY <1>1, <1>2, <2>1, <2>2 DEF HeaderSize
<1>5. w \in Nat /\ w <= Len(F) /\ outFile \in Seq(Block)
  <2>1. outFile \in Seq(Block) /\ w <= Len(F)
    BY <1>2 DEF Copied
  <2> QED BY <2>1, SeqFacts
<1> HIDE DEF announced, s
<1>6. /\ HeaderP > 1 /\ w + 1 <= Len(F) /\ w + 1 \in P
      /\ b = F[w + 1] /\ b \in Block /\ b.whole
  <2> HIDE DEF F, h, d, w, b
  <2>1. Mated(F, h, d)
    BY DEF F, h, d
  <2> QED BY <1>2, <1>4, <1>5, <2>1, NextHeader DEF P
<1>7. Written(b) = b /\ b.size \in Nat /\ b.id = w + 1
  <2>1. Written(b) = b
    BY <1>6 DEF Written, Block
  <2>2. b.size \in Nat
    BY <1>6 DEF Block
  <2>3. \E x \in Blocks(h) : x.id = w + 1
    <3>1. P = {x.id : x \in Blocks(h)}
      <4> HIDE DEF F, h, d
      <4>1. Mated(F, h, d)
        BY DEF F, h, d
      <4> QED BY <4>1, MatedFacts
    <3> HIDE DEF P
    <3> QED BY <1>6, <3>1
  <2>4. b.id = w + 1
    BY <1>6, <2>3 DEF Mated
  <2> QED BY <2>1, <2>2, <2>4
<1>8. announced = FILE_CHUNK <=> Small(b) /\ ~(DataP > Len(d))
  BY DEF announced, Small, DataEnd, FILE_HEADER, FILE_CHUNK
<1>9. announced = BIG_CHUNK <=> Large(b) /\ ~(DataP > Len(d))
  BY DEF announced, Large, DataEnd, FILE_HEADER, BIG_CHUNK
<1>10. ~(DataP > Len(d)) <=> DataP <= Len(d)
  <2>1. DataP \in 1 .. Len(d) + 1 /\ Len(d) \in Nat
    BY <1>2, MatedFacts DEF AtData
  <2> QED BY <2>1
<1> DEFINE out == outFile \o <<b>>
<1>11. /\ Copied(F, out) /\ Len(out) = w + 1
       /\ F \in Seq(Block) /\ Len(F) \in Nat /\ \A q \in P : q \in Int
       /\ out \o << >> = out
  <2>1. F \in Seq(Block) /\ Len(F) \in Nat /\ \A q \in P : q \in Int
    BY MatedFacts
  <2>2. <<b>> \in Seq(Block) /\ Len(<<b>>) = 1 /\ <<b>>[1] = b
    BY <1>6
  <2>3. \A j \in 1 .. 1 : <<b>>[j] = F[w + j]
    BY <1>6
  <2> HIDE DEF b, F
  <2>4. Copied(F, out) /\ Len(out) = w + 1
    <3>1. PICK t \in Seq(Block) : t = <<b>> /\ Len(t) = 1
      BY <2>2
    <3>2. \A j \in 1 .. Len(t) : t[j] = F[Len(outFile) + j]
      BY <2>3, <3>1
    <3>3. Len(outFile) + Len(t) <= Len(F)
      BY <1>6, <3>1
    <3>4. Copied(F, outFile \o t) /\ Len(outFile \o t) = Len(outFile) + Len(t)
      BY <1>2, <2>1, <3>2, <3>3, CopyMore
    <3> QED BY <3>1, <3>4
  <2>5. out \in Seq(Block)
    BY <1>5, <2>2
  <2> HIDE DEF out
  <2>6. out \o << >> = out
    BY <2>5
  <2> QED BY <2>1, <2>4, <2>6
<1>12. AtData(d, DataP, w + 1)
  BY <1>2, <1>5, <1>6, DataPastHeader
<1> HIDE DEF F, h, d, P, w, b
<1>13. Mated(F, h, d)
  BY DEF F, h, d
<1>14. /\ NoData(b) => AtNext(F, P, w + 1)
       /\ ~NoData(b) /\ DataP > Len(d) => w + 1 = Len(F)
       /\ Small(b) /\ DataP <= Len(d) =>
              /\ DataP \in 1 .. Len(d) /\ From(d[DataP]) = w + 2
              /\ AtData(d, DataP + 1, Until(d[DataP]))
              /\ AtNext(F, P, Until(d[DataP]))
              /\ \A q \in P : q <= w + 1 \/ q > Until(d[DataP])
       /\ Large(b) => Inside(F, P, d, w + 1, b.size)
  <2>1. PICK v \in Nat : v = w + 1
    BY <1>5
  <2>2. F[v] = b /\ v \in P /\ AtData(d, DataP, v) /\ v + 1 = w + 2
    BY <1>5, <1>6, <1>12, <2>1
  <2>3. /\ NoData(F[v]) => AtNext(F, P, v)
        /\ ~NoData(F[v]) /\ DataP > Len(d) => v = Len(F)
        /\ Small(F[v]) /\ DataP <= Len(d) =>
               /\ DataP \in 1 .. Len(d) /\ From(d[DataP]) = v + 1
               /\ AtData(d, DataP + 1, Until(d[DataP]))
               /\ AtNext(F, P, Until(d[DataP]))
               /\ \A q \in P : q <= v \/ q > Until(d[DataP])
        /\ Large(F[v]) => Inside(F, P, d, v, F[v].size)
    BY <1>13, <2>2, BehindHeader DEF P
  <2> QED BY <2>1, <2>2, <2>3
\* nothing is taken from the data recipe
<1>15. CASE ~(DataP <= Len(d)) \/ NoData(b)
  <2>1. announced # FILE_CHUNK /\ announced # BIG_CHUNK
    BY <1>8, <1>9, <1>10, <1>15 DEF NoData
  <2>2. outFile' = out /\ DataP' = DataP /\ restore' = "loop" /\ bigLeft' = bigLeft
    BY <1>1, <1>7, <1>11, <2>1 DEF s
  <2>3. AtNext(F, P, w + 1)
    BY <1>10, <1>14, <1>15 DEF AtNext
  <2>4. AtHeader(h, HeaderP, headers, k + 1, w + 1)
    <3>1. w + 1 \in Nat /\ w < w + 1 /\ \A q \in P : q <= w + 1 \/ q > w + 1
      BY <1>5, <1>11
    <3>2. headers[k + 1] = F[w + 1] /\ headers[k + 1].id = w + 1
      BY <1>4, <1>6, <1>7
    <3> QED BY <1>2, <1>4, <1>5, <1>6, <1>13, <3>1, <3>2, HeaderUsed DEF P
  <2>5. Following(F, h, d, "loop", out, HeaderP, headers, k + 1, DataP, bigLeft)
    BY <1>11, <1>12, <2>3, <2>4 DEF Following, P
  <2> QED BY <1>1, <1>4, <2>2, <2>5, WorkAfter DEF F, h, d
\* the chunk of a file
<1>16. CASE DataP <= Len(d) /\ Small(b)
  <2>1. announced = FILE_CHUNK /\ announced # BIG_CHUNK
    BY <1>8, <1>10, <1>16 DEF FILE_CHUNK, BIG_CHUNK
  <2> DEFINE c == d[DataP]
             t == c.data
             v == Until(c)
  <2>2. /\ outFile' = out \o t /\ DataP' = DataP + 1 /\ restore' = "loop"
        /\ bigLeft' = bigLeft
    BY <1>1, <1>7, <2>1 DEF s
  <2>3. /\ DataP \in 1 .. Len(d) /\ From(c) = w + 2
        /\ AtData(d, DataP + 1, v) /\ AtNext(F, P, v)
        /\ \A q \in P : q <= w + 1 \/ q > v
    BY <1>14, <1>16
  <2>4. /\ v \in Int /\ From(c) <= v /\ v <= Len(F)
        /\ t \in Seq(Block) /\ Len(t) = v - From(c) + 1
        /\ \A j \in 1 .. Len(t) : t[j] = F[From(c) + j - 1]
    <3>1. PICK i \in 1 .. Len(d) : i = DataP
      BY <2>3
    <3>2. /\ Until(d[i]) \in Int /\ From(d[i]) <= Until(d[i]) /\ Until(d[i]) <= Len(F)
          /\ d[i].data \in Seq(Block)
          /\ Len(d[i].data) = Until(d[i]) - From(d[i]) + 1
          /\ \A j \in 1 .. Len(d[i].data) : d[i].data[j] = F[From(d[i]) + j - 1]
      BY <1>13, MatedFacts
    <3> QED BY <3>1, <3>2
  <2> HIDE DEF c, t, v
  <2>5. Copied(F, out \o t) /\ Len(out \o t) = v
    <3> HIDE DEF out
    <3>1. Len(out) + Len(t) = v
      BY <1>5, <1>11, <2>3, <2>4
    <3>2. ASSUME NEW j \in 1 .. Len(t) PROVE t[j] = F[Len(out) + j]
      <4>1. From(c) + j - 1 = Len(out) + j
        BY <1>5, <1>11, <2>3, <2>4
      <4> QED BY <2>4, <4>1
    <3> QED BY <1>11, <2>4, <3>1, <3>2, CopyMore
  <2>6. AtHeader(h, HeaderP, headers, k + 1, v)
    <3>1. v \in Nat /\ w < v
      BY <1>5, <2>3, <2>4
    <3>2. headers[k + 1] = F[w + 1] /\ headers[k + 1].id = w + 1
      BY <1>4, <1>6, <1>7
    <3> QED BY <1>2, <1>4, <1>5, <1>6, <1>13, <2>3, <3>1, <3>2, HeaderUsed DEF P
  <2>7. Following(F, h, d, "loop", out \o t, HeaderP, headers, k + 1, DataP + 1, bigLeft)
    BY <2>3, <2>5, <2>6 DEF Following, P
  <2> QED BY <1>1, <1>4, <2>2, <2>7, WorkAfter DEF F, h, d
\* a big file
<1>17. CASE DataP <= Len(d) /\ Large(b)
  <2>1. announced # FILE_CHUNK /\ announced = BIG_CHUNK
    BY <1>9, <1>10, <1>17 DEF FILE_CHUNK, BIG_CHUNK
  <2>2. outFile' = out /\ DataP' = DataP /\ restore' = "big" /\ bigLeft' = b.size
    BY <1>1, <1>7, <1>11, <2>1 DEF s
  <2>3. Inside(F, P, d, w + 1, b.size)
    BY <1>14, <1>17
  <2>4. AtHeader(h, HeaderP, headers, k + 1, w + 1)
    <3>1. w + 1 \in Nat /\ w < w + 1 /\ \A q \in P : q <= w + 1 \/ q > w + 1
      BY <1>5, <1>11
    <3>2. headers[k + 1] = F[w + 1] /\ headers[k + 1].id = w + 1
      BY <1>4, <1>6, <1>7
    <3> QED BY <1>2, <1>4, <1>5, <1>6, <1>13, <3>1, <3>2, HeaderUsed DEF P
  <2>5. Following(F, h, d, "big", out, HeaderP, headers, k + 1, DataP, b.size)
    BY <1>11, <1>12, <2>3, <2>4 DEF Following, P
  <2> QED BY <1>1, <1>4, <1>7, <2>2, <2>5, WorkAfter DEF F, h, d
<1> QED BY <1>15, <1>16, <1>17 DEF NoData

-----------------------------------------------------------------------------
(* A big file, and the ends of the loops *)

\* Up to block v no other header comes.
LEMMA HeaderStays ==
    ASSUME NEW F, NEW h, NEW d, Mated(F, h, d),
           NEW hp, NEW hs, NEW k, NEW w \in Nat, AtHeader(h, hp, hs, k, w),
           NEW v \in Nat, w <= v, \A q \in Positions(h, << >>) : q <= w \/ q > v
    PROVE  AtHeader(h, hp, hs, k, v)
<1>1. ASSUME NEW m \in DOMAIN h, NEW j \in DOMAIN h[m].data
      PROVE  h[m].data[j].id <= v <=> Used(hp, k, m, j)
  <2> DEFINE q == h[m].data[j].id
  <2>1. q \in Positions(h, << >>)
    BY DEF Positions, Blocks, Range
  <2>2. q \in Int
    BY <2>1, MatedFacts
  <2>3. q <= w <=> Used(hp, k, m, j)
    BY DEF AtHeader
  <2> HIDE DEF q
  <2>4. q <= v <=> q <= w
    BY <2>1, <2>2
  <2> QED BY <2>3, <2>4 DEF q
<1> QED BY <1>1 DEF AtHeader

LEMMA FollowBig ==
    ASSUME Mated(files[restored], recipeH[restored], recipeD[restored]),
           FollowInv, NEW k, AtWork(k), RestoreBig
    PROVE  FollowInv'
<1> DEFINE F == files[restored]
           h == recipeH[restored]
           d == recipeD[restored]
           P == Positions(h, << >>)
           w == Len(outFile)
           t == d[DataP].data
           v == Until(d[DataP])
<1>1. /\ restore = "big" /\ bigLeft # 0
      /\ outFile' = outFile \o t /\ bigLeft' = bigLeft - Len(t) /\ DataP' = DataP + 1
      /\ UNCHANGED <<files, recipeH, recipeD, restored, restore, HeaderP, headers, offset>>
  BY DEF RestoreBig, chunkerVars
<1>2. /\ Copied(F, outFile) /\ AtHeader(h, HeaderP, headers, k, w) /\ AtData(d, DataP, w)
      /\ Inside(F, P, d, w, bigLeft) /\ k \in Nat /\ offset = HeaderSize * k
  BY <1>1 DEF AtWork, Following
<1>3. w \in Nat /\ outFile \in Seq(Block)
  <2>1. outFile \in Seq(Block)
    BY <1>2 DEF Copied
  <2> QED BY <2>1, SeqFacts
<1> HIDE DEF F, h, d, P, w
<1>4. Mated(F, h, d)
  BY DEF F, h, d
<1>5. /\ DataP \in 1 .. Len(d) /\ From(d[DataP]) = w + 1
      /\ AtData(d, DataP + 1, v) /\ Inside(F, P, d, v, bigLeft - Len(t))
  BY <1>1, <1>2, <1>3, <1>4, NextOfBig DEF P
<1>6. /\ v \in Int /\ w + 1 <= v /\ v <= Len(F) /\ Len(F) \in Nat /\ F \in Seq(Block)
      /\ t \in Seq(Block) /\ Len(t) = v - w
      /\ \A j \in 1 .. Len(t) : t[j] = F[w + j]
  <2>1. PICK i \in 1 .. Len(d) : i = DataP
    BY <1>5
  <2>2. /\ Until(d[i]) \in Int /\ From(d[i]) <= Until(d[i]) /\ Until(d[i]) <= Len(F)
        /\ Len(F) \in Nat /\ F \in Seq(Block) /\ d[i].data \in Seq(Block)
        /\ Len(d[i].data) = Until(d[i]) - From(d[i]) + 1
        /\ \A j \in 1 .. Len(d[i].data) : d[i].data[j] = F[From(d[i]) + j - 1]
    BY <1>4, MatedFacts
  <2>3. /\ v \in Int /\ w + 1 <= v /\ v <= Len(F) /\ Len(t) = v - (w + 1) + 1
        /\ \A j \in 1 .. Len(t) : t[j] = F[w + 1 + j - 1]
    BY <1>5, <2>1, <2>2
  <2>4. v - (w + 1) + 1 = v - w /\ v - w \in Int
    BY <1>3, <2>3
  <2>5. \A j \in 1 .. Len(t) : w + 1 + j - 1 = w + j
    BY <1>3, <2>3, <2>4
  <2> QED BY <2>1, <2>2, <2>3, <2>4, <2>5
<1> HIDE DEF t, v
<1>7. Copied(F, outFile \o t) /\ Len(outFile \o t) = v
  <2>1. w + Len(t) = v
    BY <1>3, <1>6
  <2> QED BY <1>2, <1>6, <2>1, CopyMore DEF w
<1>8. AtHeader(h, HeaderP, headers, k, v)
  <2>1. v \in Nat /\ w <= v
    BY <1>3, <1>6
  <2>2. \A q \in P : q <= w \/ q > v
    <3>1. /\ bigLeft \in Nat /\ bigLeft - Len(t) \in Nat
          /\ \A q \in P : q <= w \/ q > w + bigLeft
      BY <1>2, <1>5 DEF Inside
    <3>2. v <= w + bigLeft
      BY <1>3, <1>6, <3>1
    <3>3. \A q \in P : q \in Int
      BY <1>4, MatedFacts DEF P
    <3> QED BY <1>3, <1>6, <3>1, <3>2, <3>3
  <2> QED BY <1>2, <1>3, <1>4, <2>1, <2>2, HeaderStays DEF P
<1>9. bigLeft - Len(t) \in Nat
  BY <1>5 DEF Inside
<1>10. Following(F, h, d, "big", outFile \o t, HeaderP, headers, k, DataP + 1,
                 bigLeft - Len(t))
  BY <1>5, <1>7, <1>8 DEF Following, P
<1> QED BY <1>1, <1>2, <1>9, <1>10, WorkAfter DEF F, h, d

LEMMA FollowEndBig ==
    ASSUME FollowInv, NEW k, AtWork(k), EndBigFile
    PROVE  FollowInv'
<1> DEFINE F == files[restored]
           h == recipeH[restored]
           d == recipeD[restored]
           P == Positions(h, << >>)
           w == Len(outFile)
<1>1. /\ restore = "big" /\ restore' = "loop" /\ bigLeft = 0
      /\ UNCHANGED <<files, recipeH, recipeD, restored, HeaderP, DataP, headers, offset,
                     bigLeft, outFile>>
  BY DEF EndBigFile, chunkerVars
<1>2. /\ Copied(F, outFile) /\ AtHeader(h, HeaderP, headers, k, w) /\ AtData(d, DataP, w)
      /\ AtNext(F, P, w + 0) /\ k \in Nat /\ offset = HeaderSize * k
  BY <1>1 DEF AtWork, Following, Inside
<1>3. w \in Nat
  BY <1>2, SeqFacts DEF Copied
<1>4. w + 0 = w
  BY <1>3
<1>5. Following(F, h, d, "loop", outFile, HeaderP, headers, k, DataP, 0)
  BY <1>2, <1>4 DEF Following
<1> QED BY <1>1, <1>2, <1>5, WorkAfter DEF F, h, d

\* A big file's chunks are all there.
LEMMA NoReadPast ==
    ASSUME Mated(files[restored], recipeH[restored], recipeD[restored]),
           NEW k, AtWork(k)
    PROVE  ~ReadPastRecipe
<1> SUFFICES ASSUME ReadPastRecipe PROVE FALSE
  OBVIOUS
<1> DEFINE F == files[restored]
           h == recipeH[restored]
           d == recipeD[restored]
           w == Len(outFile)
<1>1. restore = "big" /\ bigLeft # 0 /\ DataP > Len(d)
  BY DEF ReadPastRecipe, DataEnd
<1>2. AtData(d, DataP, w) /\ Inside(F, Positions(h, << >>), d, w, bigLeft)
      /\ Copied(F, outFile)
  BY <1>1 DEF AtWork, Following
<1>3. w \in Nat
  BY <1>2, SeqFacts DEF Copied
<1> HIDE DEF F, h, d, w
<1>4. Mated(F, h, d)
  BY DEF F, h, d
<1>5. DataP \in 1 .. Len(d) /\ Len(d) \in Nat
  BY <1>1, <1>2, <1>3, <1>4, NextOfBig, MatedFacts
<1> QED BY <1>1, <1>5

LEMMA FollowEnd ==
    ASSUME Mated(files[restored], recipeH[restored], recipeD[restored]),
           FollowInv, NEW k, AtWork(k), EndRestore
    PROVE  FollowInv'
<1> DEFINE F == files[restored]
           h == recipeH[restored]
           d == recipeD[restored]
           P == Positions(h, << >>)
           w == Len(outFile)
<1>1. /\ restore = "loop" /\ restore' = "idle" /\ bigLeft \in Nat
      /\ UNCHANGED <<files, recipeH, recipeD, restored, HeaderP, DataP, headers, offset,
                     bigLeft, outFile>>
      /\ \/ HeaderEnd /\ Bytes(headers) = offset
         \/ offset >= Bytes(headers) /\ ~(offset = Bytes(headers) /\ ~HeaderEnd)
  BY DEF EndRestore, Unfinished, MultiHeaderChunkSize, chunkerVars, FollowInv
<1>2. /\ Copied(F, outFile) /\ AtHeader(h, HeaderP, headers, k, w) /\ AtData(d, DataP, w)
      /\ AtNext(F, P, w) /\ k \in Nat /\ offset = 2 * k
  BY <1>1 DEF AtWork, Following, HeaderSize
<1>3. headers \in Seq(Block) /\ Whole(headers) /\ k \in 0 .. Len(headers)
  BY <1>2 DEF AtHeader
<1>4. Bytes(headers) = 2 * Len(headers) /\ Len(headers) \in Nat
  BY <1>3, BytesFacts DEF HeaderSize
<1>5. k = Len(headers) /\ HeaderEnd
  <2>1. k <= Len(headers)
    BY <1>3, <1>4
  <2>2. offset = Bytes(headers)
    BY <1>1, <1>2, <1>4, <2>1
  <2> QED BY <1>1, <1>2, <1>4, <2>2
<1>6. HeaderP > Len(h)
  BY <1>5 DEF HeaderEnd
<1> HIDE DEF F, h, d, P, w
<1>7. Mated(F, h, d)
  BY DEF F, h, d
<1>8. outFile = F /\ DataP > Len(d)
  BY <1>2, <1>5, <1>6, <1>7, AllDone DEF P, w
<1>9. outFile' = files[restored]' /\ HeaderEnd' /\ DataEnd'
  BY <1>1, <1>6, <1>8 DEF F, h, d, HeaderEnd, DataEnd
<1>10. offset' = HeaderSize * Len(headers') /\ headers' \in Seq(Block) /\ Whole(headers')
  BY <1>1, <1>2, <1>3, <1>5 DEF HeaderSize
<1> QED BY <1>1, <1>9, <1>10 DEF FollowInv

LEMMA FollowStart ==
    ASSUME FollowInv, StartRestore,
           Mated(files[restored + 1], recipeH[restored + 1], recipeD[restored + 1])
    PROVE  FollowInv'
<1> DEFINE F == files[restored + 1]
           h == recipeH[restored + 1]
           d == recipeD[restored + 1]
<1>1. /\ restore = "idle" /\ restore' = "loop" /\ restored' = restored + 1
      /\ HeaderP' = 1 /\ DataP' = 1 /\ outFile' = << >>
      /\ UNCHANGED <<files, recipeH, recipeD, headers, offset, bigLeft>>
  BY DEF StartRestore, chunkerVars
<1>2. headers \in Seq(Block) /\ Whole(headers) /\ offset = HeaderSize * Len(headers)
      /\ bigLeft \in Nat
  BY <1>1 DEF FollowInv
<1>3. Len(headers) \in Nat /\ Len(<< >>) = 0
  BY <1>2, SeqFacts
<1>4. Following(F, h, d, "loop", << >>, 1, headers, Len(headers), 1, bigLeft)
  <2> HIDE DEF F, h, d
  <2>1. Mated(F, h, d)
    BY DEF F, h, d
  <2>2. /\ AtHeader(h, 1, headers, Len(headers), 0) /\ AtData(d, 1, 0)
        /\ Copied(F, << >>) /\ AtNext(F, Positions(h, << >>), 0)
    BY <1>2, <2>1, Started
  <2> QED BY <1>3, <2>2 DEF Following
<1>5. F = files'[restored'] /\ h = recipeH'[restored'] /\ d = recipeD'[restored']
  BY <1>1
<1> HIDE DEF F, h, d
<1>6. AtWork(Len(headers))'
  BY <1>1, <1>2, <1>3, <1>4, <1>5 DEF AtWork
<1> QED BY <1>1, <1>2, <1>6 DEF FollowInv

-----------------------------------------------------------------------------
(* The restorer follows the chunker *)

LEMMA WovenInit ==
    ASSUME Init
    PROVE  WovenInv
<1>1. Done = 0 /\ 1 \in 1 .. backupNum
  BY InitStep, ConstantFacts DEF Init
<1>2. /\ recipeH = [b \in 1 .. backupNum |-> << >>] /\ backup = 1
      /\ recipeD = [b \in 1 .. backupNum |-> << >>] /\ headerBuffer = << >>
      /\ next.type = FILE_HEADER /\ chunker = "read"
  BY DEF Init, ChunkerInit
<1>3. recipeH[backup] = << >> /\ recipeD[backup] = << >>
  BY <1>1, <1>2
<1>4. WeaveInv
  <2>1. /\ Woven(File, Positions(<< >>, << >>), << >>, 0)
        /\ Expected(File, Positions(<< >>, << >>), 0, next)
    BY <1>2, WeaveInit
  <2>2. chunker # "multi"
    BY <1>2
  <2> QED BY <1>1, <1>2, <1>3, <2>1, <2>2 DEF WeaveInv
<1>5. InOrder(recipeH[backup], headerBuffer)
  BY <1>2, <1>3, WeaveInit
<1>6. 1 .. backup - 1 = {}
  BY <1>2
<1> QED BY <1>4, <1>5, <1>6 DEF WovenInv

LEMMA RestoreInit ==
    ASSUME Init
    PROVE  RestoreInv
<1>1. /\ restore = "idle" /\ restored = 0 /\ headers = << >> /\ offset = 0 /\ bigLeft = 0
      /\ backupNum \in Nat
  BY ConstantFacts DEF Init
<1>2. FollowInv
  <2>1. << >> \in Seq(Block) /\ Len(<< >>) = 0 /\ Whole(<< >>)
    BY DEF Whole
  <2> QED BY <1>1, <2>1 DEF FollowInv, HeaderSize
<1> QED BY <1>1, <1>2 DEF RestoreInv

\* While the chunker works, the restorer waits.
LEMMA WaitStep ==
    ASSUME ChunkerInv, RestoreInv, ChunkerNext, UNCHANGED restoreVars
    PROVE  RestoreInv'
<1>1. UNCHANGED <<restore, restored, headers, offset, bigLeft>>
  BY DEF restoreVars
<1>2. restored = 0
  <2> SUFFICES ASSUME restored # 0 PROVE FALSE
    OBVIOUS
  <2>1. restored \in 0 .. backupNum /\ backupNum \in Nat
    BY ConstantFacts DEF RestoreInv
  <2>2. chunker = "closed" /\ backup = backupNum
    BY <2>1 DEF RestoreInv
  <2>3. LoadChunkFile
    BY <2>2 DEF ChunkerNext, Cut, ReadWindow, StartSegment, EndWindow, CutHeader, CutEmpty,
       CopyNegative, CutData, PushHeaders, CutBig, EndBig
  <2> QED BY <2>1, <2>2, <2>3 DEF LoadChunkFile
<1>3. /\ restore = "idle" /\ headers = << >> /\ offset = 0 /\ bigLeft = 0
      /\ backupNum \in Nat
  BY <1>2, ConstantFacts DEF RestoreInv
<1>4. FollowInv'
  <2>1. << >> \in Seq(Block) /\ Len(<< >>) = 0 /\ Whole(<< >>)
    BY DEF Whole
  <2> QED BY <1>1, <1>2, <1>3, <2>1 DEF FollowInv, HeaderSize
<1> QED BY <1>1, <1>2, <1>3, <1>4 DEF RestoreInv

LEMMA RestoreStep ==
    ASSUME ChunkerInv, RecipesInv, WovenInv, RestoreInv, RestoreNext
    PROVE  RestoreInv'
<1>1. UNCHANGED <<files, backup, chunker, recipeH, recipeD>>
  BY DEF RestoreNext, StartRestore, Refill, RestoreHeader, RestoreBig, EndBigFile,
     EndRestore, ReadPastRecipe, chunkerVars
<1>2. restored \in 0 .. backupNum /\ backupNum \in Nat /\ restored \in Nat
  BY ConstantFacts DEF RestoreInv
<1>3. AllAgree' = AllAgree
  BY <1>1 DEF AllAgree, HeadersAgree
<1>4. CASE StartRestore
  <2>1. /\ chunker = "closed" /\ backup = backupNum /\ restored < backupNum
        /\ restored' = restored + 1
    BY <1>4 DEF StartRestore
  <2>2. restored + 1 \in 1 .. backupNum /\ restored' > 0 /\ restored' \in 0 .. backupNum
        /\ restored' # 0
    BY <1>2, <2>1
  <2>3. ASSUME AllAgree PROVE FollowInv'
    <3>1. FollowInv /\ HeadersAgree(restored + 1)
      BY <2>2, <2>3 DEF RestoreInv, AllAgree
    <3>2. Mated(files[restored + 1], recipeH[restored + 1], recipeD[restored + 1])
      BY <2>1, <2>2, <3>1, RestoredMated
    <3> QED BY <1>4, <3>1, <3>2, FollowStart
  <2> QED BY <1>1, <1>3, <2>1, <2>2, <2>3 DEF RestoreInv
<1>5. CASE Refill \/ RestoreHeader \/ RestoreBig \/ EndBigFile \/ EndRestore \/ ReadPastRecipe
  <2>1. restored' = restored /\ restore # "idle"
    BY <1>5 DEF Refill, RestoreHeader, RestoreBig, EndBigFile, EndRestore, ReadPastRecipe
  <2>2. restored # 0 /\ restored > 0 /\ restored \in 1 .. backupNum
        /\ chunker = "closed" /\ backup = backupNum
    BY <1>2, <2>1 DEF RestoreInv
  <2>3. ASSUME AllAgree PROVE FollowInv'
    <3>1. FollowInv /\ HeadersAgree(restored)
      BY <2>2, <2>3 DEF RestoreInv, AllAgree
    <3>2. PICK k : AtWork(k)
      BY <2>1, <3>1 DEF FollowInv
    <3>3. Mated(files[restored], recipeH[restored], recipeD[restored])
      BY <2>2, <3>1, RestoredMated
    <3> QED BY <1>5, <3>1, <3>2, <3>3, FollowRefill, FollowHeader, FollowBig,
               FollowEndBig, FollowEnd, NoReadPast
  <2> QED BY <1>1, <1>2, <1>3, <2>1, <2>2, <2>3 DEF RestoreInv
<1> QED BY <1>4, <1>5 DEF RestoreNext

LEMMA RestoreSame ==
    ASSUME RestoreInv, UNCHANGED vars
    PROVE  RestoreInv'
<1>1. UNCHANGED <<files, backup, chunker, recipeH, recipeD, restore, restored, HeaderP,
                  DataP, headers, offset, bigLeft, outFile>>
  BY DEF vars, chunkerVars, restoreVars
<1>2. AllAgree' = AllAgree
  BY <1>1 DEF AllAgree, HeadersAgree
<1>3. ASSUME FollowInv PROVE FollowInv'
  <2>1. HeaderEnd' = HeaderEnd /\ DataEnd' = DataEnd
    BY <1>1 DEF HeaderEnd, DataEnd
  <2>2. ASSUME NEW k, AtWork(k) PROVE AtWork(k)'
    BY <1>1, <2>2 DEF AtWork
  <2> QED BY <1>1, <1>3, <2>1, <2>2 DEF FollowInv
<1> QED BY <1>1, <1>2, <1>3 DEF RestoreInv

\* Whatever windows and segments do, and even where data was cut as headers,
\* the restorer follows the chunker (datawrite.cc:283): as long as both parsers
\* read alike what was cut as a header, each backup is written back as it was,
\* both recipes are used up, and the loop over a big file ends at its last
\* chunk.  The chunker takes a file for big where the restorer does, which cuts
\* at the size of a container, and the headers of a segment are fewer than a
\* container's blocks.
THEOREM TarRoundTrip ==
    ASSUME Options
    PROVE  Spec /\ []BigFilesWhole => []RoundTripFollowed
<1>1. Init => RecipesInv /\ WovenInv /\ RestoreInv
  BY RecipesInit, WovenInit, RestoreInit
<1>2. ChunkerInv /\ BigFilesWhole /\ RecipesInv /\ [Next]_vars => RecipesInv'
  BY RecipesStep
<1>3. ChunkerInv /\ BigFilesWhole /\ RecipesInv /\ WovenInv /\ [Next]_vars => WovenInv'
  BY WovenStep
<1>4. ChunkerInv /\ RecipesInv /\ WovenInv /\ RestoreInv /\ [Next]_vars => RestoreInv'
  BY WaitStep, RestoreStep, RestoreSame DEF Next
<1>5. RestoreInv => RoundTripFollowed
  <2> SUFFICES ASSUME RestoreInv, \A f \in 1 .. backupNum : HeadersAgree(f)
               PROVE  RoundTrip /\ EndsWhenConsumed /\ BigFileExact
    BY DEF RoundTripFollowed
  <2>1. FollowInv
    BY DEF RestoreInv, AllAgree
  <2>2. restore # "undefined" /\ bigLeft >= 0
    BY <2>1 DEF FollowInv
  <2>3. ASSUME AfterRestore PROVE outFile = files[restored] /\ ~Unfinished
    <3>1. /\ outFile = files[restored] /\ HeaderEnd /\ DataEnd
          /\ headers \in Seq(Block) /\ Whole(headers) /\ offset = HeaderSize * Len(headers)
      BY <2>1, <2>3 DEF FollowInv, AfterRestore
    <3>2. Bytes(headers) = offset
      BY <3>1, BytesFacts
    <3> QED BY <3>1, <3>2 DEF Unfinished, MultiHeaderChunkSize
  <2> QED BY <2>2, <2>3 DEF RoundTrip, EndsWhenConsumed, BigFileExact
<1> QED BY <1>1, <1>2, <1>3, <1>4, <1>5, ChunkerInvariant, PTL DEF Spec
=============================================================================
