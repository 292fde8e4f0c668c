--------------------------- MODULE WindowsProofs ---------------------------
(***************************************************************************)
(* What MCWindows checks on files of a few bytes, for files of any length  *)
(* and content, any window and any chunk sizes: the content-defined modes  *)
(* never cut outside the window, a closed file is cut up whole, and where  *)
(* FastCDC cuts does not depend on the windows.  Fixed-size cuts do leave  *)
(* the file at its end; of those it is shown that the loop then never ends *)
(* as if nothing had happened.                                             *)
(***************************************************************************)
EXTENDS Windows, WellFoundedInduction, TLAPS

-----------------------------------------------------------------------------
(* Numbers and sequences *)

\* A subtraction that does not wrap around, and one that does.
LEMMA MinusFacts ==
    ASSUME NEW a \in Nat, NEW b \in Nat, a < SizeRange, b < SizeRange
    PROVE  /\ b <= a => Minus(a, b) = a - b
           /\ a < b => Minus(a, b) = SizeRange - (b - a)
BY WindowsAssumption DEF Minus

\* A nonempty set of numbers has a least one.
LEMMA LeastHit ==
    ASSUME NEW T \in SUBSET Nat, T # {}
    PROVE  (CHOOSE x \in T : \A y \in T : x <= y) \in T
<1> DEFINE R == {ss \in Nat \X Nat : ss[1] < ss[2]}
<1>1. IsWellFoundedOn(R, Nat)
  BY NatLessThanWellFounded DEF OpToRel
<1>2. \E x \in T : \A y \in T : <<y, x>> \notin R
  <2> HIDE DEF R
  <2> QED BY <1>1, WFMin
<1>3. ASSUME NEW x \in T, NEW y \in T, <<y, x>> \notin R
      PROVE  x <= y
  BY <1>3
<1> QED BY <1>2, <1>3

Piece == [at : Nat, size : Nat]

\* One more chunk at the end of the list.
LEMMA AppendPiece ==
    ASSUME NEW s \in Seq(Piece), NEW e \in Piece
    PROVE  /\ Append(s, e) \in Seq(Piece)
           /\ Append(s, e) # <<>>
           /\ Len(s) \in Nat
           /\ DOMAIN s = 1 .. Len(s)
           /\ Len(Append(s, e)) = Len(s) + 1
           /\ DOMAIN Append(s, e) = 1 .. Len(s) + 1
           /\ \A i \in 1 .. Len(s) : Append(s, e)[i] = s[i]
           /\ Append(s, e)[Len(s) + 1] = e
           /\ s = <<>> <=> Len(s) = 0
           /\ \A i \in 1 .. Len(s) : s[i] \in Piece
BY SMT

-----------------------------------------------------------------------------
(* Cut points *)

\* What the rolling hash finds first lies where it is searched.
LEMMA FirstHitFacts ==
    ASSUME NEW src \in Nat, NEW from \in Nat, NEW to \in Nat, from <= to, NEW mask
    PROVE  FirstHit(src, from, to, mask) \in from .. to
<1> DEFINE hits == {i \in from .. to - 1 : marks[src + i + 1] >= mask}
<1>1. hits \in SUBSET Nat
  OBVIOUS
<1>2. hits # {} => (CHOOSE i \in hits : \A j \in hits : i <= j) \in hits
  <2> HIDE DEF hits
  <2> QED BY <1>1, LeastHit
<1>3. CASE hits = {}
  BY <1>3 DEF FirstHit
<1>4. CASE hits # {}
  <2> DEFINE h == CHOOSE i \in hits : \A j \in hits : i <= j
  <2>1. FirstHit(src, from, to, mask) = h
    BY <1>4 DEF FirstHit
  <2>2. h \in from .. to - 1
    BY <1>2, <1>4
  <2> HIDE DEF h
  <2> QED BY <2>1, <2>2
<1> QED BY <1>3, <1>4

LEMMA NormalSizeFacts == normalSize \in Nat /\ normalSize <= maxChunkSize
<1> DEFINE off == MinOf(minChunkSize + DivCeil(minChunkSize, 2), avgChunkSize)
<1>1. DivCeil(minChunkSize, 2) \in Nat
  BY WindowsAssumption DEF DivCeil
<1>2. off \in Nat /\ off <= avgChunkSize
  BY <1>1, WindowsAssumption DEF MinOf
<1>3. normalSize = MinOf(avgChunkSize - off, maxChunkSize)
  BY DEF normalSize, CalNormalSize
<1> HIDE DEF off
<1> QED BY <1>2, <1>3, WindowsAssumption DEF MinOf

\* The three lengths at which FastCDC changes its mask.
Starts(l) == MinOf(l, minChunkSize)
Normal(l) == MaxOf(Starts(l), MinOf(normalSize, l))
Ends(l)   == MaxOf(Normal(l), MinOf(maxChunkSize, l))

LEMMA LimitFacts ==
    ASSUME NEW l \in Nat
    PROVE  /\ Starts(l) \in Nat /\ Normal(l) \in Nat /\ Ends(l) \in Nat
           /\ Starts(l) <= Normal(l) /\ Normal(l) <= Ends(l) /\ Ends(l) <= l
BY NormalSizeFacts, WindowsAssumption DEF Starts, Normal, Ends, MinOf, MaxOf

\* Where the longest chunk fits they do not depend on what is left.
LEMMA LimitsFixed ==
    ASSUME NEW l \in Nat, NEW k \in Nat, maxChunkSize <= l, maxChunkSize <= k
    PROVE  Starts(l) = Starts(k) /\ Normal(l) = Normal(k) /\ Ends(l) = Ends(k)
BY NormalSizeFacts, WindowsAssumption DEF Starts, Normal, Ends, MinOf, MaxOf

LEMMA FastCDCFacts ==
    ASSUME NEW src \in Nat, NEW l \in Nat
    PROVE  CutPointFastCDC(src, l) \in 0 .. l
<1> DEFINE i == Starts(l)
           n == Normal(l)
           m == Ends(l)
           s == FirstHit(src, i, n, 2)
           h == FirstHit(src, n, m, 1)
<1>1. /\ i \in Nat /\ n \in Nat /\ m \in Nat
      /\ i <= n /\ n <= m /\ m <= l
  BY LimitFacts
<1>2. s \in i .. n /\ h \in n .. m
  <2> HIDE DEF i, n, m
  <2> QED BY <1>1, FirstHitFacts
<1>3. CutPointFastCDC(src, l) =
          CASE s < n -> s + 1 [] s = n /\ h < m -> h + 1 [] OTHER -> m
  BY DEF CutPointFastCDC, Starts, Normal, Ends
<1> HIDE DEF i, n, m, s, h
<1> QED BY <1>1, <1>2, <1>3

\* Where the longest chunk fits, FastCDC cuts at the same byte whatever else
\* the window holds.
LEMMA FastCDCFixed ==
    ASSUME NEW src, NEW l \in Nat, NEW k \in Nat, maxChunkSize <= l, maxChunkSize <= k
    PROVE  CutPointFastCDC(src, l) = CutPointFastCDC(src, k)
BY LimitsFixed DEF CutPointFastCDC, Starts, Normal, Ends

LEMMA GearFacts ==
    ASSUME NEW src \in Nat, NEW l \in Nat
    PROVE  CutPointGear(src, l) \in 0 .. l
<1>1. FirstHit(src, 0, l, 1) \in 0 .. l
  BY FirstHitFacts
<1> QED BY <1>1 DEF CutPointGear, MinOf

\* The content-defined modes cut what is left of the window.
LEMMA CutPointFacts ==
    ASSUME chunkType \in ChunkType, NEW src \in Nat, NEW l \in Nat
    PROVE  /\ CutPoint(src, l) \in Nat
           /\ chunkType # "FIXED_SIZE" => CutPoint(src, l) <= l
           /\ chunkType = "FIXED_SIZE" => CutPoint(src, l) = avgChunkSize
BY FastCDCFacts, GearFacts, WindowsAssumption DEF ChunkType, CutPoint

-----------------------------------------------------------------------------
(* The windows *)

TypeOK ==
    /\ chunkType \in ChunkType
    /\ fileLen \in Nat
    /\ chunker \in {"read", "cut", "closed", "undefined"}
    /\ totalOffset \in Nat /\ len \in Nat /\ localOffset \in Nat
    /\ end \in BOOLEAN
    /\ chunks \in Seq(Piece)

\* the window holds what the file has there
WindowOK ==
    /\ len <= Window
    /\ totalOffset + len <= fileLen
    /\ end => totalOffset + len = fileLen

\* Only a fixed-size cut leaves the window, at the file's end and by less than
\* a chunk.
OffsetOK ==
    \/ localOffset <= len
    \/ chunkType = "FIXED_SIZE" /\ end /\ localOffset < len + avgChunkSize

WindowsInv ==
    /\ TypeOK
    /\ chunker = "read" => totalOffset <= fileLen /\ CutUp(chunks, totalOffset)
    /\ chunker = "cut" => WindowOK /\ OffsetOK /\ CutUp(chunks, totalOffset + localOffset)
    /\ chunker = "closed" => CutUp(chunks, fileLen)
    /\ chunker = "undefined" => chunkType = "FIXED_SIZE"
    /\ WindowIndependent

\* What keeps its input keeps its cut points, too.
LEMMA CutPointStays ==
    ASSUME UNCHANGED input, NEW src, NEW l
    PROVE  CutPoint(src, l)' = CutPoint(src, l)
BY DEF input, CutPoint, CutPointFastCDC, CutPointGear, FirstHit, normalSize

LEMMA WindowFacts ==
    /\ Window \in Nat /\ Window > 0 /\ Reserve <= Window
    /\ SizeRange \in Nat /\ 2 * Window < SizeRange
    /\ avgChunkSize \in Nat /\ avgChunkSize <= Reserve /\ Reserve \in Nat
    /\ maxChunkSize \in Nat /\ maxChunkSize <= Reserve
BY WindowsAssumption DEF Window

\* A window is read where cutting stopped.
LEMMA ReadStep ==
    ASSUME WindowsInv, Read
    PROVE  WindowsInv'
<1>1. /\ TypeOK /\ totalOffset <= fileLen /\ CutUp(chunks, totalOffset)
      /\ UNCHANGED <<input, totalOffset, chunks>>
  BY DEF WindowsInv, Read
<1> DEFINE rest == fileLen - totalOffset
<1>2. rest \in Nat /\ len' = MinOf(Window, rest)
  BY <1>1 DEF TypeOK, Read
<1>0. (end' = TRUE /\ rest < Window) \/ (end' = FALSE /\ ~(rest < Window))
  <2>1. end' = (rest < Window)
    BY DEF Read
  <2> DEFINE short == rest < Window
  <2>2. end' = short
    BY <2>1
  <2> HIDE DEF short
  <2>3. CASE short = TRUE
    BY <2>2, <2>3, Zenon DEF short
  <2>4. CASE short = FALSE
    BY <2>2, <2>4, Zenon DEF short
  <2>5. short \in BOOLEAN
    BY DEF short
  <2> QED BY <2>3, <2>4, <2>5, Zenon
<1> HIDE DEF rest
<1>3. len' \in Nat /\ len' <= Window /\ len' <= rest /\ (len' = 0 => rest = 0)
  BY <1>2, WindowFacts DEF MinOf
<1>31. ASSUME end' PROVE len' = rest
  BY <1>0, <1>2, <1>31, WindowFacts DEF MinOf
<1> USE DEF rest
<1>4. end' \in BOOLEAN
  BY <1>0
<1>5. WindowIndependent'
  BY <1>1, CutPointStays DEF WindowsInv, WindowIndependent, input
<1>6. CASE len' = 0
  <2>1. chunker' = "closed" /\ localOffset' = localOffset /\ totalOffset = fileLen
    BY <1>1, <1>3, <1>6 DEF Read, TypeOK
  <2> QED BY <1>1, <1>3, <1>4, <1>5, <2>1 DEF WindowsInv, TypeOK, CutUp, input
<1>7. CASE len' # 0
  <2>1. chunker' = "cut" /\ localOffset' = 0
    BY <1>7 DEF Read
  <2>2. /\ totalOffset + len' <= fileLen
        /\ end' => totalOffset + len' = fileLen
    <3>1. totalOffset \in Nat /\ fileLen \in Nat
      BY <1>1 DEF TypeOK
    <3>2. totalOffset + len' <= fileLen
      <4>1. len' \in Nat /\ len' <= fileLen - totalOffset
        BY <1>3 DEF rest
      <4>2. PICK l \in Nat : l = len'
        BY <4>1
      <4>3. l <= fileLen - totalOffset
        BY <4>1, <4>2
      <4>4. totalOffset + l <= fileLen
        BY <3>1, <4>3
      <4> QED BY <4>2, <4>4
    <3>3. ASSUME end' PROVE totalOffset + len' = fileLen
      BY <1>31, <3>1, <3>3
    <3> QED BY <3>2, <3>3
  <2>3. WindowOK' /\ OffsetOK'
    BY <1>1, <1>3, <2>1, <2>2 DEF WindowOK, OffsetOK, Window, input
  <2>4. CutUp(chunks', totalOffset' + localOffset')
    BY <1>1, <2>1 DEF CutUp, TypeOK
  <2> QED BY <1>1, <1>3, <1>4, <1>5, <2>1, <2>3, <2>4 DEF WindowsInv, TypeOK, input
<1> QED BY <1>6, <1>7

\* A chunk begins where the last one ended.
LEMMA CutUpStep ==
    ASSUME TypeOK, NEW p \in Nat, CutUp(chunks, p), NEW size \in Nat,
           chunks' = Append(chunks, [at |-> p, size |-> size]),
           NEW q, q = p + size
    PROVE  chunks' \in Seq(Piece) /\ CutUp(chunks', q)
<1> DEFINE e == [at |-> p, size |-> size]
           n == Len(chunks)
<1>1. e \in Piece /\ e.at = p /\ e.size = size /\ chunks \in Seq(Piece)
  BY DEF Piece, TypeOK
<1> HIDE DEF e
<1>2. /\ chunks' \in Seq(Piece) /\ chunks' # <<>>
      /\ n \in Nat /\ DOMAIN chunks = 1 .. n
      /\ Len(chunks') = n + 1 /\ DOMAIN chunks' = 1 .. n + 1
      /\ \A i \in 1 .. n : chunks'[i] = chunks[i]
      /\ chunks'[n + 1] = e
      /\ chunks = <<>> <=> n = 0
  BY <1>1, AppendPiece DEF e
<1>3. ASSUME NEW i \in DOMAIN chunks'
      PROVE  chunks'[i].at = IF i = 1 THEN 0 ELSE chunks'[i - 1].at + chunks'[i - 1].size
  <2>1. CASE i \in 1 .. n
    <3>1. chunks[i].at = IF i = 1 THEN 0 ELSE chunks[i - 1].at + chunks[i - 1].size
      BY <1>2, <2>1 DEF CutUp
    <3>2. i # 1 => i - 1 \in 1 .. n
      BY <1>2, <2>1
    <3> QED BY <1>2, <2>1, <3>1, <3>2
  <2>2. CASE i = n + 1
    <3>1. chunks'[i].at = p
      BY <1>1, <1>2, <2>2
    <3>2. CASE n = 0
      BY <1>2, <2>2, <3>1, <3>2 DEF CutUp
    <3>3. CASE n # 0
      <4>1. p = chunks[n].at + chunks[n].size
        BY <1>2, <3>3 DEF CutUp
      <4>2. n \in 1 .. n /\ i - 1 = n /\ i # 1
        BY <1>2, <2>2, <3>3
      <4> QED BY <1>2, <3>1, <4>1, <4>2
    <3> QED BY <3>2, <3>3
  <2> QED BY <1>2, <2>1, <2>2
<1>4. q = chunks'[Len(chunks')].at + chunks'[Len(chunks')].size
  BY <1>1, <1>2
<1> QED BY <1>2, <1>3, <1>4 DEF CutUp

\* A chunk is cut: it lies in the window unless it is the last of a fixed-size
\* file, and FastCDC cuts where it would in a larger window.
LEMMA CutStep ==
    ASSUME WindowsInv, Cut
    PROVE  WindowsInv'
<1> DEFINE src == totalOffset + localOffset
           l   == len - localOffset
           cp  == CutPoint(src, Minus(len, localOffset))
<1>1. /\ TypeOK /\ WindowOK /\ CutUp(chunks, src) /\ localOffset <= len
      /\ chunker = "cut" /\ UNCHANGED <<input, chunker, totalOffset, len, end>>
  BY DEF WindowsInv, Cut
<1>2. /\ src \in Nat /\ l \in Nat /\ len \in Nat /\ localOffset \in Nat
      /\ totalOffset \in Nat /\ fileLen \in Nat /\ chunkType \in ChunkType
  BY <1>1 DEF TypeOK
<1>3. Minus(len, localOffset) = l
  <2>1. len < SizeRange /\ localOffset < SizeRange
    BY <1>1, <1>2, WindowFacts DEF WindowOK
  <2> QED BY <1>1, <1>2, <2>1, MinusFacts
<1>4. l >= Reserve \/ (end /\ localOffset < len)
  BY <1>3 DEF Cut, InWindow
<1>5. /\ cp = CutPoint(src, l)
      /\ localOffset' = localOffset + cp
      /\ chunks' = Append(chunks, [at |-> src, size |-> cp])
  BY <1>3 DEF Cut
<1>6. /\ cp \in Nat
      /\ chunkType # "FIXED_SIZE" => cp <= l
      /\ chunkType = "FIXED_SIZE" => cp = avgChunkSize
  <2> HIDE DEF src, l, cp
  <2> QED BY <1>2, <1>5, CutPointFacts
<1>7. OffsetOK'
  <2> HIDE DEF src, cp
  <2>1. CASE chunkType # "FIXED_SIZE"
    BY <1>1, <1>2, <1>5, <1>6, <2>1 DEF OffsetOK
  <2>2. CASE chunkType = "FIXED_SIZE" /\ l >= Reserve
    BY <1>1, <1>2, <1>5, <1>6, <2>2, WindowFacts DEF OffsetOK
  <2>3. CASE chunkType = "FIXED_SIZE" /\ end /\ localOffset < len
    <3>1. localOffset' < len' + avgChunkSize
      BY <1>1, <1>2, <1>5, <1>6, <2>3, WindowFacts
    <3> QED BY <1>1, <2>3, <3>1 DEF OffsetOK, input
  <2> QED BY <1>4, <2>1, <2>2, <2>3
<1>8. /\ localOffset' \in Nat
      /\ totalOffset' + localOffset' = src + cp
  BY <1>1, <1>2, <1>5, <1>6
<1>9. chunks' \in Seq(Piece) /\ CutUp(chunks', src + cp)
  <2> HIDE DEF cp, src
  <2> QED BY <1>1, <1>2, <1>5, <1>6, CutUpStep
<1>10. WindowIndependent'
  <2> SUFFICES ASSUME chunkType = "FASTCDC", NEW i \in DOMAIN chunks'
               PROVE  chunks'[i].size = CutPoint(chunks'[i].at, fileLen - chunks'[i].at)
    BY <1>1, CutPointStays DEF WindowIndependent, input
  <2>1. cp = CutPoint(src, fileLen - src)
    <3>1. CASE end /\ localOffset < len
      <4>1. l = fileLen - src
        BY <1>1, <1>2, <3>1 DEF WindowOK
      <4> QED BY <1>5, <4>1
    <3>2. CASE l >= Reserve
      <4>1. maxChunkSize <= l /\ maxChunkSize <= fileLen - src /\ fileLen - src \in Nat
        BY <1>1, <1>2, <3>2, WindowFacts DEF WindowOK
      <4>2. \A k : CutPoint(src, k) = CutPointFastCDC(src, k)
        BY DEF CutPoint
      <4> QED BY <1>2, <1>5, <4>1, <4>2, FastCDCFixed
    <3> QED BY <1>4, <3>1, <3>2
  <2> DEFINE e == [at |-> src, size |-> cp]
             n == Len(chunks)
  <2>2. e.at = src /\ e.size = cp /\ e \in Piece
    BY <1>2, <1>6 DEF Piece
  <2> HIDE DEF e, cp
  <2>3. /\ n \in Nat /\ DOMAIN chunks = 1 .. n /\ DOMAIN chunks' = 1 .. n + 1
        /\ \A k \in 1 .. n : chunks'[k] = chunks[k]
        /\ chunks'[n + 1] = e
    BY <1>1, <1>5, <2>2, AppendPiece DEF TypeOK, e
  <2>4. CASE i \in 1 .. n
    BY <2>3, <2>4 DEF WindowsInv, WindowIndependent
  <2>5. CASE i = n + 1
    BY <2>1, <2>2, <2>3, <2>5
  <2> QED BY <2>3, <2>4, <2>5
<1>11. TypeOK' /\ WindowOK'
  BY <1>1, <1>8, <1>9 DEF TypeOK, WindowOK, input, Window
<1> QED BY <1>1, <1>7, <1>8, <1>9, <1>10, <1>11 DEF WindowsInv

\* The loop is left only with the window cut up, or where the next one begins.
LEMMA NextWindowStep ==
    ASSUME WindowsInv, NextWindow
    PROVE  WindowsInv'
<1>1. /\ TypeOK /\ WindowOK /\ OffsetOK /\ CutUp(chunks, totalOffset + localOffset)
      /\ ~InWindow /\ totalOffset' = totalOffset + localOffset
      /\ UNCHANGED <<input, len, end, localOffset, chunks>>
  BY DEF WindowsInv, NextWindow
<1>2. /\ len \in Nat /\ localOffset \in Nat /\ totalOffset \in Nat /\ fileLen \in Nat
      /\ end \in BOOLEAN
  BY <1>1 DEF TypeOK
<1>3. len < SizeRange /\ localOffset < SizeRange /\ localOffset < len + SizeRange - Reserve
  BY <1>1, <1>2, WindowFacts DEF WindowOK, OffsetOK
<1>4. localOffset <= len
  <2>1. ASSUME len < localOffset PROVE FALSE
    <3>1. Minus(len, localOffset) = SizeRange - (localOffset - len)
      BY <1>2, <1>3, <2>1, MinusFacts
    <3>2. Minus(len, localOffset) >= Reserve
      BY <1>2, <1>3, <3>1, WindowFacts
    <3> QED BY <1>1, <3>2 DEF InWindow
  <2> QED BY <1>2, <2>1
<1>5. totalOffset' <= fileLen /\ (end => totalOffset' = fileLen)
  BY <1>1, <1>2, <1>4 DEF WindowOK, InWindow
<1>6. CutUp(chunks', totalOffset')
  BY <1>1 DEF CutUp
<1>7. WindowIndependent'
  BY <1>1, CutPointStays DEF WindowsInv, WindowIndependent, input
<1>8. TypeOK'
  BY <1>1, <1>2 DEF TypeOK, NextWindow, input
<1>9. chunker' = IF end THEN "closed" ELSE "read"
  BY DEF NextWindow
<1>10. end => CutUp(chunks', fileLen')
  BY <1>1, <1>5, <1>6 DEF CutUp, input
<1> QED BY <1>1, <1>2, <1>5, <1>6, <1>7, <1>8, <1>9, <1>10 DEF WindowsInv, input

\* Only a fixed-size cut gets past what a window holds.
LEMMA CutPastEndStep ==
    ASSUME WindowsInv, CutPastEnd
    PROVE  WindowsInv'
<1>1. /\ TypeOK /\ OffsetOK /\ ~(localOffset <= len)
      /\ chunker' = "undefined"
      /\ UNCHANGED <<input, totalOffset, len, end, localOffset, chunks>>
  BY DEF WindowsInv, CutPastEnd, TypeOK
<1>2. chunkType = "FIXED_SIZE"
  BY <1>1 DEF OffsetOK
<1>3. WindowIndependent'
  BY <1>1, CutPointStays DEF WindowsInv, WindowIndependent, input
<1> QED BY <1>1, <1>2, <1>3 DEF WindowsInv, TypeOK, input

THEOREM WindowsInvariant == Spec => []WindowsInv
<1>1. Init => WindowsInv
  <2> SUFFICES ASSUME Init PROVE WindowsInv
    OBVIOUS
  <2>1. <<>> \in Seq(Piece) /\ DOMAIN <<>> = {}
    BY SMT
  <2>2. fileLen \in Nat
    BY WindowsAssumption DEF Init
  <2>3. CutUp(chunks, 0) /\ TypeOK
    BY <2>1, <2>2 DEF Init, TypeOK, CutUp
  <2> QED BY <2>1, <2>2, <2>3 DEF Init, WindowsInv, WindowIndependent
<1>2. WindowsInv /\ [Next]_vars => WindowsInv'
  <2> SUFFICES ASSUME WindowsInv, [Next]_vars PROVE WindowsInv'
    OBVIOUS
  <2>1. CASE UNCHANGED vars
    <3>1. WindowIndependent'
      BY <2>1, CutPointStays DEF WindowsInv, WindowIndependent, vars, input
    <3> QED BY <2>1, <3>1 DEF vars, input, WindowsInv, TypeOK, WindowOK, OffsetOK,
               CutUp, Window
  <2> QED BY <2>1, ReadStep, CutStep, CutPastEndStep, NextWindowStep DEF Next
<1> QED BY <1>1, <1>2, PTL DEF Spec

\* Gear and FastCDC never cut past the window or the file, so that the loop's
\* subtraction never wraps around.
THEOREM ContentCutsStayInside == Spec => []ContentCutsInsideFile
<1>1. WindowsInv => ContentCutsInsideFile
  <2> SUFFICES ASSUME WindowsInv, chunkType # "FIXED_SIZE" PROVE CutsInsideFile
    BY DEF ContentCutsInsideFile
  <2>1. chunker # "undefined"
    BY DEF WindowsInv
  <2>2. chunker = "cut" => localOffset <= len /\ totalOffset + localOffset <= fileLen
    BY DEF WindowsInv, TypeOK, OffsetOK, WindowOK
  <2> QED BY <2>1, <2>2 DEF CutsInsideFile
<1> QED BY <1>1, WindowsInvariant, PTL

\* Whatever the mode, a file that is closed was cut up whole.
THEOREM FilesCutUpWhole == Spec => []CutUpWhole
<1>1. WindowsInv => CutUpWhole
  BY DEF WindowsInv, CutUpWhole
<1> QED BY <1>1, WindowsInvariant, PTL

\* FastCDC cuts a file where it would cut it as a single window.
THEOREM FastCDCWindowIndependent == Spec => []WindowIndependent
<1>1. WindowsInv => WindowIndependent
  BY DEF WindowsInv
<1> QED BY <1>1, WindowsInvariant, PTL
=============================================================================
