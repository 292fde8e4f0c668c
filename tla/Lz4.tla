-------------------------------- MODULE Lz4 --------------------------------
(***************************************************************************)
(* Local compression (src/src/util/lz4.c) as the program uses it: the      *)
(* methods call LZ4_compress_fast on a chunk with room for as much as the  *)
(* chunk takes, a result of 0 making it a NO_LZ4 chunk, and the storage    *)
(* layer calls LZ4_decompress_safe.  There is no dictionary, no prefix and *)
(* no stream, and the output is limited, so only those branches are here.  *)
(*                                                                         *)
(* Positions count from 0 as in the code, sequences from 1.  A byte is a   *)
(* number below Full + 1; the constants are parameters, so that every case *)
(* comes up in short texts.  The hash is a parameter, too: what a position *)
(* hashes to decides which matches are found, never whether they are.      *)
(***************************************************************************)
EXTENDS Integers, Sequences

CONSTANTS
    MINMATCH, LASTLITERALS, MFLIMIT,
    RUN_MASK, ML_MASK,   \* the largest numbers in the halves of a token
    LZ4_DISTANCE_MAX,
    skipTrigger,         \* 2^LZ4_skipTrigger
    acceleration,
    Hash(_)              \* of MINMATCH + 1 bytes (hash5; hash4 ignores the last)

Full == (RUN_MASK + 1) * (ML_MASK + 1) - 1

At(src, p) == src[p + 1]
Bytes(src, p, n) == SubSeq(src, p + 1, p + n)
LZ4_hashPosition(src, p) == Hash(Bytes(src, p, MINMATCH + 1))
Same4(src, p, q) == Bytes(src, p, MINMATCH) = Bytes(src, q, MINMATCH)

\* an entry that was never set is 0, the first position
Position(table, h) == IF h \in DOMAIN table THEN table[h] ELSE 0
Put(table, h, p) == [x \in DOMAIN table \cup {h} |-> IF x = h THEN p ELSE table[x]]

LZ4_writeLE16(n) == <<n % (Full + 1), n \div (Full + 1)>>
LZ4_readLE16(block, ip) == At(block, ip) + At(block, ip + 1) * (Full + 1)

-----------------------------------------------------------------------------
(* LZ4_count compares words of eight bytes, then four, two and one *)

\* index of the first byte in which the words differ
LZ4_NbCommonBytes(src, p, q) ==
    CHOOSE i \in 0 .. 7 : /\ At(src, p + i) # At(src, q + i)
                          /\ \A j \in 0 .. i - 1 : At(src, p + j) = At(src, q + j)

FullWord(pIn, n, limit) == pIn + n <= limit

RECURSIVE CountWords(_, _, _, _)
CountWords(src, pIn, pMatch, limit) ==
    LET same(n) == Bytes(src, pIn, n) = Bytes(src, pMatch, n)
        rest(n) == IF FullWord(pIn, n, limit) /\ same(n)
                   THEN n + CountWords(src, pIn + n, pMatch + n, limit) ELSE 0
    IN  IF FullWord(pIn, 8, limit)
        THEN IF same(8) THEN rest(8) ELSE LZ4_NbCommonBytes(src, pIn, pMatch)
        ELSE IF rest(4) > 0 THEN rest(4)
        ELSE IF rest(2) > 0 THEN rest(2) ELSE rest(1)

LZ4_count(src, pIn, pMatch, limit) == CountWords(src, pIn, pMatch, limit)

-----------------------------------------------------------------------------
(* LZ4_compress_generic_validated *)

\* the last position a match may start before, and the last it may reach
mflimitPlusOne(src) == Len(src) - MFLIMIT + 1

\* (mutant: a match may reach the end)
matchlimit_End(src) == Len(src)
matchlimit(src) == Len(src) - LASTLITERALS

\* The search for a match: the steps grow the longer none is found.
RECURSIVE FindMatch(_, _, _, _, _)
FindMatch(src, table, ip, step, searchMatchNb) ==
    LET h == LZ4_hashPosition(src, ip)
        match == Position(table, h)
    IN  IF ip + step > mflimitPlusOne(src) THEN [found |-> FALSE]
        ELSE IF match + LZ4_DISTANCE_MAX >= ip /\ Same4(src, match, ip)
        THEN [found |-> TRUE, ip |-> ip, match |-> match, table |-> Put(table, h, ip)]
        ELSE FindMatch(src, Put(table, h, ip), ip + step,
                       searchMatchNb \div skipTrigger, searchMatchNb + 1)

\* how far the match extends backwards, over literals not written yet
CatchUp(src, anchor, ip, match) ==
    LET most == IF ip - anchor < match THEN ip - anchor ELSE match
    IN  CHOOSE k \in 0 .. most :
            /\ \A i \in 1 .. k : At(src, ip - i) = At(src, match - i)
            /\ k < most => At(src, ip - k - 1) # At(src, match - k - 1)

\* a length is in its half of the token, and what exceeds it in bytes behind
Nibble(length, mask) == IF length < mask THEN length ELSE mask
Extension(length, mask) ==
    IF length < mask THEN <<>>
    ELSE [i \in 1 .. (length - mask) \div Full |-> Full]
         \o <<(length - mask) % Full>>

Literals(src, anchor, n) == Extension(n, RUN_MASK) \o Bytes(src, anchor, n)

\* s: what is written, what is read (anchor), the table; room for max bytes
FitsLiterals(s, n, max) ==
    Len(s.out) + 1 + n + (2 + 1 + LASTLITERALS) + n \div Full <= max
FitsMatch(before, matchCode, max) ==
    before + (1 + LASTLITERALS) + (matchCode + Full - ML_MASK) \div Full <= max
FitsLast(s, n, max) ==
    Len(s.out) + n + 1 + (n + Full - RUN_MASK) \div Full <= max

DoesNotFit == <<>>

LastLiterals(src, s, max) ==
    LET lastRun == Len(src) - s.anchor
    IN  IF ~FitsLast(s, lastRun, max) THEN DoesNotFit
        ELSE s.out \o <<Nibble(lastRun, RUN_MASK) * (ML_MASK + 1)>>
                   \o Literals(src, s.anchor, lastRun)

\* A sequence: token, literals, offset, match length.  Behind the match another
\* one may start at once; else the search goes on with the byte after it.
RECURSIVE NextMatch(_, _, _, _, _, _), MainLoop(_, _, _, _)
NextMatch(src, s, ip, match, checked, max) ==
    LET litLength == ip - s.anchor
        matchCode == LZ4_count(src, ip + MINMATCH, match + MINMATCH, matchlimit(src))
        end   == ip + MINMATCH + matchCode
        upTo  == s.out
                 \o <<Nibble(litLength, RUN_MASK) * (ML_MASK + 1)
                      + Nibble(matchCode, ML_MASK)>>
                 \o Literals(src, s.anchor, litLength) \o LZ4_writeLE16(ip - match)
        filled == Put(s.table, LZ4_hashPosition(src, end - 2), end - 2)
        h      == LZ4_hashPosition(src, end)
        again  == Position(filled, h)
        s2     == [out |-> upTo \o Extension(matchCode, ML_MASK), anchor |-> end,
                   table |-> s.table]
        s3     == [s2 EXCEPT !.table = Put(filled, h, end)]
    IN  IF (checked /\ ~FitsLiterals(s, litLength, max))
           \/ ~FitsMatch(Len(upTo), matchCode, max)
        THEN DoesNotFit
        ELSE IF end >= mflimitPlusOne(src) THEN LastLiterals(src, s2, max)
        ELSE IF again + LZ4_DISTANCE_MAX >= end /\ Same4(src, again, end)
        THEN NextMatch(src, s3, end, again, FALSE, max)
        ELSE MainLoop(src, s3, end + 1, max)

MainLoop(src, s, from, max) ==
    LET m == FindMatch(src, s.table, from, 1, acceleration * skipTrigger)
        k == CatchUp(src, s.anchor, m.ip, m.match)
    IN  IF m.found
        THEN NextMatch(src, [s EXCEPT !.table = m.table], m.ip - k, m.match - k,
                       TRUE, max)
        ELSE LastLiterals(src, s, max)

LZ4_compress_generic(src, max) ==
    LET start == [out |-> <<>>, anchor |-> 0, table |-> <<>>]
        first == [start EXCEPT !.table = Put(<<>>, LZ4_hashPosition(src, 0), 0)]
    IN  IF src = <<>> THEN (IF max = 0 THEN DoesNotFit ELSE <<0>>)
        ELSE IF Len(src) < MFLIMIT + 1 THEN LastLiterals(src, start, max)
        ELSE MainLoop(src, first, 1, max)

\* with room for LZ4_compressBound it is not looked at again
LZ4_compressBound(n) == n + n \div Full + 16
LZ4_compress_fast(src, max) ==
    LZ4_compress_generic(src, IF max >= LZ4_compressBound(Len(src))
                              THEN 2 * LZ4_compressBound(Len(src)) ELSE max)

-----------------------------------------------------------------------------
(* LZ4_decompress_generic, full blocks.  Its fast loop and its shortcut read *)
(* the same sequence with fewer tests, where both ends are far enough away.  *)

Error == <<-1>>

\* a length that goes on; the loop ends at the byte that is not full, or with
\* an error at lencheck
RECURSIVE read_variable_length(_, _, _)
read_variable_length(block, ip, lencheck) ==
    LET s == At(block, ip)
        rest == read_variable_length(block, ip + 1, lencheck)
    IN  IF ip + 1 >= lencheck \/ s # Full
        THEN [length |-> s, ip |-> ip + 1, late |-> ip + 1 >= lencheck]
        ELSE [rest EXCEPT !.length = @ + s]

\* the literals' length: only an error before the first byte counts
LiteralLength(block, ip, nibble) ==
    LET more == read_variable_length(block, ip, Len(block) - RUN_MASK)
    IN  IF nibble # RUN_MASK THEN [length |-> nibble, ip |-> ip, error |-> FALSE]
        ELSE IF ip >= Len(block) - RUN_MASK
        THEN [length |-> 0, ip |-> ip, error |-> TRUE]
        ELSE [length |-> nibble + more.length, ip |-> more.ip, error |-> FALSE]

MatchLength(block, ip, nibble) ==
    LET more == read_variable_length(block, ip, Len(block) - LASTLITERALS + 1)
    IN  IF nibble # ML_MASK
        THEN [length |-> nibble + MINMATCH, ip |-> ip, error |-> FALSE]
        ELSE [length |-> nibble + more.length + MINMATCH, ip |-> more.ip,
              error |-> more.late]

\* the match may reach into what it is writing
CopyMatch(out, offset, length) ==
    out \o [i \in 1 .. length |-> out[Len(out) - offset + 1 + ((i - 1) % offset)]]

\* a sequence, read the same way by both loops; the last one has literals only
Literal(block, from) ==
    LiteralLength(block, from + 1, At(block, from) \div (ML_MASK + 1))
Match(block, from, text) ==
    LET lit == Literal(block, from)
        at  == lit.ip + lit.length
        ml  == MatchLength(block, at + 2, At(block, from) % (ML_MASK + 1))
    IN  [offset |-> LZ4_readLE16(block, at), length |-> ml.length, ip |-> ml.ip,
         error |-> ml.error \/ LZ4_readLE16(block, at) > Len(text)]

\* nothing but the last literals may come close to either end
Last(block, lit, cpy, oend) ==
    \/ cpy > oend - MFLIMIT
    \/ lit.ip + lit.length > Len(block) - (2 + 1 + LASTLITERALS)

RECURSIVE Decode(_, _, _, _)
Decode(block, from, out, oend) ==
    LET lit  == Literal(block, from)
        cpy  == Len(out) + lit.length
        text == out \o Bytes(block, lit.ip, lit.length)
        m    == Match(block, from, text)
    IN  IF lit.error THEN Error
        ELSE IF Last(block, lit, cpy, oend)
        THEN IF lit.ip + lit.length # Len(block) \/ cpy > oend THEN Error ELSE text
        ELSE IF m.error \/ cpy + m.length > oend - LASTLITERALS THEN Error
        ELSE Decode(block, m.ip, CopyMatch(text, m.offset, m.length), oend)

LZ4_decompress_safe(block, maxDecompressedSize) ==
    IF maxDecompressedSize = 0 THEN (IF block = <<0>> THEN <<>> ELSE Error)
    ELSE IF block = <<>> THEN Error
    ELSE Decode(block, 0, <<>>, maxDecompressedSize)

-----------------------------------------------------------------------------
(* How a match is copied: in stripes that may go past its end, from a source *)
(* that is moved so that a stripe never reads what it writes.  mem is memory *)
(* around the output, which ends at oend.                                    *)

WILDCOPYLENGTH == 8
inc32table == <<0, 1, 2, 1, 0, 4, 4, 4>>

\* (mutant: the table without its signs)
dec64table_Unsigned == <<0, 0, 0, 1, 4, 1, 2, 3>>

dec64table == <<0, 0, 0, -1, -4, 1, 2, 3>>

memcpy(mem, d, s, n) ==
    [i \in DOMAIN mem |-> IF i \in d .. d + n - 1 THEN mem[s + i - d] ELSE mem[i]]

\* byte by byte: the source may be written on the way
RECURSIVE ByteCopy(_, _, _, _)
ByteCopy(mem, d, s, end) ==
    IF d >= end THEN mem ELSE ByteCopy(memcpy(mem, d, s, 1), d + 1, s + 1, end)

RECURSIVE WildCopy8(_, _, _, _), WildCopy32(_, _, _, _)
WildCopy8(mem, d, s, end) ==
    LET m == memcpy(mem, d, s, 8)
    IN  IF d + 8 < end THEN WildCopy8(m, d + 8, s + 8, end) ELSE m
WildCopy32(mem, d, s, end) ==
    LET m == memcpy(memcpy(mem, d, s, 16), d + 16, s + 16, 16)
    IN  IF d + 32 < end THEN WildCopy32(m, d + 32, s + 32, end) ELSE m

\* the first eight bytes of a close match, and where its source goes on
Spread(mem, op, offset) ==
    memcpy(ByteCopy(mem, op, op - offset, op + 4),
           op + 4, op - offset + inc32table[offset + 1], 4)
SpreadFrom(op, offset) ==
    op - offset + inc32table[offset + 1] - dec64table[offset + 1]

\* the fast loop, 64 bytes from the end
LZ4_memcpy_using_offset(mem, op, offset, cpy) ==
    LET v == [i \in 0 .. 7 |-> mem[op - offset + (i % offset)]]
    IN  CASE offset \in {1, 2, 4} ->
               [i \in DOMAIN mem |->
                    IF i >= op /\ i < op + 8 * ((cpy - op + 7) \div 8)
                    THEN v[(i - op) % 8] ELSE mem[i]]
          [] offset \in {3, 5, 6, 7} ->
               WildCopy8(Spread(mem, op, offset), op + 8, SpreadFrom(op, offset), cpy)
          [] OTHER ->
               WildCopy8(memcpy(mem, op, op - offset, 8), op + 8, op - offset + 8, cpy)

FastCopy(mem, op, offset, cpy) ==
    IF offset < 16 THEN LZ4_memcpy_using_offset(mem, op, offset, cpy)
    ELSE WildCopy32(mem, op, op - offset, cpy)

\* the safe loop, up to LASTLITERALS from the end
SafeCopy(mem, op, offset, cpy, oend) ==
    LET m == IF offset < 8 THEN Spread(mem, op, offset)
             ELSE memcpy(mem, op, op - offset, 8)
        from == IF offset < 8 THEN SpreadFrom(op, offset) ELSE op - offset + 8
        oCopyLimit == oend - (WILDCOPYLENGTH - 1)
        moved == IF op + 8 < oCopyLimit THEN oCopyLimit - (op + 8) ELSE 0
    IN  IF cpy > oend - (2 * WILDCOPYLENGTH - 4)
        THEN ByteCopy(IF moved > 0 THEN WildCopy8(m, op + 8, from, oCopyLimit) ELSE m,
                      op + 8 + moved, from + moved, cpy)
        ELSE IF cpy - op > 16
        THEN WildCopy8(memcpy(m, op + 8, from, 8), op + 16, from + 8, cpy)
        ELSE memcpy(m, op + 8, from, 8)

-----------------------------------------------------------------------------
(* Properties *)

\* What is compressed is decompressed, whatever room the compressor had: it
\* keeps within it and gives up rather than cut the text short; and the
\* decoder needs no more room than the text, and does with no less
\* (datawrite.cc:684 does not look at its result).
RoundTrips(src, max) ==
    LET block == LZ4_compress_fast(src, max)
    IN  \/ block = DoesNotFit /\ max < LZ4_compressBound(Len(src))
        \/ /\ Len(block) <= max
           /\ \A i \in DOMAIN block : block[i] \in 0 .. Full
           /\ \A room \in {Len(src), Len(src) + 1, 2 * Len(src) + 40} :
                  LZ4_decompress_safe(block, room) = src
           /\ src # <<>> => LZ4_decompress_safe(block, Len(src) - 1) = Error

\* The stripes of both loops leave behind what a copy byte by byte would, at
\* every distance and length, and the safe loop writes nothing behind the end
\* of the output nor the fast one behind its 64 bytes.
StripesCopy(offset, length, beyond) ==
    LET op   == offset
        cpy  == op + length
        mem  == [i \in 0 .. cpy + 80 |-> i]
        want == ByteCopy(mem, op, 0, cpy)
        fast == FastCopy(mem, op, offset, cpy)
        safe == SafeCopy(mem, op, offset, cpy, cpy + beyond)
    IN  /\ \A i \in 0 .. cpy - 1 : fast[i] = want[i] /\ safe[i] = want[i]
        /\ \A i \in DOMAIN mem : /\ i >= cpy + 64 => fast[i] = i
                                 /\ i >= cpy + beyond => safe[i] = i

\* the words that LZ4_count compares count what is equal
CountsEqual(src, p, q, limit) ==
    LET n == LZ4_count(src, p, q, limit)
    IN  /\ p + n <= limit
        /\ Bytes(src, p, n) = Bytes(src, q, n)
        /\ p + n < limit => At(src, p + n) # At(src, q + n)
=============================================================================
